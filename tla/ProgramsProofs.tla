----------------------------- MODULE ProgramsProofs -----------------------------
(***************************************************************************)
(* Proofs about the programs of MCPrograms, for any values of their        *)
(* constants: the checkpoint, the System V semaphore demo, the alarm       *)
(* clock, the counters, the counting device, the echo server, the shell,   *)
(* the bitmaps of the buddy system and the allocator, each by an inductive *)
(* invariant of its own, and then all of them as they run together.        *)
(***************************************************************************)
EXTENDS MCPrograms, Sequences, NaturalsInduction, FunctionTheorems, FiniteSetTheorems,
        TLAPS

------------------------------------------------------------------------------
(* The System V semaphore demo: the permit of a set goes from its creator  *)
(* to the semaphore, to a process and back.                                *)

\* The numbers and the finite sets of SemDemo are those of the proofs.
LEMMA SemDemoSizes ==
  /\ \A X : S!Cardinality(X) = Cardinality(X)
  /\ \A X : S!IsFiniteSet(X) <=> IsFiniteSet(X)
BY DEF S!Cardinality, Cardinality, S!IsFiniteSet, IsFiniteSet

\* Where a process of semdemo.c can be.
SemDemoPlaces == {"start", "create", "join", "poll", "ready", "locked", "exit"}

\* The types of the demo. No process knows a set that is not there yet.
SemDemoTypeOK ==
  /\ lastSet \in Nat /\ lastSet <= MaxSets
  /\ current \in Nat /\ current <= lastSet
  /\ value \in [S!Sets -> Nat]
  /\ otime \in [S!Sets -> BOOLEAN]
  /\ semid \in [Processes -> Nat] /\ \A p \in Processes : semid[p] <= lastSet
  /\ retries \in [Processes -> Nat]
  /\ semdemo_pc \in [Processes -> SemDemoPlaces]

\* Whoever uses a set knows one.
SetsAreKnown ==
  \A p \in Processes : semdemo_pc[p] \in {"create", "poll", "ready", "locked"} =>
    semid[p] # 0

\* A set that is not free yet has at most the process that will free it, and
\* those to come have not been touched.
OneCreator ==
  /\ \A p, q \in Processes :
       semdemo_pc[p] = "create" /\ semdemo_pc[q] = "create"
       /\ semid[p] = semid[q] => p = q
  /\ \A p \in Processes : semdemo_pc[p] = "create" => ~otime[semid[p]]
  /\ \A id \in S!Sets : id > lastSet => ~otime[id]

\* No process is between its P and its V on this set.
NobodyHolds(id) == \A p \in Processes : ~(semdemo_pc[p] = "locked" /\ semid[p] = id)

\* The permit of a set that has been freed is in the semaphore, with one
\* process, or, when the set has been removed, gone with the process that had
\* it.
PermitOf(id) ==
  \/ ~otime[id] /\ value[id] = 0 /\ NobodyHolds(id)
  \/ otime[id] /\ value[id] = 1 /\ NobodyHolds(id)
  \/ /\ otime[id] /\ value[id] = 0
     /\ \E p \in Processes :
          \A q \in Processes : semdemo_pc[q] = "locked" /\ semid[q] = id <=> q = p
  \/ id # current /\ otime[id] /\ value[id] = 0 /\ NobodyHolds(id)

\* The inductive invariant of the demo.
SemDemoInv ==
  /\ SemDemoTypeOK /\ SetsAreKnown /\ OneCreator
  /\ \A id \in S!Sets : PermitOf(id)

\* The demo starts without a set, and nobody has been given a permit.
LEMMA SemDemoStart == ASSUME S!SemDemoAssumption PROVE S!Init => SemDemoInv
BY
   DEF S!SemDemoAssumption, S!Init, S!Sets, SemDemoInv, SemDemoTypeOK, SemDemoPlaces,
       SetsAreKnown,
       OneCreator, PermitOf, NobodyHolds

\* semget with IPC_EXCL gives a process a set that nobody has touched.
LEMMA SemDemoGetExclusively ==
  ASSUME S!SemDemoAssumption, SemDemoInv, NEW p \in Processes, S!GetExclusively(p)
  PROVE  SemDemoInv'
<1> USE DEF S!SemDemoAssumption
<1>d. \A id \in Nat : id # 0 /\ id <= MaxSets <=> id \in S!Sets
  BY DEF S!Sets
<1>e. S!Sets \subseteq Nat
  BY DEF S!Sets
<1>a. SemDemoTypeOK
  BY DEF SemDemoInv
<1>b. SetsAreKnown /\ OneCreator
  BY DEF SemDemoInv
<1>c. ASSUME NEW id \in S!Sets PROVE PermitOf(id)
  BY <1>c DEF SemDemoInv
<1>1. SemDemoTypeOK'
  BY <1>a, <1>d, <1>e, <1>b DEF S!GetExclusively, S!Goto, SemDemoTypeOK, SemDemoPlaces
<1>2. SetsAreKnown' /\ OneCreator'
  BY <1>a, <1>d, <1>e, <1>b, <1>c
     DEF S!GetExclusively, S!Goto, SemDemoTypeOK, SemDemoPlaces, SetsAreKnown,
         OneCreator
<1>3. ASSUME NEW id \in S!Sets PROVE PermitOf(id)'
  BY <1>a, <1>d, <1>e, <1>b, <1>c, <1>3
     DEF S!GetExclusively, S!Goto, SemDemoTypeOK, SemDemoPlaces, SetsAreKnown,
         OneCreator,
            PermitOf, NobodyHolds
<1> QED BY <1>1, <1>2, <1>3 DEF SemDemoInv

\* The creator of a set puts its one permit in, and is the only one to do
\* so.
LEMMA SemDemoFreeSemaphore ==
  ASSUME S!SemDemoAssumption, SemDemoInv, NEW p \in Processes, S!FreeSemaphore(p)
  PROVE  SemDemoInv'
<1> USE DEF S!SemDemoAssumption
<1>d. \A id \in Nat : id # 0 /\ id <= MaxSets <=> id \in S!Sets
  BY DEF S!Sets
<1>e. S!Sets \subseteq Nat
  BY DEF S!Sets
<1>a. SemDemoTypeOK
  BY DEF SemDemoInv
<1>b. SetsAreKnown /\ OneCreator
  BY DEF SemDemoInv
<1>c. ASSUME NEW id \in S!Sets PROVE PermitOf(id)
  BY <1>c DEF SemDemoInv
<1>1. SemDemoTypeOK'
  <2>1. value' \in [S!Sets -> Nat]
    BY <1>a, <1>b, <1>d, <1>e
       DEF S!FreeSemaphore, S!Exists, S!Goto, SemDemoTypeOK, SemDemoPlaces,
           SetsAreKnown
  <2>2. otime' \in [S!Sets -> BOOLEAN]
    BY <1>a, <1>b, <1>d, <1>e
       DEF S!FreeSemaphore, S!Exists, S!Goto, SemDemoTypeOK, SemDemoPlaces,
           SetsAreKnown
  <2> QED
    BY <1>a, <2>1, <2>2
       DEF S!FreeSemaphore, S!Exists, S!Goto, SemDemoTypeOK, SemDemoPlaces
<1>2. SetsAreKnown' /\ OneCreator'
  BY <1>a, <1>d, <1>e, <1>b, <1>c
     DEF S!FreeSemaphore, S!Exists, S!Goto, SemDemoTypeOK, SemDemoPlaces,
         SetsAreKnown, OneCreator
<1>3. ASSUME NEW id \in S!Sets PROVE PermitOf(id)'
  BY <1>a, <1>d, <1>e, <1>b, <1>c, <1>3
     DEF S!FreeSemaphore, S!Exists, S!Goto, SemDemoTypeOK, SemDemoPlaces,
         SetsAreKnown, OneCreator,
            PermitOf, NobodyHolds
<1> QED BY <1>1, <1>2, <1>3 DEF SemDemoInv

\* A process that did not create the set waits until its otime says that it
\* is ready.
LEMMA SemDemoWait ==
  ASSUME S!SemDemoAssumption, SemDemoInv, NEW p \in Processes, S!Get(p) \/ S!Poll(p)
  PROVE  SemDemoInv'
<1> USE DEF S!SemDemoAssumption
<1>d. \A id \in Nat : id # 0 /\ id <= MaxSets <=> id \in S!Sets
  BY DEF S!Sets
<1>e. S!Sets \subseteq Nat
  BY DEF S!Sets
<1>a. SemDemoTypeOK
  BY DEF SemDemoInv
<1>b. SetsAreKnown /\ OneCreator
  BY DEF SemDemoInv
<1>c. ASSUME NEW id \in S!Sets PROVE PermitOf(id)
  BY <1>c DEF SemDemoInv
<1>1. SemDemoTypeOK'
  BY <1>a, <1>d, <1>e, <1>b
     DEF S!Get, S!Poll, S!Exists, S!Goto, SemDemoTypeOK, SemDemoPlaces
<1>2. SetsAreKnown' /\ OneCreator'
  BY <1>a, <1>d, <1>e, <1>b, <1>c
     DEF S!Get, S!Poll, S!Goto, SemDemoTypeOK, SemDemoPlaces, SetsAreKnown, OneCreator
<1>3. ASSUME NEW id \in S!Sets PROVE PermitOf(id)'
  BY <1>a, <1>d, <1>e, <1>b, <1>c, <1>3
     DEF S!Get, S!Poll, S!Goto, SemDemoTypeOK, SemDemoPlaces, PermitOf, NobodyHolds
<1> QED BY <1>1, <1>2, <1>3 DEF SemDemoInv

\* P takes the permit from the semaphore to the process.
LEMMA SemDemoLock ==
  ASSUME S!SemDemoAssumption, SemDemoInv, NEW p \in Processes, S!Lock(p)
  PROVE  SemDemoInv'
<1> USE DEF S!SemDemoAssumption
<1>d. \A id \in Nat : id # 0 /\ id <= MaxSets <=> id \in S!Sets
  BY DEF S!Sets
<1>e. S!Sets \subseteq Nat
  BY DEF S!Sets
<1>a. SemDemoTypeOK
  BY DEF SemDemoInv
<1>b. SetsAreKnown /\ OneCreator
  BY DEF SemDemoInv
<1>c. ASSUME NEW id \in S!Sets PROVE PermitOf(id)
  BY <1>c DEF SemDemoInv
<1>1. SemDemoTypeOK'
  <2>1. value' \in [S!Sets -> Nat]
    BY <1>a, <1>b, <1>d, <1>e
       DEF S!Lock, S!Exists, S!Goto, SemDemoTypeOK, SemDemoPlaces, SetsAreKnown
  <2>2. otime' \in [S!Sets -> BOOLEAN]
    BY <1>a, <1>b, <1>d, <1>e
       DEF S!Lock, S!Exists, S!Goto, SemDemoTypeOK, SemDemoPlaces, SetsAreKnown
  <2> QED
    BY <1>a, <2>1, <2>2 DEF S!Lock, S!Exists, S!Goto, SemDemoTypeOK, SemDemoPlaces
<1>2. SetsAreKnown' /\ OneCreator'
  BY <1>a, <1>d, <1>e, <1>b, <1>c
     DEF S!Lock, S!Exists, S!Goto, SemDemoTypeOK, SemDemoPlaces, SetsAreKnown,
         OneCreator, PermitOf
<1>3. ASSUME NEW id \in S!Sets PROVE PermitOf(id)'
  BY <1>a, <1>d, <1>e, <1>b, <1>c, <1>3
     DEF S!Lock, S!Exists, S!Goto, SemDemoTypeOK, SemDemoPlaces, SetsAreKnown,
         PermitOf, NobodyHolds
<1> QED BY <1>1, <1>2, <1>3 DEF SemDemoInv

\* V and the end of a process put the permit back, or lose it with a set
\* that is removed.
LEMMA SemDemoUnlock ==
  ASSUME S!SemDemoAssumption, SemDemoInv, NEW p \in Processes,
         S!Unlock(p) \/ S!Kill(p)
  PROVE  SemDemoInv'
<1> USE DEF S!SemDemoAssumption
<1>d. \A id \in Nat : id # 0 /\ id <= MaxSets <=> id \in S!Sets
  BY DEF S!Sets
<1>e. S!Sets \subseteq Nat
  BY DEF S!Sets
<1>a. SemDemoTypeOK
  BY DEF SemDemoInv
<1>b. SetsAreKnown /\ OneCreator
  BY DEF SemDemoInv
<1>c. ASSUME NEW id \in S!Sets PROVE PermitOf(id)
  BY <1>c DEF SemDemoInv
<1>1. SemDemoTypeOK'
  BY <1>a, <1>d, <1>e, <1>b
     DEF S!Unlock, S!Kill, S!Exists, S!Goto, SemDemoTypeOK, SemDemoPlaces,
         SetsAreKnown
<1>2. SetsAreKnown' /\ OneCreator'
  BY <1>a, <1>d, <1>e, <1>b, <1>c
     DEF S!Unlock, S!Kill, S!Exists, S!Goto, SemDemoTypeOK, SemDemoPlaces,
         SetsAreKnown, OneCreator
<1>3. ASSUME NEW id \in S!Sets PROVE PermitOf(id)'
  BY <1>a, <1>d, <1>e, <1>b, <1>c, <1>3
     DEF S!Unlock, S!Kill, S!Exists, S!Goto, SemDemoTypeOK, SemDemoPlaces,
         SetsAreKnown, PermitOf, NobodyHolds
<1> QED BY <1>1, <1>2, <1>3 DEF SemDemoInv

\* The other steps move no permit.
LEMMA SemDemoRest ==
  ASSUME S!SemDemoAssumption, SemDemoInv,
         S!RemoveSet \/ UNCHANGED S!vars \/ \E p \in Processes : S!Restart(p)
  PROVE  SemDemoInv'
<1> USE DEF S!SemDemoAssumption
<1>d. \A id \in Nat : id # 0 /\ id <= MaxSets <=> id \in S!Sets
  BY DEF S!Sets
<1>e. S!Sets \subseteq Nat
  BY DEF S!Sets
<1>a. SemDemoTypeOK
  BY DEF SemDemoInv
<1>b. SetsAreKnown /\ OneCreator
  BY DEF SemDemoInv
<1>c. ASSUME NEW id \in S!Sets PROVE PermitOf(id)
  BY <1>c DEF SemDemoInv
<1>1. SemDemoTypeOK'
  BY <1>a, <1>d, <1>e, <1>b
     DEF S!Restart, S!RemoveSet, S!vars, S!Goto, SemDemoTypeOK, SemDemoPlaces
<1>2. SetsAreKnown' /\ OneCreator'
  BY <1>a, <1>d, <1>e, <1>b, <1>c
     DEF S!Restart, S!RemoveSet, S!vars, S!Goto, SemDemoTypeOK, SemDemoPlaces,
         SetsAreKnown, OneCreator
<1>3. ASSUME NEW id \in S!Sets PROVE PermitOf(id)'
  BY <1>a, <1>d, <1>e, <1>b, <1>c, <1>3
     DEF S!Restart, S!RemoveSet, S!vars, S!Goto, SemDemoTypeOK, SemDemoPlaces,
         PermitOf, NobodyHolds
<1> QED BY <1>1, <1>2, <1>3 DEF SemDemoInv

\* The invariant of the demo holds throughout.
LEMMA SemDemoInvariant == ASSUME S!SemDemoAssumption PROVE S!Spec => []SemDemoInv
<1>1. SemDemoInv /\ [S!Next]_(S!vars) => SemDemoInv'
  BY SemDemoGetExclusively, SemDemoFreeSemaphore, SemDemoWait, SemDemoLock,
     SemDemoUnlock, SemDemoRest
     DEF S!Next, S!semdemo
<1> QED BY <1>1, SemDemoStart, PTL DEF S!Spec

\* The invariant says where each permit is, so that there is one for each
\* set.
LEMMA SemDemoPermits ==
  ASSUME S!SemDemoAssumption
  PROVE  SemDemoInv => S!OnePermitPerSet
<1> SUFFICES ASSUME SemDemoInv PROVE S!OnePermitPerSet OBVIOUS
<1>1. ASSUME NEW p \in Processes, NEW q \in Processes, semdemo_pc[p] = "locked",
             semdemo_pc[q] = "locked", p # q
      PROVE  semid[p] # semid[q]
  <2>1. semid[p] \in S!Sets
    BY <1>1 DEF S!SemDemoAssumption, SemDemoInv, SemDemoTypeOK, SetsAreKnown, S!Sets
  <2>2. PermitOf(semid[p])
    BY <2>1 DEF SemDemoInv
  <2> QED BY <1>1, <2>2 DEF PermitOf, NobodyHolds
<1>2. ASSUME current # 0
      PROVE  value[current] + Cardinality(S!Holders(current)) = IF otime[current] THEN 1 ELSE 0
  <2>1. current \in S!Sets /\ value[current] \in Nat
    BY <1>2 DEF S!SemDemoAssumption, SemDemoInv, SemDemoTypeOK, S!Sets
  <2>2. PermitOf(current)
    BY <2>1 DEF SemDemoInv
  <2>3. CASE NobodyHolds(current)
    <3>1. S!Holders(current) = {}
      BY <2>3 DEF NobodyHolds, S!Holders
    <3>2. Cardinality(S!Holders(current)) = 0
      BY <3>1, FS_EmptySet
    <3> QED BY <2>1, <2>2, <2>3, <3>2 DEF PermitOf, NobodyHolds
  <2>4. CASE ~NobodyHolds(current)
    <3>1. PICK p \in Processes :
            \A q \in Processes : semdemo_pc[q] = "locked"
            /\ semid[q] = current <=> q = p
      BY <2>2, <2>4 DEF PermitOf
    <3>2. S!Holders(current) = {p}
      BY <3>1 DEF S!Holders
    <3>3. Cardinality(S!Holders(current)) = 1
      BY <3>2, FS_Singleton
    <3> QED BY <2>1, <2>2, <2>4, <3>3 DEF PermitOf
  <2> QED BY <2>3, <2>4
<1> QED BY <1>1, <1>2, SemDemoSizes DEF S!OnePermitPerSet

\* OnePermitPerSet of semdemo.c, for any number of processes, retries and
\* sets: once the set that the key names has been made ready there is one
\* permit for it, in its semaphore or with the one process between its P and
\* its V, and two processes there use different sets.
THEOREM OnePermit == ASSUME S!SemDemoAssumption PROVE S!Spec => []S!OnePermitPerSet
BY SemDemoInvariant, SemDemoPermits, PTL

------------------------------------------------------------------------------
(* The alarm clock: who has the mutex is at the test of its loop, so that  *)
(* only the handler can wait for a thread that does not go on.             *)

\* The inductive invariant of the alarm clock.
ClockInv ==
  /\ mainFirst \in BOOLEAN
  /\ mutex \in Sleepers \cup {Nobody}
  /\ victim \in Sleepers \cup {MainThread, Nobody}
  /\ left \in [Sleepers -> Nat] /\ rounds \in [Sleepers -> Nat]
  /\ alarm_pc \in [Sleepers -> {"idle", "test", "waiting", "woken", "exit"}]
  /\ \A t \in Sleepers : alarm_pc[t] = "test" <=> mutex = t
  /\ \A t \in Sleepers : alarm_pc[t] = "waiting" => left[t] > 0
  /\ mainFirst => victim \in {MainThread, Nobody}

\* The clock starts with its mutex free and no alarm set.
LEMMA ClockStart == A!AlarmClockAssumption /\ A!Init => ClockInv
BY DEF A!AlarmClockAssumption, A!Init, ClockInv

\* A thread's step keeps the clock in order.
LEMMA ClockThread ==
  ASSUME A!AlarmClockAssumption, ClockInv, NEW t \in Sleepers, A!setAlarm(t) \/ A!SpuriousWakeup(t)
  PROVE  ClockInv'
<1> USE DEF ClockInv
<1>1. CASE A!LockAndSet(t)
  <2>1. PICK period \in 1..MaxPeriod : left' = [left EXCEPT ![t] = period]
    BY <1>1 DEF A!LockAndSet
  <2>2. period \in Nat
    BY DEF A!AlarmClockAssumption
  <2> QED BY <1>1, <2>1, <2>2 DEF A!AlarmClockAssumption, A!LockAndSet
<1>2. CASE A!Wait(t)
  BY <1>2 DEF A!AlarmClockAssumption, A!Wait
<1>3. CASE A!Relock(t)
  BY <1>3 DEF A!AlarmClockAssumption, A!Relock
<1>4. CASE A!Unlock(t)
  BY <1>4 DEF A!AlarmClockAssumption, A!Unlock
<1>5. CASE A!Exit(t)
  BY <1>5 DEF A!AlarmClockAssumption, A!Exit
<1>6. CASE A!SpuriousWakeup(t)
  BY <1>6 DEF A!AlarmClockAssumption, A!SpuriousWakeup, A!WakeSpuriously
<1> QED BY <1>1, <1>2, <1>3, <1>4, <1>5, <1>6 DEF A!setAlarm

\* So does an alarm and the handler's tick.
LEMMA ClockHandler ==
  ASSUME A!AlarmClockAssumption, ClockInv, A!signalHandler
  PROVE  ClockInv'
<1> USE DEF ClockInv
<1>1. CASE A!Tick
  BY <1>1 DEF A!AlarmClockAssumption, A!Tick
<1>2. ASSUME NEW t \in Sleepers \cup {MainThread}, A!Alarm(t) PROVE ClockInv'
  BY <1>2 DEF A!AlarmClockAssumption, A!Alarm
<1> QED BY <1>1, <1>2 DEF A!signalHandler

\* The clock stays in order, for any number of threads and any periods.
LEMMA ClockInvariant == ASSUME A!AlarmClockAssumption PROVE A!Spec => []ClockInv
<1>1. ClockInv /\ [A!Next]_(A!vars) => ClockInv'
  <2> SUFFICES ASSUME ClockInv, [A!Next]_(A!vars) PROVE ClockInv'
    OBVIOUS
  <2>1. CASE A!Next
    BY <2>1, ClockThread, ClockHandler DEF A!Next
  <2>2. CASE UNCHANGED A!vars
    BY <2>2 DEF A!vars, ClockInv
  <2> QED BY <2>1, <2>2
<1> QED BY <1>1, ClockStart, PTL DEF A!Spec

\* NobodyOversleeps and OnlyTheHandlerBlocks, for any number of threads and
\* any periods: no thread is asleep past its deadline, the first part of
\* AlarmsRing, and nothing stops the clock but a handler that waits for the
\* thread it has interrupted, which cannot be while main takes the signals.
THEOREM ClockStopsInHandler ==
  ASSUME A!AlarmClockAssumption
  PROVE  A!Spec => [](A!NobodyOversleeps /\ A!OnlyTheHandlerBlocks)
<1>1. ClockInv => A!NobodyOversleeps /\ A!OnlyTheHandlerBlocks
  <2> SUFFICES ASSUME ClockInv PROVE A!NobodyOversleeps /\ A!OnlyTheHandlerBlocks
    OBVIOUS
  <2>1. A!NobodyOversleeps
    BY DEF A!NobodyOversleeps, A!Waiting, ClockInv
  <2>2. A!Stopped => A!SelfDeadlock
    <3> SUFFICES ASSUME A!Stopped PROVE mutex = victim /\ victim # Nobody
      BY DEF A!SelfDeadlock
    <3>1. mutex \in Sleepers /\ alarm_pc[mutex] = "test"
      BY DEF A!Stopped, ClockInv
    <3>2. ~A!Runs(mutex)
      BY <3>1 DEF A!Stopped, A!Waits
    <3> QED BY <3>2 DEF A!Stopped, A!Runs
  <2>3. A!SelfDeadlock => ~mainFirst
    BY DEF A!SelfDeadlock, A!AlarmClockAssumption, ClockInv
  <2> QED BY <2>1, <2>2, <2>3 DEF A!OnlyTheHandlerBlocks
<1> QED BY <1>1, ClockInvariant, PTL

\* StopsForGood: a handler that waits for the thread it has interrupted waits
\* for ever, since that thread cannot go on and nobody else gives the mutex
\* back.
THEOREM ClockStopsForGood ==
  ASSUME A!AlarmClockAssumption
  PROVE  A!Spec => A!StopsForGood
<1>1. ClockInv /\ [A!Next]_(A!vars) => [A!SelfDeadlock => A!SelfDeadlock']_(A!vars)
  <2> SUFFICES ASSUME ClockInv, A!Next, A!SelfDeadlock PROVE A!SelfDeadlock'
    OBVIOUS
  <2>1. ASSUME NEW t \in Sleepers, A!setAlarm(t) \/ A!SpuriousWakeup(t) PROVE A!SelfDeadlock'
    <3>1. t # mutex => alarm_pc[t] # "test"
      BY DEF ClockInv
    <3> QED BY <2>1, <3>1
      DEF A!SelfDeadlock, A!setAlarm, A!LockAndSet, A!Wait, A!Relock, A!Unlock, A!Exit,
          A!SpuriousWakeup, A!Runs
  <2>2. ~A!signalHandler
    BY DEF A!SelfDeadlock, A!signalHandler, A!Tick, A!Alarm
  <2> QED BY <2>1, <2>2 DEF A!Next
<1> QED BY <1>1, ClockInvariant, PTL DEF A!Spec, A!StopsForGood

------------------------------------------------------------------------------
(* The bounded counter: in chapter 31 permits are counted, in chapter 30   *)
(* wakeups.                                                                *)

\* The numbers and the finite sets of RangeCounter are those of the proofs.
LEMMA RangeSizes ==
  /\ \A X : R!Cardinality(X) = Cardinality(X)
  /\ \A X : R!IsFiniteSet(X) <=> IsFiniteSet(X)
BY DEF R!Cardinality, Cardinality, R!IsFiniteSet, IsFiniteSet

\* The types of the bounded counter: a place belongs to a chapter.
RangeTypeOK ==
  /\ chapter \in {30, 31}
  /\ range_counter \in Int
  /\ range_mutex \in Nat /\ decrable \in Nat /\ incrable \in Nat
  /\ chapter = 30 =>
       range_pc \in [R!Threads -> {"begin", "waiting", "woken", "signal"}]
  /\ chapter = 31 =>
       range_pc \in [R!Threads -> {"begin", "lock", "change", "unlock", "post"}]

\* In chapter 31 the permits, the counter and the threads on their way add up:
\* before its change a thread has taken a permit, after it it owes one.
PermitsAddUp ==
  chapter = 31 =>
    /\ incrable + range_counter + Cardinality(R!At(Incrementers, {"lock", "change"}))
         + Cardinality(R!At(Decrementers, {"unlock", "post"})) = max
    /\ decrable - range_counter + Cardinality(R!At(Decrementers, {"lock", "change"}))
         + Cardinality(R!At(Incrementers, {"unlock", "post"})) = max

\* The inductive invariant of the bounded counter. In chapter 30 what is
\* promised is inductive; in chapter 31 the permits have to be counted.
RangeInv == RangeTypeOK /\ PermitsAddUp /\ (chapter = 30 => R!CountInRange)

\* The counter starts at 0, with all the permits.
LEMMA RangeStart == ASSUME R!RangeCounterAssumption PROVE R!Init => RangeInv
<1> SUFFICES ASSUME R!Init PROVE RangeInv OBVIOUS
<1>1. RangeTypeOK
  BY DEF R!RangeCounterAssumption, R!Init, RangeTypeOK
<1>2. /\ R!At(Incrementers, {"lock", "change"}) = {}
         /\ R!At(Decrementers, {"unlock", "post"}) = {}
      /\ R!At(Decrementers, {"lock", "change"}) = {}
         /\ R!At(Incrementers, {"unlock", "post"}) = {}
  BY DEF R!Init, R!At, R!Threads
<1>3. PermitsAddUp
  BY <1>2, FS_EmptySet DEF R!RangeCounterAssumption, PermitsAddUp, R!Init
<1>4. R!CountInRange
  BY
     DEF R!RangeCounterAssumption, R!CountInRange, R!Init, R!Waiting, R!Side,
         R!Threads
<1> QED BY <1>1, <1>3, <1>4 DEF RangeInv

\* Each step keeps the types.
LEMMA RangeTypes ==
  ASSUME R!RangeCounterAssumption, RangeTypeOK, [R!Next]_(R!vars)
  PROVE  RangeTypeOK'
<1> USE DEF RangeTypeOK
<1>1. ASSUME NEW t \in R!Threads, R!Wait(t) \/ R!Change(t) PROVE RangeTypeOK'
  BY <1>1 DEF R!Wait, R!Change, R!semaphores, R!chg
<1>2. ASSUME NEW t \in R!Threads, R!Signal(t) \/ R!SpuriousWakeup(t)
      PROVE  RangeTypeOK'
  BY <1>2
     DEF R!Signal, R!SpuriousWakeup, R!SignalOne, R!WakeSpuriously, R!Waiting,
         R!Others, R!Threads, R!semaphores
<1>3. ASSUME NEW t \in R!Threads, R!WaitSem(t) \/ R!PostSem(t) PROVE RangeTypeOK'
  BY <1>3 DEF R!WaitSem, R!PostSem, R!Goto, R!semaphores
<1>4. ASSUME NEW t \in R!Threads, R!Lock(t) \/ R!ChangeLocked(t) \/ R!Unlock(t)
      PROVE  RangeTypeOK'
  BY <1>4 DEF R!Lock, R!ChangeLocked, R!Unlock, R!Goto, R!semaphores, R!chg
<1>5. CASE UNCHANGED R!vars
  BY <1>5 DEF R!vars, R!semaphores
<1> QED BY <1>1, <1>2, <1>3, <1>4, <1>5 DEF R!Next, R!Count

\* Where a step of chapter 31 leaves the numbers of threads.
LEMMA RangeMoved ==
  ASSUME R!RangeCounterAssumption, RangeTypeOK, chapter = 31, NEW t \in R!Threads,
         \A u \in R!Threads : u # t => range_pc'[u] = range_pc[u],
         NEW X \in {Incrementers, Decrementers}, NEW P
  PROVE  /\ Cardinality(R!At(X, P)) \in Nat /\ Cardinality(R!At(X, P)') \in Nat
         /\ t \in X /\ range_pc[t] \notin P /\ range_pc'[t] \in P =>
              Cardinality(R!At(X, P)') = Cardinality(R!At(X, P)) + 1
         /\ t \in X /\ range_pc[t] \in P /\ range_pc'[t] \notin P =>
              Cardinality(R!At(X, P)) = Cardinality(R!At(X, P)') + 1
         /\ t \notin X \/ (range_pc[t] \in P <=> range_pc'[t] \in P) =>
              Cardinality(R!At(X, P)') = Cardinality(R!At(X, P))
<1>1. IsFiniteSet(X) /\ \A u \in X : u # t => range_pc'[u] = range_pc[u]
  BY RangeSizes DEF R!RangeCounterAssumption, R!Threads
<1>2. R!At(X, P) = {u \in X : range_pc[u] \in P}
      /\ R!At(X, P)' = {u \in X : range_pc'[u] \in P}
  BY DEF R!At
<1> DEFINE before == R!At(X, P)
           after == R!At(X, P)'
           old == range_pc
           new == range_pc'
<1>3. /\ IsFiniteSet(X) /\ \A u \in X : u # t => new[u] = old[u]
      /\ before = {u \in X : old[u] \in P} /\ after = {u \in X : new[u] \in P}
  BY <1>1, <1>2
<1> HIDE DEF before, after, old, new
<1>4. /\ IsFiniteSet(before) /\ Cardinality(before) \in Nat
      /\ IsFiniteSet(after) /\ Cardinality(after) \in Nat
  <2>1. before \subseteq X /\ after \subseteq X
    BY <1>3
  <2> QED BY <1>3, <2>1, FS_Subset, FS_CardinalityType
<1>5. ASSUME t \in X, old[t] \notin P, new[t] \in P
      PROVE  Cardinality(after) = Cardinality(before) + 1
  <2>1. t \notin before /\ after = before \cup {t}
    BY <1>3, <1>5
  <2> QED BY <2>1, <1>4, FS_AddElement
<1>6. ASSUME t \in X, old[t] \in P, new[t] \notin P
      PROVE  Cardinality(before) = Cardinality(after) + 1
  <2>1. t \notin after /\ before = after \cup {t}
    BY <1>3, <1>6
  <2> QED BY <2>1, <1>4, FS_AddElement
<1>7. ASSUME t \notin X \/ (old[t] \in P <=> new[t] \in P)
      PROVE  Cardinality(after) = Cardinality(before)
  <2>1. before = after
    BY <1>3, <1>7
  <2> QED BY <2>1
<1> QED BY <1>4, <1>5, <1>6, <1>7 DEF before, after, old, new

\* Each step of chapter 31 keeps the sum of the permits, the counter and the
\* threads on their way.
LEMMA RangePermits ==
  ASSUME R!RangeCounterAssumption, RangeInv, [R!Next]_(R!vars)
  PROVE  PermitsAddUp'
<1>a. RangeTypeOK /\ PermitsAddUp
  BY DEF RangeInv
<1>b. RangeTypeOK'
  BY <1>a, RangeTypes
<1> SUFFICES ASSUME chapter' = 31 PROVE PermitsAddUp'
  BY DEF PermitsAddUp
<1>c. chapter = 31
  BY
     DEF R!Next, R!Count, R!Wait, R!Change, R!Signal, R!SpuriousWakeup, R!WaitSem,
         R!Lock, R!ChangeLocked, R!Unlock,
         R!PostSem, R!vars
<1>d. /\ range_counter \in Int /\ range_counter' \in Int /\ incrable \in Int
         /\ decrable \in Int
      /\ incrable' \in Int /\ decrable' \in Int /\ max \in Int
  BY <1>a, <1>b DEF RangeTypeOK, R!RangeCounterAssumption
<1> DEFINE IncIn == Cardinality(R!At(Incrementers, {"lock", "change"}))
           DecIn == Cardinality(R!At(Decrementers, {"lock", "change"}))
           IncOut == Cardinality(R!At(Incrementers, {"unlock", "post"}))
           DecOut == Cardinality(R!At(Decrementers, {"unlock", "post"}))
<1>e. incrable + range_counter + IncIn + DecOut = max
      /\ decrable - range_counter + DecIn + IncOut = max
  BY <1>a, <1>c DEF PermitsAddUp
<1>f. SUFFICES /\ incrable' + range_counter' + IncIn' + DecOut' = max
               /\ decrable' - range_counter' + DecIn' + IncOut' = max
  BY DEF PermitsAddUp
<1>1. ASSUME NEW t \in R!Threads, R!WaitSem(t)
      PROVE  /\ incrable' + range_counter' + IncIn' + DecOut' = max
             /\ decrable' - range_counter' + DecIn' + IncOut' = max
  <2>1. range_pc[t] = "begin" /\ range_pc'[t] = "lock"
        /\ \A u \in R!Threads : u # t => range_pc'[u] = range_pc[u]
    BY <1>1, <1>a, <1>c DEF RangeTypeOK, R!WaitSem, R!Goto
  <2>2. IncOut' = IncOut /\ DecOut' = DecOut /\ IncOut \in Nat /\ DecOut \in Nat
    BY <2>1, <1>a, <1>c, RangeMoved
  <2>3. CASE t \in Incrementers
    <3>1. IncIn' = IncIn + 1 /\ IncIn \in Nat
      BY <2>1, <2>3, <1>a, <1>c, RangeMoved
    <3>2. DecIn' = DecIn /\ DecIn \in Nat
      BY <2>1, <2>3, <1>a, <1>c, RangeMoved DEF R!RangeCounterAssumption
    <3>3. incrable' = incrable - 1 /\ decrable' = decrable
          /\ range_counter' = range_counter
      BY <1>1, <2>3 DEF R!WaitSem, R!RangeCounterAssumption
    <3> HIDE DEF IncIn, DecIn, IncOut, DecOut
    <3> QED BY <3>1, <3>2, <3>3, <2>2, <1>d, <1>e
  <2>4. CASE t \in Decrementers
    <3>1. DecIn' = DecIn + 1 /\ DecIn \in Nat
      BY <2>1, <2>4, <1>a, <1>c, RangeMoved
    <3>2. IncIn' = IncIn /\ IncIn \in Nat
      BY <2>1, <2>4, <1>a, <1>c, RangeMoved DEF R!RangeCounterAssumption
    <3>3. incrable' = incrable /\ decrable' = decrable - 1
          /\ range_counter' = range_counter
      BY <1>1, <2>4 DEF R!WaitSem, R!RangeCounterAssumption
    <3> HIDE DEF IncIn, DecIn, IncOut, DecOut
    <3> QED BY <3>1, <3>2, <3>3, <2>2, <1>d, <1>e
  <2> QED BY <2>3, <2>4 DEF R!Threads
<1>2. ASSUME NEW t \in R!Threads, R!ChangeLocked(t)
      PROVE  /\ incrable' + range_counter' + IncIn' + DecOut' = max
             /\ decrable' - range_counter' + DecIn' + IncOut' = max
  <2>1. range_pc[t] = "change" /\ range_pc'[t] = "unlock"
        /\ \A u \in R!Threads : u # t => range_pc'[u] = range_pc[u]
    BY <1>2, <1>a, <1>c DEF RangeTypeOK, R!ChangeLocked, R!Goto
  <2>2. incrable' = incrable /\ decrable' = decrable
    BY <1>2 DEF R!ChangeLocked, R!semaphores
  <2>3. CASE t \in Incrementers
    <3>1. /\ IncIn' = IncIn - 1 /\ IncIn' \in Nat /\ IncIn \in Nat
          /\ IncOut' = IncOut + 1 /\ IncOut \in Nat /\ IncOut' \in Nat
      BY <2>1, <2>3, <1>a, <1>c, RangeMoved
    <3>2. DecIn' = DecIn /\ DecIn \in Nat /\ DecOut' = DecOut /\ DecOut \in Nat
      BY <2>1, <2>3, <1>a, <1>c, RangeMoved DEF R!RangeCounterAssumption
    <3>3. range_counter' = range_counter + 1
      BY <1>2, <2>3 DEF R!ChangeLocked, R!chg
    <3> HIDE DEF IncIn, DecIn, IncOut, DecOut
    <3> QED BY <3>1, <3>2, <3>3, <2>2, <1>d, <1>e
  <2>4. CASE t \in Decrementers
    <3>1. /\ DecIn' = DecIn - 1 /\ DecIn' \in Nat /\ DecIn \in Nat
          /\ DecOut' = DecOut + 1 /\ DecOut \in Nat /\ DecOut' \in Nat
      BY <2>1, <2>4, <1>a, <1>c, RangeMoved
    <3>2. IncIn' = IncIn /\ IncIn \in Nat /\ IncOut' = IncOut /\ IncOut \in Nat
      BY <2>1, <2>4, <1>a, <1>c, RangeMoved DEF R!RangeCounterAssumption
    <3>3. range_counter' = range_counter - 1
      BY <1>2, <2>4, <1>d DEF R!ChangeLocked, R!chg, R!RangeCounterAssumption
    <3> HIDE DEF IncIn, DecIn, IncOut, DecOut
    <3> QED BY <3>1, <3>2, <3>3, <2>2, <1>d, <1>e
  <2> QED BY <2>3, <2>4 DEF R!Threads
<1>3. ASSUME NEW t \in R!Threads, R!PostSem(t)
      PROVE  /\ incrable' + range_counter' + IncIn' + DecOut' = max
             /\ decrable' - range_counter' + DecIn' + IncOut' = max
  <2>1. range_pc[t] = "post" /\ range_pc'[t] = "begin"
        /\ \A u \in R!Threads : u # t => range_pc'[u] = range_pc[u]
    BY <1>3, <1>a, <1>c DEF RangeTypeOK, R!PostSem, R!Goto
  <2>2. IncIn' = IncIn /\ DecIn' = DecIn /\ IncIn \in Nat /\ DecIn \in Nat
    BY <2>1, <1>a, <1>c, RangeMoved
  <2>3. CASE t \in Incrementers
    <3>1. IncOut' = IncOut - 1 /\ IncOut' \in Nat /\ IncOut \in Nat
      BY <2>1, <2>3, <1>a, <1>c, RangeMoved
    <3>2. DecOut' = DecOut /\ DecOut \in Nat
      BY <2>1, <2>3, <1>a, <1>c, RangeMoved DEF R!RangeCounterAssumption
    <3>3. incrable' = incrable /\ decrable' = decrable + 1
          /\ range_counter' = range_counter
      BY <1>3, <2>3 DEF R!PostSem, R!RangeCounterAssumption
    <3> HIDE DEF IncIn, DecIn, IncOut, DecOut
    <3> QED BY <3>1, <3>2, <3>3, <2>2, <1>d, <1>e
  <2>4. CASE t \in Decrementers
    <3>1. DecOut' = DecOut - 1 /\ DecOut' \in Nat /\ DecOut \in Nat
      BY <2>1, <2>4, <1>a, <1>c, RangeMoved
    <3>2. IncOut' = IncOut /\ IncOut \in Nat
      BY <2>1, <2>4, <1>a, <1>c, RangeMoved DEF R!RangeCounterAssumption
    <3>3. incrable' = incrable + 1 /\ decrable' = decrable
          /\ range_counter' = range_counter
      BY <1>3, <2>4 DEF R!PostSem, R!RangeCounterAssumption
    <3> HIDE DEF IncIn, DecIn, IncOut, DecOut
    <3> QED BY <3>1, <3>2, <3>3, <2>2, <1>d, <1>e
  <2> QED BY <2>3, <2>4 DEF R!Threads
<1>4. ASSUME NEW t \in R!Threads, R!Lock(t) \/ R!Unlock(t)
      PROVE  /\ incrable' + range_counter' + IncIn' + DecOut' = max
             /\ decrable' - range_counter' + DecIn' + IncOut' = max
  <2>1. \/ range_pc[t] = "lock" /\ range_pc'[t] = "change"
        \/ range_pc[t] = "unlock" /\ range_pc'[t] = "post"
    BY <1>4, <1>a, <1>c DEF RangeTypeOK, R!Lock, R!Unlock, R!Goto
  <2>2. \A u \in R!Threads : u # t => range_pc'[u] = range_pc[u]
    BY <1>4, <1>a, <1>c DEF RangeTypeOK, R!Lock, R!Unlock, R!Goto
  <2>3. IncIn' = IncIn /\ DecIn' = DecIn /\ IncOut' = IncOut /\ DecOut' = DecOut
    BY <2>1, <2>2, <1>a, <1>c, RangeMoved
  <2>4. incrable' = incrable /\ decrable' = decrable /\ range_counter' = range_counter
    BY <1>4 DEF R!Lock, R!Unlock
  <2> HIDE DEF IncIn, DecIn, IncOut, DecOut
  <2> QED BY <2>3, <2>4, <1>e
<1>5. CASE UNCHANGED R!vars
  <2>1. IncIn' = IncIn /\ DecIn' = DecIn /\ IncOut' = IncOut /\ DecOut' = DecOut
    BY <1>5 DEF R!vars, R!At
  <2>2. incrable' = incrable /\ decrable' = decrable /\ range_counter' = range_counter
    BY <1>5 DEF R!vars, R!semaphores
  <2> HIDE DEF IncIn, DecIn, IncOut, DecOut
  <2> QED BY <2>1, <2>2, <1>e
<1>6. ASSUME NEW t \in R!Threads
      PROVE  ~R!Wait(t) /\ ~R!Change(t) /\ ~R!Signal(t) /\ ~R!SpuriousWakeup(t)
  BY <1>a, <1>c
     DEF RangeTypeOK, R!Wait, R!Change, R!Signal, R!SpuriousWakeup, R!WakeSpuriously
<1> HIDE DEF IncIn, DecIn, IncOut, DecOut
<1> QED BY <1>1, <1>2, <1>3, <1>4, <1>5, <1>6 DEF R!Next, R!Count

\* Chapter 31 keeps the counter in its range by the permits alone.
LEMMA RangeOfPermits ==
  ASSUME R!RangeCounterAssumption, RangeTypeOK, PermitsAddUp, chapter = 31
  PROVE  range_counter \in -max..max
<1>1. \A X \in {Incrementers, Decrementers} : \A P : Cardinality(R!At(X, P)) \in Nat
  <2> SUFFICES ASSUME NEW X \in {Incrementers, Decrementers}, NEW P
               PROVE  Cardinality(R!At(X, P)) \in Nat
    OBVIOUS
  <2>1. IsFiniteSet(X) /\ R!At(X, P) \subseteq X
    BY RangeSizes DEF R!RangeCounterAssumption, R!At
  <2> QED BY <2>1, FS_Subset, FS_CardinalityType
<1>2. /\ Cardinality(R!At(Incrementers, {"lock", "change"})) \in Nat
      /\ Cardinality(R!At(Decrementers, {"lock", "change"})) \in Nat
      /\ Cardinality(R!At(Incrementers, {"unlock", "post"})) \in Nat
      /\ Cardinality(R!At(Decrementers, {"unlock", "post"})) \in Nat
  BY <1>1
<1> QED BY <1>2 DEF R!RangeCounterAssumption, RangeTypeOK, PermitsAddUp

\* What is said of each thread of chapter 30.
SideAwake(t) ==
  R!Waiting(R!Side(t)) = R!Side(t)
  /\ range_counter * R!chg(t) < max => R!At(R!Others(t), {"signal"}) # {}

\* Each step of chapter 30 wakes who can go on, so that nobody waits without
\* a reason.
LEMMA RangeAwake ==
  ASSUME R!RangeCounterAssumption, RangeTypeOK, R!CountInRange, chapter = 30,
         [R!Next]_(R!vars)
  PROVE  R!CountInRange'
<1> USE DEF RangeTypeOK
<1>a. \A t \in R!Threads : SideAwake(t)
  BY DEF R!CountInRange, SideAwake
<1>b. range_counter \in -max..max /\ max \in Nat
  BY DEF R!CountInRange, R!RangeCounterAssumption
<1>c. SUFFICES range_counter' \in -max..max /\ \A t \in R!Threads : SideAwake(t)'
  BY DEF R!CountInRange, SideAwake
<1>1. ASSUME NEW u \in R!Threads, R!Wait(u)
      PROVE  range_counter' \in -max..max /\ \A t \in R!Threads : SideAwake(t)'
  <2>1. range_counter' = range_counter
    BY <1>1 DEF R!Wait
  <2>2. ASSUME NEW t \in R!Threads PROVE SideAwake(t)'
    <3>1. CASE u \in R!Side(t)
      <4>1. ~(range_counter' * R!chg(t) < max)
        BY <1>1, <1>b, <2>1, <3>1 DEF R!Wait, R!Side, R!chg, R!RangeCounterAssumption
      <4> QED BY <4>1 DEF SideAwake
    <3>2. CASE u \notin R!Side(t)
      <4>1. R!Waiting(R!Side(t))' = R!Waiting(R!Side(t))
        BY <1>1, <3>2 DEF R!Wait, R!Waiting, R!Side, R!Threads
      <4>2. R!At(R!Others(t), {"signal"}) \subseteq R!At(R!Others(t), {"signal"})'
        BY <1>1, <3>2 DEF R!Wait, R!At, R!Others, R!Threads
      <4> QED BY <1>a, <2>1, <4>1, <4>2 DEF SideAwake
    <3> QED BY <3>1, <3>2
  <2> QED BY <1>b, <2>1, <2>2
<1>2. ASSUME NEW u \in R!Threads, R!Change(u)
      PROVE  range_counter' \in -max..max /\ \A t \in R!Threads : SideAwake(t)'
  <2>1. range_counter' \in -max..max
    BY <1>2, <1>b DEF R!Change, R!chg
  <2>2. ASSUME NEW t \in R!Threads PROVE SideAwake(t)'
    <3>1. CASE u \in R!Side(t)
      <4>1. u \in R!Side(t) /\ u \notin R!Waiting(R!Side(t))'
        BY <1>2, <3>1 DEF R!Change, R!Waiting
      <4> QED BY <4>1 DEF SideAwake
    <3>2. CASE u \notin R!Side(t)
      <4>1. u \in R!At(R!Others(t), {"signal"})'
        BY <1>2, <3>2 DEF R!Change, R!At, R!Side, R!Others, R!Threads
      <4> QED BY <4>1 DEF SideAwake
    <3> QED BY <3>1, <3>2
  <2> QED BY <2>1, <2>2
<1>3. ASSUME NEW u \in R!Threads, R!Signal(u)
      PROVE  range_counter' \in -max..max /\ \A t \in R!Threads : SideAwake(t)'
  <2>1. range_counter' = range_counter
    BY <1>3 DEF R!Signal
  <2>2. ASSUME NEW t \in R!Threads PROVE SideAwake(t)'
    <3>1. CASE u \in R!Side(t)
      <4>1. u \notin R!Waiting(R!Side(t))'
        BY <1>3, <3>1 DEF R!Signal, R!SignalOne, R!Waiting
      <4> QED BY <3>1, <4>1 DEF SideAwake
    <3>2. CASE u \notin R!Side(t)
      <4>1. R!Side(t) = R!Others(u) /\ R!Side(t) # {} /\ R!Side(t) \subseteq R!Threads
        BY <3>2 DEF R!Side, R!Others, R!Threads, R!RangeCounterAssumption
      <4>2. CASE R!Waiting(R!Others(u)) = {}
        <5>1. R!Waiting(R!Side(t))' = {}
          BY <1>3, <3>2, <4>1, <4>2 DEF R!Signal, R!SignalOne, R!Waiting
        <5> QED BY <5>1, <4>1 DEF SideAwake
      <4>3. CASE R!Waiting(R!Others(u)) # {}
        <5>1. PICK w \in R!Waiting(R!Others(u)) : range_pc' = [range_pc EXCEPT ![u] = "begin", ![w] = "woken"]
          BY <1>3, <4>3 DEF R!Signal, R!SignalOne
        <5>2. w \in R!Side(t) /\ w \notin R!Waiting(R!Side(t))'
          BY <5>1, <4>1 DEF R!Waiting
        <5> QED BY <5>2 DEF SideAwake
      <4> QED BY <4>2, <4>3
    <3> QED BY <3>1, <3>2
  <2> QED BY <1>b, <2>1, <2>2
<1>4. ASSUME NEW u \in R!Threads, R!SpuriousWakeup(u)
      PROVE  range_counter' \in -max..max /\ \A t \in R!Threads : SideAwake(t)'
  <2>1. range_counter' = range_counter
    BY <1>4 DEF R!SpuriousWakeup
  <2>2. ASSUME NEW t \in R!Threads PROVE SideAwake(t)'
    <3>1. R!Waiting(R!Side(t))' \subseteq R!Waiting(R!Side(t))
      BY <1>4 DEF R!SpuriousWakeup, R!WakeSpuriously, R!Waiting, R!Side, R!Threads
    <3>2. R!At(R!Others(t), {"signal"}) \subseteq R!At(R!Others(t), {"signal"})'
      BY <1>4 DEF R!SpuriousWakeup, R!WakeSpuriously, R!At, R!Others, R!Threads
    <3>3. R!Waiting(R!Side(t)) \subseteq R!Side(t)
      BY DEF R!Waiting
    <3>4. R!Waiting(R!Side(t))' = R!Side(t) => R!Waiting(R!Side(t)) = R!Side(t)
      BY <3>1, <3>3
    <3>5. SideAwake(t)
      BY <1>a
    <3> QED BY <2>1, <3>2, <3>4, <3>5 DEF SideAwake
  <2> QED BY <1>b, <2>1, <2>2
<1>5. CASE UNCHANGED R!vars
  BY <1>5, <1>a, <1>b DEF R!vars, SideAwake, R!Waiting, R!At
<1>6. ASSUME NEW u \in R!Threads
      PROVE  ~R!WaitSem(u) /\ ~R!Lock(u) /\ ~R!ChangeLocked(u) /\ ~R!Unlock(u)
             /\ ~R!PostSem(u)
  BY DEF R!WaitSem, R!Lock, R!ChangeLocked, R!Unlock, R!PostSem, R!Goto
<1> QED BY <1>1, <1>2, <1>3, <1>4, <1>5, <1>6 DEF R!Next, R!Count

\* Each step keeps the invariant.
LEMMA RangeStep ==
  ASSUME R!RangeCounterAssumption, RangeInv, [R!Next]_(R!vars)
  PROVE  RangeInv'
<1>1. RangeTypeOK' /\ PermitsAddUp'
  BY RangeTypes, RangePermits DEF RangeInv
<1>2. chapter' = chapter
  BY
     DEF R!Next, R!Count, R!Wait, R!Change, R!Signal, R!SpuriousWakeup, R!WaitSem,
         R!Lock, R!ChangeLocked, R!Unlock,
         R!PostSem, R!vars
<1>3. chapter = 30 => R!CountInRange'
  BY RangeAwake DEF RangeInv
<1> QED BY <1>1, <1>2, <1>3 DEF RangeInv

\* The invariant of the bounded counter holds throughout.
LEMMA RangeInvariant == ASSUME R!RangeCounterAssumption PROVE R!Spec => []RangeInv
<1>1. RangeInv /\ [R!Next]_(R!vars) => RangeInv'
  BY RangeStep
<1> QED BY <1>1, RangeStart, PTL DEF R!Spec

\* CountInRange, for any number of threads and any maximum: the counter of
\* chapters 30 and 31 stays between -max and max, and in chapter 30 the
\* threads of one side do not all sleep while they could count, unless one
\* of the others is about to signal them.
THEOREM RangeKept == ASSUME R!RangeCounterAssumption PROVE R!Spec => []R!CountInRange
<1>1. RangeInv => R!CountInRange
  BY RangeOfPermits DEF RangeInv, RangeTypeOK, R!CountInRange
<1> QED BY <1>1, RangeInvariant, PTL

------------------------------------------------------------------------------
(* The counters: what eight programs with two or three threads leave in    *)
(* one variable.                                                           *)

\* The numbers and the finite sets of Counters are those of the proofs.
LEMMA CountersSizes ==
  /\ \A X : C!Cardinality(X) = Cardinality(X)
  /\ \A X : C!IsFiniteSet(X) <=> IsFiniteSet(X)
BY DEF C!Cardinality, Cardinality, C!IsFiniteSet, IsFiniteSet

\* Where a thread of the counters can be.
CounterPlaces ==
  {"test", "lock", "wait", "print", "load", "store", "unlock", "leave", "post", "done"}

\* The types of the counters.
CountersTypeOK ==
  /\ running \in CounterPrograms
  /\ counter \in Nat /\ printed \in Nat
  /\ locked \in BOOLEAN
  /\ permits \in [{Parent, Child} -> Nat]
  /\ held \in [CounterThreads -> Nat]
  /\ i \in [CounterThreads -> Nat]
  /\ counters_pc \in [CounterThreads -> CounterPlaces]

\* The three threads, in any order.
Three(a, b, c) == CounterThreads = {a, b, c} /\ a # b /\ a # c /\ b # c

\* A thread is at one of `places'.
IsAt(t, places) == counters_pc[t] \in places

\* How many of the three threads are at `places'.
NumberAt(a, b, c, places) ==
  (IF IsAt(a, places) THEN 1 ELSE 0) + (IF IsAt(b, places) THEN 1 ELSE 0)
    + (IF IsAt(c, places) THEN 1 ELSE 0)

(* The programs with a lock                                                *)

\* The programs in which a thread locks before it adds.
LockPrograms == {"ThreadLock1", "ThreadLock2", "safe", "session"}

\* A thread that holds the lock of its program, if there is one.
Inside(t) ==
  counters_pc[t] \in {"print", "load", "store", "unlock", "leave"}
  \/ (C!TestInside /\ counters_pc[t] = "test")

\* Under the lock there is one thread, and the counter it has loaded is the
\* counter.
LockKept ==
  running \in LockPrograms =>
    /\ \A t \in CounterThreads : counters_pc[t] \notin {"wait", "post"}
    /\ \A t \in CounterThreads :
         Inside(t) => locked /\ \A u \in CounterThreads : Inside(u) => u = t
    /\ \A t \in CounterThreads : counters_pc[t] = "store" => held[t] = counter

\* The number printed last is the counter, but between a print and its store.
PrintedLast ==
  running \in {"ThreadLock1", "ThreadLock2"} =>
    /\ (\A t \in CounterThreads : counters_pc[t] \notin {"load", "store"}) =>
         printed = counter
    /\ \A t \in CounterThreads : counters_pc[t] \in {"load", "store"} =>
         printed = counter + 1

\* ThreadLock1: each of those that have passed the test may add once more.
PassedTest ==
  running = "ThreadLock1" =>
    /\ \A t \in CounterThreads :
         counters_pc[t] # "leave" /\ (counters_pc[t] = "done" => counter >= limit)
    /\ \A a, b, c \in CounterThreads :
         Three(a, b, c) =>
           counter + NumberAt(a, b, c, {"lock", "print", "load", "store"}) <= limit + 2

\* ThreadLock2: nobody adds at the limit.
LimitKept ==
  running = "ThreadLock2" =>
    /\ counter <= limit
    /\ \A t \in CounterThreads :
         /\ counters_pc[t] \in {"leave", "done"} => counter >= limit
         /\ counters_pc[t] \in {"print", "load", "store"} => counter < limit

\* The balances under a lock: no addition is lost.
NothingLost ==
  running \in {"safe", "session"} =>
    /\ \A a, b, c \in CounterThreads : Three(a, b, c) => counter = i[a] + i[b] + i[c]
    /\ \A t \in CounterThreads :
         /\ i[t] <= iterations
         /\ counters_pc[t] \in {"leave", "done"} => i[t] = iterations
         /\ counters_pc[t] \in {"load", "store"}
            \/ (running = "safe" /\ counters_pc[t] = "lock") =>
              i[t] < iterations
         /\ counters_pc[t] # "print"

\* What the programs with a lock keep.
LocksRight == LockKept /\ PrintedLast /\ PassedTest /\ LimitKept /\ NothingLost

(* The programs without one                                                *)

\* bad-bank-balance.c: nothing is added that no thread adds, and what was
\* stored once is never 0 again.
BadBounds ==
  running = "bad" =>
    /\ \A t \in CounterThreads :
         /\ counters_pc[t] \in {"test", "load", "store", "done"}
         /\ i[t] <= iterations
         /\ counters_pc[t] \in {"load", "store"} => i[t] < iterations
         /\ counters_pc[t] = "done" => i[t] = iterations
         /\ i[t] # 0 => counter # 0
         /\ counters_pc[t] = "store" /\ i[t] # 0 => held[t] # 0
    /\ \A a, b, c \in CounterThreads :
         Three(a, b, c) =>
           /\ counter <= i[a] + i[b] + i[c]
           /\ counters_pc[a] = "store" => held[a] <= i[a] + i[b] + i[c]
    /\ iterations # 1 => counter >= 2 \/ \E t \in CounterThreads : i[t] < iterations

\* The hoisted additions: the balance is a multiple of what a thread adds, and
\* no larger than what has been added.
HasAdded(t) == IF i[t] = 0 THEN 0 ELSE iterations

HoistedBounds ==
  running = "hoisted" =>
    /\ \A t \in CounterThreads :
         /\ counters_pc[t] \in {"test", "load", "store", "done"}
         /\ i[t] \in {0, iterations}
         /\ counters_pc[t] \in {"load", "store"} => i[t] = 0
         /\ counters_pc[t] = "done" => i[t] = iterations
         /\ i[t] = iterations => counter # 0
    /\ counter \in {0, iterations, iterations + iterations, iterations + iterations + iterations}
    /\ \A t \in CounterThreads :
         held[t] \in {0, iterations, iterations + iterations, iterations + iterations + iterations}
    /\ \A a, b, c \in CounterThreads :
         Three(a, b, c) =>
           /\ counter <= HasAdded(a) + HasAdded(b) + HasAdded(c)
           /\ counters_pc[a] = "store" => held[a] <= HasAdded(b) + HasAdded(c)

\* ThreadCount: below the limit, the number a thread has loaded is less than
\* `limit' above the counter and above those the other threads have loaded.
\* From the limit on no thread passes the test; each that has passed it adds 1
\* to what it finds, and one at least neither has passed it nor has loaded.
CountBelow(t) ==
  counters_pc[t] = "store" =>
    /\ held[t] < counter + limit
    /\ \A u \in CounterThreads : counters_pc[u] = "store" => held[t] < held[u] + limit

CountAbove(a, b, c) ==
  LET passed == NumberAt(a, b, c, {"print", "load"}) IN
  /\ counter + passed <= limit + limit + 1
  /\ \E t \in {a, b, c} : counters_pc[t] \in {"test", "done"}
  /\ \A t \in {a, b, c} :
       counters_pc[t] = "store" =>
         /\ held[t] + passed <= limit + limit
         /\ counter + passed <= held[t] + limit + 1
         /\ \A u \in {a, b, c} :
              counters_pc[u] = "store" /\ u # t => held[t] + passed <= held[u] + limit

CountBounds ==
  running = "ThreadCount" =>
    /\ \A t \in CounterThreads : counters_pc[t] \in {"test", "print", "load", "store", "done"}
    /\ counter < limit =>
         /\ \E t \in CounterThreads : counters_pc[t] # "done"
         /\ \A t \in CounterThreads : CountBelow(t)
    /\ counter >= limit =>
         \A a, b, c \in CounterThreads : Three(a, b, c) => CountAbove(a, b, c)

(* shared-semaphores.c: one of the two semaphores has the permit, or the   *)
(* process that has taken it.                                              *)

\* It is the turn of a process: the semaphore it waits for has the permit,
\* or it has taken it.
Turn(t) == permits[t] = 1 \/ counters_pc[t] \in {"load", "store"}

\* The turns of the two processes alternate, and with them the additions.
SharedTurns ==
  running = "shared" =>
    /\ \A t \in {Parent, Child} :
         /\ counters_pc[t] \in {"test", "wait", "load", "store", "post", "done"}
         /\ permits[t] \in {0, 1}
         /\ permits[t] = 1 => counters_pc[t] \notin {"load", "store", "post"}
         /\ i[t] <= iterations
         /\ counters_pc[t] \in {"wait", "load", "store"} => i[t] < iterations
         /\ counters_pc[t] = "done" => i[t] = iterations
         /\ counters_pc[t] = "store" => held[t] = counter
    /\ counter = i[Parent] + i[Child]
    /\ \/ /\ Turn(Parent) \/ counters_pc[Child] = "post"
          /\ ~Turn(Child) /\ counters_pc[Parent] # "post"
          /\ ~(Turn(Parent) /\ counters_pc[Child] = "post")
          /\ i[Parent] = i[Child]
       \/ /\ Turn(Child) \/ counters_pc[Parent] = "post"
          /\ ~Turn(Parent) /\ counters_pc[Child] # "post"
          /\ ~(Turn(Child) /\ counters_pc[Parent] = "post")
          /\ i[Parent] = i[Child] + 1

\* The inductive invariant of the counters: one part for each program.
CountersInv ==
  /\ CountersTypeOK
  /\ LocksRight /\ BadBounds /\ HoistedBounds /\ CountBounds /\ SharedTurns

\* Three threads can be named from any one of them.
LEMMA ThreeThreads ==
  ASSUME C!CountersAssumption
  PROVE  /\ \E a, b, c \in CounterThreads : Three(a, b, c)
         /\ \A X : X = CounterThreads => Cardinality(X) = 3
<1>1. \A X : IsFiniteSet(X) =>
         /\ Cardinality(X) \in Nat
         /\ Cardinality(X) = 0 <=> X = {}
         /\ \A x \in X : IsFiniteSet(X \ {x})
            /\ Cardinality(X \ {x}) = Cardinality(X) - 1
  BY FS_CardinalityType, FS_EmptySet, FS_RemoveElement
<1>2. IsFiniteSet(CounterThreads) /\ Cardinality(CounterThreads) = 3
  BY CountersSizes DEF C!CountersAssumption
<1>3. PICK a \in CounterThreads : TRUE
  BY <1>1, <1>2
<1>4. IsFiniteSet(CounterThreads \ {a}) /\ Cardinality(CounterThreads \ {a}) = 2
  BY <1>1, <1>2, <1>3
<1>5. PICK b \in CounterThreads \ {a} : TRUE
  BY <1>1, <1>4
<1>6. /\ IsFiniteSet((CounterThreads \ {a}) \ {b})
      /\ Cardinality((CounterThreads \ {a}) \ {b}) = 1
  <2> DEFINE others == CounterThreads \ {a}
  <2>1. IsFiniteSet(others) /\ Cardinality(others) = 2 /\ b \in others
    BY <1>4, <1>5
  <2> HIDE DEF others
  <2>2. IsFiniteSet(others \ {b})
        /\ Cardinality(others \ {b}) = Cardinality(others) - 1
    BY <1>1, <2>1
  <2>3. IsFiniteSet(others \ {b}) /\ Cardinality(others \ {b}) = 1
    BY <2>1, <2>2
  <2> QED BY <2>3 DEF others
<1>7. PICK c \in (CounterThreads \ {a}) \ {b} : TRUE
  BY <1>1, <1>6
<1>8. /\ IsFiniteSet(((CounterThreads \ {a}) \ {b}) \ {c})
      /\ Cardinality(((CounterThreads \ {a}) \ {b}) \ {c}) = 0
  BY <1>1, <1>6, <1>7
<1>9. ((CounterThreads \ {a}) \ {b}) \ {c} = {}
  BY <1>1, <1>8
<1>10. Three(a, b, c)
  BY <1>3, <1>5, <1>7, <1>9 DEF Three
<1> QED BY <1>2, <1>3, <1>5, <1>7, <1>10

\* Each step keeps the types.
LEMMA CountersTypes ==
  ASSUME C!CountersAssumption, CountersTypeOK, NEW t \in CounterThreads, C!Step(t)
  PROVE  CountersTypeOK'
<1> USE DEF CountersTypeOK, CounterPlaces
<1>1. CASE C!Test(t)
  BY <1>1 DEF C!Test, C!Goto, C!Work, C!ToLimit
<1>2. CASE C!Lock(t)
  BY <1>2 DEF C!Lock, C!Goto, C!Work
<1>3. CASE C!WaitTurn(t) /\ t \in {Parent, Child}
  BY <1>3 DEF C!WaitTurn, C!Goto
<1>4. CASE C!PrintCounter(t) \/ C!Load(t)
  BY <1>4 DEF C!PrintCounter, C!Load, C!Goto
<1>5. CASE C!Store(t)
  BY <1>5 DEF C!Store, C!Goto, C!CountersAssumption
<1>6. CASE C!Unlock(t)
  BY <1>6 DEF C!Unlock, C!Goto, C!Top
<1>7. CASE C!PostTurn(t)
  BY <1>7 DEF C!PostTurn, C!Goto, C!CountersAssumption
<1>8. CASE C!WaitTurn(t) /\ t \notin {Parent, Child}
  BY <1>8 DEF C!WaitTurn, C!Goto, C!CountersAssumption
<1> QED BY <1>1, <1>2, <1>3, <1>4, <1>5, <1>6, <1>7, <1>8 DEF C!Step

(* The programs with a lock *)

\* Each step leaves one thread under the lock.
LEMMA LockKeptStep ==
  ASSUME C!CountersAssumption, CountersTypeOK, LockKept, NEW t \in CounterThreads,
         C!Step(t)
  PROVE  LockKept'
<1> SUFFICES ASSUME running \in LockPrograms PROVE LockKept'
  BY
     DEF LockKept, C!Step, C!Test, C!Lock, C!WaitTurn, C!PrintCounter, C!Load,
         C!Store, C!Unlock, C!PostTurn
<1> USE DEF CountersTypeOK, CounterPlaces, LockKept, LockPrograms, Inside,
            C!TestInside
<1>1. CASE C!Test(t)
  BY <1>1 DEF C!Test, C!Goto, C!Work, C!ToLimit, C!LockPerAddition
<1>2. CASE C!Lock(t)
  BY <1>2 DEF C!Lock, C!Goto, C!Work, C!ToLimit
<1>3. CASE C!WaitTurn(t) \/ C!PostTurn(t)
  BY <1>3 DEF C!WaitTurn, C!PostTurn, C!Goto
<1>4. CASE C!PrintCounter(t) \/ C!Load(t)
  BY <1>4 DEF C!PrintCounter, C!Load, C!Goto
<1>5. CASE C!Store(t)
  BY <1>5 DEF C!Store, C!Goto, C!LockPerAddition
<1>6. CASE C!Unlock(t)
  BY <1>6 DEF C!Unlock, C!Goto, C!Top
<1> QED BY <1>1, <1>2, <1>3, <1>4, <1>5, <1>6 DEF C!Step

\* Each step prints the number that is to be stored.
LEMMA PrintedLastStep ==
  ASSUME C!CountersAssumption, CountersTypeOK, LockKept, PrintedLast,
         NEW t \in CounterThreads, C!Step(t)
  PROVE  PrintedLast'
<1> SUFFICES ASSUME running \in {"ThreadLock1", "ThreadLock2"} PROVE PrintedLast'
  BY
     DEF PrintedLast, C!Step, C!Test, C!Lock, C!WaitTurn, C!PrintCounter, C!Load,
         C!Store, C!Unlock, C!PostTurn
<1> USE DEF CountersTypeOK, CounterPlaces, LockKept, LockPrograms, Inside, PrintedLast
<1>1. CASE C!Test(t)
  BY <1>1 DEF C!Test, C!Goto, C!Work, C!ToLimit, C!LockPerAddition, C!TestInside
<1>2. CASE C!Lock(t)
  BY <1>2 DEF C!Lock, C!Goto, C!Work, C!ToLimit, C!TestInside
<1>3. CASE C!WaitTurn(t) \/ C!PostTurn(t)
  BY <1>3 DEF C!WaitTurn, C!PostTurn, C!Goto
<1>4. CASE C!PrintCounter(t) \/ C!Load(t)
  BY <1>4 DEF C!PrintCounter, C!Load, C!Goto
<1>5. CASE C!Store(t)
  BY <1>5 DEF C!Store, C!Goto, C!LockPerAddition
<1>6. CASE C!Unlock(t)
  BY <1>6 DEF C!Unlock, C!Goto, C!Top, C!TestInside
<1> QED BY <1>1, <1>2, <1>3, <1>4, <1>5, <1>6 DEF C!Step

\* Each step lets no more than the threads that have passed the test add.
LEMMA PassedTestStep ==
  ASSUME C!CountersAssumption, CountersTypeOK, LockKept, PassedTest,
         NEW t \in CounterThreads, C!Step(t)
  PROVE  PassedTest'
<1> SUFFICES ASSUME running = "ThreadLock1" PROVE PassedTest'
  BY
     DEF PassedTest, C!Step, C!Test, C!Lock, C!WaitTurn, C!PrintCounter, C!Load,
         C!Store, C!Unlock, C!PostTurn
<1> DEFINE Passing == {"lock", "print", "load", "store"}
<1>a. /\ counter \in Nat /\ limit \in Nat
      /\ \A u \in CounterThreads : held[u] \in Nat
      /\ counters_pc \in [CounterThreads -> CounterPlaces]
  BY DEF CountersTypeOK, C!CountersAssumption
<1>b. /\ \A u \in CounterThreads : counters_pc[u] # "leave"
         /\ (counters_pc[u] = "done" => counter >= limit)
      /\ \A a, b, c \in CounterThreads :
           Three(a, b, c) => counter + NumberAt(a, b, c, Passing) <= limit + 2
  BY DEF PassedTest
<1>c. SUFFICES
        /\ \A u \in CounterThreads : counters_pc'[u] # "leave"
           /\ (counters_pc'[u] = "done" => counter' >= limit)
        /\ \A a, b, c \in CounterThreads :
             Three(a, b, c) => counter' + NumberAt(a, b, c, Passing)' <= limit + 2
  BY DEF PassedTest
<1>1. CASE C!Test(t)
  <2>1. \/ counter < limit /\ counters_pc' = [counters_pc EXCEPT ![t] = "lock"]
        \/ counter >= limit /\ counters_pc' = [counters_pc EXCEPT ![t] = "done"]
    <3>1. C!More(t) <=> counter < limit
      BY DEF C!More, C!ToLimit
    <3>2. CASE C!More(t)
      BY <1>1, <1>a, <3>1, <3>2 DEF C!Test, C!Goto, C!LockPerAddition, C!TestInside
    <3>3. CASE ~C!More(t)
      BY <1>1, <1>a, <3>1, <3>3 DEF C!Test, C!Goto, C!TestInside
    <3> QED BY <3>2, <3>3
  <2>2. counter' = counter /\ counters_pc[t] = "test"
    BY <1>1 DEF C!Test, C!Goto
  <2>3. CASE counter < limit /\ counters_pc' = [counters_pc EXCEPT ![t] = "lock"]
    <3>1. \A a, b, c \in CounterThreads : NumberAt(a, b, c, Passing)' <= 3
      BY DEF NumberAt
    <3>2. \A a, b, c \in CounterThreads : NumberAt(a, b, c, Passing)' \in Nat
      BY DEF NumberAt
    <3> HIDE DEF Passing
    <3>3. \A u \in CounterThreads : counters_pc'[u] # "leave"
          /\ (counters_pc'[u] = "done" => counter' >= limit)
      BY <1>a, <1>b, <2>2, <2>3
    <3> QED BY <1>a, <2>2, <2>3, <3>1, <3>2, <3>3
  <2>4. CASE counter >= limit /\ counters_pc' = [counters_pc EXCEPT ![t] = "done"]
    <3>1. \A u \in CounterThreads : IsAt(u, Passing)' <=> IsAt(u, Passing)
      BY <1>a, <2>2, <2>4 DEF IsAt
    <3>2. \A a, b, c \in CounterThreads : NumberAt(a, b, c, Passing)' = NumberAt(a, b, c, Passing)
      BY <3>1 DEF NumberAt
    <3> HIDE DEF Passing
    <3>3. \A u \in CounterThreads : counters_pc'[u] # "leave"
          /\ (counters_pc'[u] = "done" => counter' >= limit)
      BY <1>a, <1>b, <2>2, <2>4
    <3> QED BY <1>b, <2>2, <3>2, <3>3
  <2> QED BY <2>1, <2>3, <2>4
<1>2. CASE C!Lock(t) \/ C!PrintCounter(t) \/ C!Load(t) \/ C!Unlock(t)
  <2>1. counter' = counter
    BY <1>2 DEF C!Lock, C!PrintCounter, C!Load, C!Unlock
  <2>2. \/ counters_pc[t] = "lock"
           /\ counters_pc' = [counters_pc EXCEPT ![t] = "print"]
        \/ counters_pc[t] = "print"
           /\ counters_pc' = [counters_pc EXCEPT ![t] = "load"]
        \/ counters_pc[t] = "load"
           /\ counters_pc' = [counters_pc EXCEPT ![t] = "store"]
        \/ counters_pc[t] = "unlock"
           /\ counters_pc' = [counters_pc EXCEPT ![t] = "test"]
    BY <1>2, <1>b
       DEF C!Lock, C!PrintCounter, C!Load, C!Unlock, C!Goto, C!Work, C!ToLimit,
           C!Top, C!TestInside
  <2>3. \A u \in CounterThreads : IsAt(u, Passing)' <=> IsAt(u, Passing)
    BY <1>a, <2>2 DEF IsAt
  <2>4. \A a, b, c \in CounterThreads : NumberAt(a, b, c, Passing)' = NumberAt(a, b, c, Passing)
    BY <2>3 DEF NumberAt
  <2> HIDE DEF Passing
  <2>5. \A u \in CounterThreads : counters_pc'[u] # "leave"
        /\ (counters_pc'[u] = "done" => counter' >= limit)
    BY <1>a, <1>b, <2>1, <2>2
  <2> QED BY <1>b, <2>1, <2>4, <2>5
<1>3. CASE C!WaitTurn(t) \/ C!PostTurn(t)
  BY <1>3 DEF C!WaitTurn, C!PostTurn, C!Goto, LockKept, LockPrograms
<1>5. CASE C!Store(t)
  <2>1. counter' = counter + 1
    BY <1>5 DEF C!Store, C!Goto, LockKept, LockPrograms
  <2>2. counters_pc[t] = "store"
        /\ counters_pc' = [counters_pc EXCEPT ![t] = "unlock"]
    BY <1>5 DEF C!Store, C!Goto, C!LockPerAddition
  <2>3. /\ \A u \in CounterThreads : u # t => (IsAt(u, Passing)' <=> IsAt(u, Passing))
        /\ ~IsAt(t, Passing)' /\ IsAt(t, Passing)
    BY <1>a, <2>2 DEF IsAt
  <2>4. \A a, b, c \in CounterThreads :
          Three(a, b, c) =>
          /\ NumberAt(a, b, c, Passing)' = NumberAt(a, b, c, Passing) - 1
                            /\ NumberAt(a, b, c, Passing) \in Nat
    BY <2>3 DEF NumberAt, Three
  <2> HIDE DEF Passing
  <2>5. \A u \in CounterThreads : counters_pc'[u] # "leave"
        /\ (counters_pc'[u] = "done" => counter' >= limit)
    BY <1>a, <1>b, <2>1, <2>2
  <2>6. ASSUME NEW a \in CounterThreads, NEW b \in CounterThreads,
               NEW c \in CounterThreads,
               Three(a, b, c)
        PROVE  counter' + NumberAt(a, b, c, Passing)' <= limit + 2
    <3> DEFINE n == NumberAt(a, b, c, Passing)
    <3>1. counter + n <= limit + 2 /\ n' = n - 1 /\ n \in Nat
      BY <1>b, <2>4, <2>6
    <3> HIDE DEF n
    <3>2. counter' + n' <= limit + 2
      BY <1>a, <2>1, <3>1
    <3> QED BY <3>2 DEF n
  <2> QED BY <2>5, <2>6
<1> QED BY <1>1, <1>2, <1>3, <1>5 DEF C!Step

\* Each step of the program that tests under its lock stays below its limit.
LEMMA LimitKeptStep ==
  ASSUME C!CountersAssumption, CountersTypeOK, LockKept, LimitKept,
         NEW t \in CounterThreads, C!Step(t)
  PROVE  LimitKept'
<1> SUFFICES ASSUME running = "ThreadLock2" PROVE LimitKept'
  BY
     DEF LimitKept, C!Step, C!Test, C!Lock, C!WaitTurn, C!PrintCounter, C!Load,
         C!Store, C!Unlock, C!PostTurn
<1> USE DEF CountersTypeOK, CounterPlaces, LockKept, LockPrograms, LimitKept, Inside,
            C!TestInside,
            C!CountersAssumption
<1>1. CASE C!Test(t)
  BY <1>1 DEF C!Test, C!Goto, C!More, C!Work, C!ToLimit, C!LockPerAddition
<1>2. CASE C!Lock(t)
  BY <1>2 DEF C!Lock, C!Goto, C!Work, C!ToLimit
<1>3. CASE C!WaitTurn(t) \/ C!PostTurn(t)
  BY <1>3 DEF C!WaitTurn, C!PostTurn, C!Goto
<1>4. CASE C!PrintCounter(t) \/ C!Load(t)
  BY <1>4 DEF C!PrintCounter, C!Load, C!Goto
<1>5. CASE C!Store(t)
  BY <1>5 DEF C!Store, C!Goto, C!LockPerAddition
<1>6. CASE C!Unlock(t)
  <2>1. counter' = counter /\ running' = running
    BY <1>6 DEF C!Unlock
  <2>2. \/ counters_pc[t] = "leave"
           /\ counters_pc' = [counters_pc EXCEPT ![t] = "done"]
        \/ counters_pc' = [counters_pc EXCEPT ![t] = "lock"]
    BY <1>6 DEF C!Unlock, C!Goto, C!Top
  <2> QED BY <2>1, <2>2
<1> QED BY <1>1, <1>2, <1>3, <1>4, <1>5, <1>6 DEF C!Step

\* Each addition under a lock is one more for the counter and for the
\* thread.
LEMMA NothingLostStep ==
  ASSUME C!CountersAssumption, CountersTypeOK, LockKept, NothingLost,
         NEW t \in CounterThreads, C!Step(t)
  PROVE  NothingLost'
<1> SUFFICES ASSUME running \in {"safe", "session"} PROVE NothingLost'
  BY
     DEF NothingLost, C!Step, C!Test, C!Lock, C!WaitTurn, C!PrintCounter, C!Load,
         C!Store, C!Unlock, C!PostTurn
<1> USE DEF CountersTypeOK, CounterPlaces, LockKept, LockPrograms, NothingLost,
            Three, C!ToLimit,
            C!CountersAssumption
<1>1. CASE C!Test(t)
  <2>1. counter' = counter /\ running' = running /\ i' = i
    BY <1>1 DEF C!Test
  <2>2. \/ i[t] = iterations /\ counters_pc' = [counters_pc EXCEPT ![t] = "leave"]
        \/ i[t] = iterations /\ counters_pc' = [counters_pc EXCEPT ![t] = "done"]
        \/ i[t] < iterations /\ counters_pc' = [counters_pc EXCEPT ![t] = "lock"]
        \/ i[t] < iterations /\ counters_pc' = [counters_pc EXCEPT ![t] = "load"]
    <3>1. ~C!ToLimit /\ running # "shared"
      BY DEF C!ToLimit
    <3>4. i[t] \in Nat /\ iterations \in Nat /\ i[t] <= iterations
      OBVIOUS
    <3>2. CASE i[t] < iterations
      BY <1>1, <3>1, <3>2
         DEF C!Test, C!Goto, C!More, C!Work, C!LockPerAddition, C!TestInside
    <3>3. CASE i[t] = iterations
      <4>1. ~C!More(t)
        BY <3>1, <3>3, <3>4 DEF C!More
      <4> QED BY <1>1, <3>3, <4>1 DEF C!Test, C!Goto, C!TestInside
    <3> HIDE DEF CountersTypeOK, LockKept, NothingLost, C!CountersAssumption, Three
    <3>5. i[t] < iterations \/ i[t] = iterations
      BY <3>4
    <3> QED BY <3>2, <3>3, <3>5
  <2> QED BY <2>1, <2>2
<1>2. CASE C!Lock(t)
  BY <1>2 DEF C!Lock, C!Goto, C!Work, C!TestInside
<1>3. CASE C!WaitTurn(t) \/ C!PostTurn(t)
  BY <1>3 DEF C!WaitTurn, C!PostTurn, C!Goto
<1>4. CASE C!PrintCounter(t) \/ C!Load(t)
  BY <1>4 DEF C!PrintCounter, C!Load, C!Goto
<1>5. CASE C!Store(t)
  <2>1. counter' = counter + 1 /\ running' = running
        /\ i' = [i EXCEPT ![t] = i[t] + 1]
    BY <1>5 DEF C!Store, C!Goto
  <2>2. counters_pc[t] = "store"
        /\ \E p \in {"unlock", "test"} : counters_pc' = [counters_pc EXCEPT ![t] = p]
    BY <1>5 DEF C!Store, C!Goto, C!LockPerAddition
  <2>3. ASSUME NEW a \in CounterThreads, NEW b \in CounterThreads,
               NEW c \in CounterThreads,
               Three(a, b, c)
        PROVE  counter' = i'[a] + i'[b] + i'[c]
    <3>1. counter = i[a] + i[b] + i[c]
      BY <2>3
    <3>2. i[a] \in Nat /\ i[b] \in Nat /\ i[c] \in Nat
      OBVIOUS
    <3> QED BY <2>1, <2>3, <3>1, <3>2
  <2> QED BY <2>1, <2>2, <2>3
<1>6. CASE C!Unlock(t)
  BY <1>6 DEF C!Unlock, C!Goto, C!Top, C!TestInside
<1> QED BY <1>1, <1>2, <1>3, <1>4, <1>5, <1>6 DEF C!Step

(* The programs without a lock *)

\* A thread goes on to `work' if there is more to do, or ends.
Tests(t, more, work) ==
  /\ counters_pc[t] = "test"
     /\ counters_pc' = [counters_pc EXCEPT ![t] = IF more THEN work ELSE "done"]
  /\ counter' = counter /\ held' = held /\ i' = i

\* A thread prints the number it is about to store.
Prints(t) ==
  /\ counters_pc[t] = "print" /\ counters_pc' = [counters_pc EXCEPT ![t] = "load"]
  /\ counter' = counter /\ held' = held /\ i' = i

\* A thread loads the counter.
Loads(t) ==
  /\ counters_pc[t] = "load" /\ counters_pc' = [counters_pc EXCEPT ![t] = "store"]
  /\ counter' = counter /\ held' = [held EXCEPT ![t] = counter] /\ i' = i

\* A thread stores what it has loaded and what it adds.
Stores(t, added) ==
  /\ counters_pc[t] = "store" /\ counters_pc' = [counters_pc EXCEPT ![t] = "test"]
  /\ counter' = held[t] + added /\ held' = held
  /\ i' = IF C!ToLimit THEN i ELSE [i EXCEPT ![t] = @ + added]

\* The steps of the programs without a lock.
LEMMA UnlockedStep ==
  ASSUME CountersTypeOK, running \in {"bad", "hoisted", "ThreadCount"},
         NEW t \in CounterThreads, C!Step(t),
         counters_pc[t] \in {"test", "print", "load", "store", "done"}
  PROVE  /\ running' = running
         /\ \/ Tests(t, C!More(t), C!Work)
            \/ Prints(t)
            \/ Loads(t)
            \/ Stores(t, IF running = "hoisted" THEN iterations ELSE 1)
<1>1. CASE C!Test(t)
  BY <1>1 DEF C!Test, Tests, C!Goto, C!LockPerAddition, C!TestInside
<1>2. CASE C!Lock(t) \/ C!WaitTurn(t) \/ C!Unlock(t) \/ C!PostTurn(t)
  BY <1>2 DEF C!Lock, C!WaitTurn, C!Unlock, C!PostTurn, C!Goto
<1>3. CASE C!PrintCounter(t)
  BY <1>3 DEF C!PrintCounter, Prints, C!Goto
<1>4. CASE C!Load(t)
  BY <1>4 DEF C!Load, Loads, C!Goto
<1>5. CASE C!Store(t)
  BY <1>5 DEF C!Store, Stores, C!Goto, C!LockPerAddition
<1> QED BY <1>1, <1>2, <1>3, <1>4, <1>5 DEF C!Step

\* Each step of the bad balance keeps its bounds, also one that stores an
\* old number.
LEMMA BadStep ==
  ASSUME C!CountersAssumption, CountersTypeOK, BadBounds, NEW t \in CounterThreads,
         C!Step(t)
  PROVE  BadBounds'
<1> SUFFICES ASSUME running = "bad" PROVE BadBounds'
  BY
     DEF BadBounds, C!Step, C!Test, C!Lock, C!WaitTurn, C!PrintCounter, C!Load,
         C!Store, C!Unlock, C!PostTurn
<1>a. /\ counter \in Nat /\ iterations \in Nat \ {0}
      /\ held \in [CounterThreads -> Nat] /\ i \in [CounterThreads -> Nat]
      /\ counters_pc \in [CounterThreads -> CounterPlaces]
  BY DEF CountersTypeOK, C!CountersAssumption
<1>b. /\ \A u \in CounterThreads :
           /\ counters_pc[u] \in {"test", "load", "store", "done"}
           /\ i[u] <= iterations
           /\ counters_pc[u] \in {"load", "store"} => i[u] < iterations
           /\ counters_pc[u] = "done" => i[u] = iterations
           /\ i[u] # 0 => counter # 0
           /\ counters_pc[u] = "store" /\ i[u] # 0 => held[u] # 0
  BY DEF BadBounds
<1>c. \A a, b, c \in CounterThreads :
        Three(a, b, c) =>
          /\ counter <= i[a] + i[b] + i[c]
          /\ counters_pc[a] = "store" => held[a] <= i[a] + i[b] + i[c]
  BY DEF BadBounds
<1>d. iterations # 1 => counter >= 2 \/ \E u \in CounterThreads : i[u] < iterations
  BY DEF BadBounds
<1>e. /\ running' = running
      /\ \/ Tests(t, i[t] < iterations, "load")
         \/ Loads(t)
         \/ Stores(t, 1)
  BY <1>b, UnlockedStep DEF C!More, C!Work, C!ToLimit, Prints
<1>1. \A u \in CounterThreads :
        /\ counters_pc'[u] \in {"test", "load", "store", "done"}
        /\ i'[u] <= iterations
        /\ counters_pc'[u] \in {"load", "store"} => i'[u] < iterations
        /\ counters_pc'[u] = "done" => i'[u] = iterations
        /\ i'[u] # 0 => counter' # 0
        /\ counters_pc'[u] = "store" /\ i'[u] # 0 => held'[u] # 0
  <2>1. CASE Tests(t, i[t] < iterations, "load")
    BY <1>a, <1>b, <2>1 DEF Tests
  <2>2. CASE Loads(t)
    BY <1>a, <1>b, <2>2 DEF Loads
  <2>3. CASE Stores(t, 1)
    BY <1>a, <1>b, <2>3 DEF Stores, C!ToLimit
  <2> QED BY <1>e, <2>1, <2>2, <2>3
<1>2. ASSUME NEW a \in CounterThreads, NEW b \in CounterThreads,
             NEW c \in CounterThreads,
             Three(a, b, c)
      PROVE  /\ counter' <= i'[a] + i'[b] + i'[c]
             /\ counters_pc'[a] = "store" => held'[a] <= i'[a] + i'[b] + i'[c]
  <2>1. /\ t \in {a, b, c} /\ a # b /\ a # c /\ b # c
        /\ counter <= i[a] + i[b] + i[c]
        /\ counters_pc[a] = "store" => held[a] <= i[a] + i[b] + i[c]
        /\ counters_pc[b] = "store" => held[b] <= i[a] + i[b] + i[c]
        /\ counters_pc[c] = "store" => held[c] <= i[a] + i[b] + i[c]
    <3>1. Three(b, a, c) /\ Three(c, a, b)
      BY <1>2 DEF Three
    <3>2. i[a] \in Nat /\ i[b] \in Nat /\ i[c] \in Nat
      BY <1>a
    <3>3. i[b] + i[a] + i[c] = i[a] + i[b] + i[c]
          /\ i[c] + i[a] + i[b] = i[a] + i[b] + i[c]
      BY <3>2
    <3> QED BY <1>2, <1>c, <3>1, <3>3 DEF Three
  <2>2. CASE Tests(t, i[t] < iterations, "load")
    BY <1>a, <2>1, <2>2 DEF Tests
  <2>3. CASE Loads(t)
    BY <1>a, <2>1, <2>3 DEF Loads
  <2>4. CASE Stores(t, 1)
    BY <1>a, <2>1, <2>4 DEF Stores, C!ToLimit
  <2> QED BY <1>e, <2>2, <2>3, <2>4
<1>3. ASSUME iterations # 1
      PROVE  counter' >= 2 \/ \E u \in CounterThreads : i'[u] < iterations
  <2>1. CASE Tests(t, i[t] < iterations, "load") \/ Loads(t)
    BY <1>a, <1>d, <1>3, <2>1 DEF Tests, Loads
  <2>2. CASE Stores(t, 1) /\ i[t] = 0
    BY <1>a, <1>3, <2>2 DEF Stores, C!ToLimit
  <2>3. CASE Stores(t, 1) /\ i[t] # 0
    BY <1>a, <1>b, <1>3, <2>3 DEF Stores, C!ToLimit
  <2> QED BY <1>e, <2>1, <2>2, <2>3
<1> QED BY <1>1, <1>2, <1>3 DEF BadBounds

\* Each step of the hoisted loop keeps its bounds.
LEMMA HoistedStep ==
  ASSUME C!CountersAssumption, CountersTypeOK, HoistedBounds,
         NEW t \in CounterThreads, C!Step(t)
  PROVE  HoistedBounds'
<1> SUFFICES ASSUME running = "hoisted" PROVE HoistedBounds'
  BY
     DEF HoistedBounds, C!Step, C!Test, C!Lock, C!WaitTurn, C!PrintCounter, C!Load,
         C!Store, C!Unlock, C!PostTurn
<1> DEFINE Multiples ==
      {0, iterations, iterations + iterations, iterations + iterations + iterations}
<1>a. /\ counter \in Nat /\ iterations \in Nat \ {0}
      /\ held \in [CounterThreads -> Nat] /\ i \in [CounterThreads -> Nat]
      /\ counters_pc \in [CounterThreads -> CounterPlaces]
  BY DEF CountersTypeOK, C!CountersAssumption
<1>b. /\ \A u \in CounterThreads :
           /\ counters_pc[u] \in {"test", "load", "store", "done"}
           /\ i[u] \in {0, iterations}
           /\ counters_pc[u] \in {"load", "store"} => i[u] = 0
           /\ counters_pc[u] = "done" => i[u] = iterations
           /\ i[u] = iterations => counter # 0
      /\ counter \in Multiples /\ \A u \in CounterThreads : held[u] \in Multiples
  BY DEF HoistedBounds
<1>c. \A a, b, c \in CounterThreads :
        Three(a, b, c) =>
          /\ counter <= HasAdded(a) + HasAdded(b) + HasAdded(c)
          /\ counters_pc[a] = "store" => held[a] <= HasAdded(b) + HasAdded(c)
  BY DEF HoistedBounds
<1>e. /\ running' = running
      /\ \/ Tests(t, i[t] < iterations, "load")
         \/ Loads(t)
         \/ Stores(t, iterations)
  BY <1>b, UnlockedStep DEF C!More, C!Work, C!ToLimit, Prints
<1>f. \E a, b, c \in CounterThreads : Three(a, b, c) /\ t = a
  BY ThreeThreads DEF Three
<1>1. \A u \in CounterThreads :
        /\ counters_pc'[u] \in {"test", "load", "store", "done"}
        /\ i'[u] \in {0, iterations}
        /\ counters_pc'[u] \in {"load", "store"} => i'[u] = 0
        /\ counters_pc'[u] = "done" => i'[u] = iterations
        /\ i'[u] = iterations => counter' # 0
  <2>1. CASE Tests(t, i[t] < iterations, "load")
    BY <1>a, <1>b, <2>1 DEF Tests
  <2>2. CASE Loads(t)
    BY <1>a, <1>b, <2>2 DEF Loads
  <2>3. CASE Stores(t, iterations)
    BY <1>a, <1>b, <2>3 DEF Stores, C!ToLimit
  <2> QED BY <1>e, <2>1, <2>2, <2>3
<1>2. ASSUME NEW a \in CounterThreads, NEW b \in CounterThreads,
             NEW c \in CounterThreads,
             Three(a, b, c)
      PROVE  /\ counter' <= HasAdded(a)' + HasAdded(b)' + HasAdded(c)'
             /\ counters_pc'[a] = "store" => held'[a] <= HasAdded(b)' + HasAdded(c)'
  <2>1. /\ t \in {a, b, c} /\ a # b /\ a # c /\ b # c
        /\ counter <= HasAdded(a) + HasAdded(b) + HasAdded(c)
        /\ counters_pc[a] = "store" => held[a] <= HasAdded(b) + HasAdded(c)
        /\ counters_pc[b] = "store" => held[b] <= HasAdded(a) + HasAdded(c)
        /\ counters_pc[c] = "store" => held[c] <= HasAdded(a) + HasAdded(b)
    <3>1. Three(b, a, c) /\ Three(c, a, b)
      BY <1>2 DEF Three
    <3> QED BY <1>2, <1>c, <3>1 DEF Three
  <2>2. CASE Tests(t, i[t] < iterations, "load")
    BY <1>a, <2>1, <2>2 DEF Tests, HasAdded
  <2>3. CASE Loads(t)
    BY <1>a, <1>b, <2>1, <2>3 DEF Loads, HasAdded
  <2>4. CASE Stores(t, iterations)
    BY <1>a, <1>b, <2>1, <2>4 DEF Stores, C!ToLimit, HasAdded
  <2> QED BY <1>e, <2>2, <2>3, <2>4
<1>3. counter' \in Multiples /\ \A u \in CounterThreads : held'[u] \in Multiples
  <2>1. CASE Tests(t, i[t] < iterations, "load")
    BY <1>a, <1>b, <2>1 DEF Tests
  <2>2. CASE Loads(t)
    BY <1>a, <1>b, <2>2 DEF Loads
  <2>3. CASE Stores(t, iterations)
    <3>1. held[t] <= iterations + iterations
      BY <1>a, <1>c, <1>f, <2>3 DEF Stores, HasAdded
    <3>2. held[t] \in {0, iterations, iterations + iterations}
      BY <1>a, <1>b, <3>1
    <3> QED BY <1>a, <1>b, <2>3, <3>2 DEF Stores
  <2> QED BY <1>e, <2>1, <2>2, <2>3
<1> QED BY <1>1, <1>2, <1>3 DEF HoistedBounds

\* Each step of ThreadCount keeps its bounds, below the limit and from it
\* on.
LEMMA CountStep ==
  ASSUME C!CountersAssumption, CountersTypeOK, CountBounds, NEW t \in CounterThreads,
         C!Step(t)
  PROVE  CountBounds'
<1> SUFFICES ASSUME running = "ThreadCount" PROVE CountBounds'
  BY
     DEF CountBounds, C!Step, C!Test, C!Lock, C!WaitTurn, C!PrintCounter, C!Load,
         C!Store, C!Unlock, C!PostTurn
<1>a. /\ counter \in Nat /\ limit \in Nat \ {0}
      /\ held \in [CounterThreads -> Nat]
      /\ counters_pc \in [CounterThreads -> CounterPlaces]
  BY DEF CountersTypeOK, C!CountersAssumption
<1>b. \A u \in CounterThreads : counters_pc[u] \in {"test", "print", "load", "store", "done"}
  BY DEF CountBounds
<1>c. counter < limit =>
         /\ \E u \in CounterThreads : counters_pc[u] # "done"
         /\ \A u \in CounterThreads : CountBelow(u)
  BY DEF CountBounds
<1>d. counter >= limit =>
         \A a, b, c \in CounterThreads : Three(a, b, c) => CountAbove(a, b, c)
  BY DEF CountBounds
<1>e. /\ running' = running
      /\ \/ Tests(t, counter < limit, "print")
         \/ Prints(t)
         \/ Loads(t)
         \/ Stores(t, 1)
  BY <1>b, UnlockedStep DEF C!More, C!Work, C!ToLimit
<1>1. \A u \in CounterThreads : counters_pc'[u] \in {"test", "print", "load", "store", "done"}
  BY <1>a, <1>b, <1>e DEF Tests, Prints, Loads, Stores
<1>2. ASSUME counter' < limit PROVE \E u \in CounterThreads : counters_pc'[u] # "done"
  BY <1>a, <1>b, <1>c, <1>e, <1>2 DEF Tests, Prints, Loads, Stores
<1>3. ASSUME counter' < limit, NEW u \in CounterThreads PROVE CountBelow(u)'
  <2>1. CASE Tests(t, counter < limit, "print") \/ Prints(t) \/ Loads(t)
    BY <1>a, <1>c, <1>3, <2>1 DEF Tests, Prints, Loads, CountBelow
  <2>2. CASE Stores(t, 1) /\ counter < limit
    BY <1>a, <1>c, <1>3, <2>2 DEF Stores, CountBelow
  <2>3. CASE Stores(t, 1) /\ counter >= limit
    <3>1. PICK a \in CounterThreads, b \in CounterThreads, c \in CounterThreads :
            Three(a, b, c) /\ a = t
      BY ThreeThreads DEF Three
    <3>2. CountAbove(a, b, c)
      BY <1>d, <2>3, <3>1
    <3> QED
      BY <1>a, <1>3, <2>3, <3>1, <3>2
         DEF Stores, CountAbove, CountBelow, NumberAt, IsAt, Three
  <2> QED BY <1>a, <1>e, <2>1, <2>2, <2>3
<1>4. ASSUME counter' >= limit,
             NEW a \in CounterThreads, NEW b \in CounterThreads, NEW c \in CounterThreads,
             Three(a, b, c)
      PROVE  CountAbove(a, b, c)'
  <2>a. t \in {a, b, c} /\ a # b /\ a # c /\ b # c
    BY <1>4 DEF Three
  <2> USE DEF CountAbove, CountBelow, NumberAt, IsAt
  <2>1. CASE Tests(t, counter < limit, "print") \/ Prints(t)
    BY <1>a, <1>d, <1>4, <2>1, <2>a DEF Tests, Prints
  <2>2. CASE Loads(t)
    BY <1>a, <1>d, <1>4, <2>2, <2>a DEF Loads
  <2>3. CASE Stores(t, 1) /\ counter < limit
    BY <1>a, <1>c, <1>4, <2>3, <2>a DEF Stores
  <2>4. CASE Stores(t, 1) /\ counter >= limit
    BY <1>a, <1>d, <1>4, <2>4, <2>a DEF Stores
  <2> QED BY <1>a, <1>e, <2>1, <2>2, <2>3, <2>4
<1> QED BY <1>1, <1>2, <1>3, <1>4, <1>e DEF CountBounds

(* shared-semaphores.c *)

\* The other of the two processes.
Other(t) == IF t = Parent THEN Child ELSE Parent

\* Each step of the two processes keeps their turns.
LEMMA SharedStep ==
  ASSUME C!CountersAssumption, CountersTypeOK, SharedTurns, NEW t \in C!Threads,
         C!Step(t)
  PROVE  SharedTurns'
<1> SUFFICES ASSUME running = "shared" PROVE SharedTurns'
  BY
     DEF SharedTurns, C!Step, C!Test, C!Lock, C!WaitTurn, C!PrintCounter, C!Load,
         C!Store, C!Unlock, C!PostTurn
<1>a. /\ counter \in Nat /\ iterations \in Nat \ {0}
      /\ held \in [CounterThreads -> Nat] /\ i \in [CounterThreads -> Nat]
      /\ counters_pc \in [CounterThreads -> CounterPlaces]
      /\ permits \in [{Parent, Child} -> Nat]
      /\ Parent \in CounterThreads /\ Child \in CounterThreads /\ Parent # Child
  BY DEF CountersTypeOK, C!CountersAssumption
<1>b. t \in {Parent, Child}
  BY DEF C!Threads
<1>c. /\ \A u \in {Parent, Child} :
           /\ counters_pc[u] \in {"test", "wait", "load", "store", "post", "done"}
           /\ permits[u] \in {0, 1}
           /\ permits[u] = 1 => counters_pc[u] \notin {"load", "store", "post"}
           /\ i[u] <= iterations
           /\ counters_pc[u] \in {"wait", "load", "store"} => i[u] < iterations
           /\ counters_pc[u] = "done" => i[u] = iterations
           /\ counters_pc[u] = "store" => held[u] = counter
      /\ counter = i[Parent] + i[Child]
      /\ \/ /\ Turn(Parent) \/ counters_pc[Child] = "post"
            /\ ~Turn(Child) /\ counters_pc[Parent] # "post"
            /\ ~(Turn(Parent) /\ counters_pc[Child] = "post")
            /\ i[Parent] = i[Child]
         \/ /\ Turn(Child) \/ counters_pc[Parent] = "post"
            /\ ~Turn(Parent) /\ counters_pc[Child] # "post"
            /\ ~(Turn(Child) /\ counters_pc[Parent] = "post")
            /\ i[Parent] = i[Child] + 1
  BY DEF SharedTurns
<1>1. CASE C!Test(t)
  <2>1. /\ running' = running /\ counter' = counter /\ held' = held /\ i' = i
           /\ permits' = permits
        /\ counters_pc[t] = "test"
        /\ \/ i[t] < iterations /\ counters_pc' = [counters_pc EXCEPT ![t] = "wait"]
           \/ i[t] = iterations /\ counters_pc' = [counters_pc EXCEPT ![t] = "done"]
    <3>1. CASE C!More(t)
      BY <1>1, <3>1 DEF C!Test, C!Goto, C!More, C!ToLimit
    <3>2. CASE ~C!More(t)
      BY <1>a, <1>b, <1>c, <1>1, <3>2
         DEF C!Test, C!Goto, C!More, C!ToLimit, C!TestInside
    <3> QED BY <3>1, <3>2
  <2> QED BY <1>a, <1>b, <1>c, <2>1 DEF SharedTurns, Turn
<1>2. CASE C!Lock(t) \/ C!PrintCounter(t) \/ C!Unlock(t)
  BY <1>2, <1>b, <1>c DEF C!Lock, C!PrintCounter, C!Unlock, C!Goto
<1>3. CASE C!WaitTurn(t)
  BY <1>a, <1>b, <1>c, <1>3 DEF C!WaitTurn, C!Goto, SharedTurns, Turn
<1>4. CASE C!Load(t)
  BY <1>a, <1>b, <1>c, <1>4 DEF C!Load, C!Goto, SharedTurns, Turn
<1>5. CASE C!Store(t)
  <2>1. /\ running' = running /\ permits' = permits /\ held' = held
        /\ counters_pc[t] = "store"
           /\ counters_pc' = [counters_pc EXCEPT ![t] = "post"]
        /\ counter' = held[t] + 1 /\ i' = [i EXCEPT ![t] = i[t] + 1]
    BY <1>5 DEF C!Store, C!Goto, C!LockPerAddition, C!ToLimit
  <2> QED BY <1>a, <1>b, <1>c, <2>1 DEF SharedTurns, Turn
<1>6. CASE C!PostTurn(t)
  <2>1. /\ running' = running /\ counter' = counter /\ held' = held /\ i' = i
        /\ counters_pc[t] = "post"
           /\ counters_pc' = [counters_pc EXCEPT ![t] = "test"]
        /\ permits' = [permits EXCEPT ![Other(t)] = permits[Other(t)] + 1]
    BY <1>6 DEF C!PostTurn, C!Goto, Other
  <2> QED BY <1>a, <1>b, <1>c, <2>1 DEF SharedTurns, Turn, Other
<1> QED BY <1>1, <1>2, <1>3, <1>4, <1>5, <1>6 DEF C!Step

(* The programs together *)

\* The counters start at 0, and nobody has added.
LEMMA CountersStart == ASSUME C!CountersAssumption PROVE C!Init => CountersInv
<1> SUFFICES ASSUME C!Init PROVE CountersInv OBVIOUS
<1>1. CountersTypeOK
  BY DEF C!CountersAssumption, C!Init, CountersTypeOK, CounterPlaces, C!Top
<1>2. counters_pc = [t \in CounterThreads |-> IF C!TestInside THEN "lock" ELSE "test"]
  BY DEF C!Init, C!Top
<1>3. /\ counter = 0 /\ printed = 0
         /\ permits = [t \in {Parent, Child} |-> IF t = Parent THEN 1 ELSE 0]
      /\ i = [t \in CounterThreads |-> 0] /\ held = [t \in CounterThreads |-> 0]
      /\ limit \in Nat \ {0} /\ iterations \in Nat \ {0}
      /\ Parent \in CounterThreads /\ Child \in CounterThreads /\ Parent # Child
  BY DEF C!Init, C!CountersAssumption
<1>4. LockKept /\ PrintedLast /\ LimitKept
  BY <1>2, <1>3
     DEF LockKept, PrintedLast, LimitKept, LockPrograms, Inside, C!TestInside
<1>5. PassedTest
  BY <1>2, <1>3 DEF PassedTest, NumberAt, IsAt, C!TestInside
<1>6. NothingLost
  BY <1>2, <1>3 DEF NothingLost, C!TestInside
<1>7. BadBounds
  <2>1. \E u \in CounterThreads : i[u] < iterations
    BY <1>3
  <2> QED BY <1>2, <1>3, <2>1 DEF BadBounds, C!TestInside
<1>8. HoistedBounds
  BY <1>2, <1>3 DEF HoistedBounds, HasAdded, C!TestInside
<1>9. CountBounds
  <2>1. \E u \in CounterThreads : counters_pc[u] # "done"
    BY <1>2, <1>3
  <2> QED BY <1>2, <1>3, <2>1 DEF CountBounds, CountBelow, C!TestInside
<1>10. SharedTurns
  BY <1>2, <1>3 DEF SharedTurns, Turn, C!TestInside
<1> QED BY <1>1, <1>4, <1>5, <1>6, <1>7, <1>8, <1>9, <1>10 DEF CountersInv, LocksRight

\* Each step keeps the invariant.
LEMMA CountersStep ==
  ASSUME C!CountersAssumption, CountersInv, [C!Next]_(C!vars)
  PROVE  CountersInv'
<1> USE DEF CountersInv, LocksRight
<1>1. CASE UNCHANGED C!vars
  <2> USE <1>1 DEF C!vars
  <2>1. CountersTypeOK' /\ LockKept' /\ PrintedLast'
    BY DEF CountersTypeOK, LockKept, PrintedLast, Inside, C!TestInside
  <2>2. PassedTest' /\ LimitKept' /\ NothingLost'
    BY DEF PassedTest, LimitKept, NothingLost, NumberAt, IsAt
  <2>3. BadBounds' /\ HoistedBounds'
    BY DEF BadBounds, HoistedBounds, HasAdded
  <2>4. CountBounds' /\ SharedTurns'
    BY DEF CountBounds, CountBelow, CountAbove, NumberAt, IsAt, SharedTurns, Turn
  <2> QED BY <2>1, <2>2, <2>3, <2>4
<1>2. CASE C!Next
  <2>1. PICK t \in C!Threads : C!Step(t)
    BY <1>2 DEF C!Next
  <2>2. t \in CounterThreads
    BY DEF C!Threads, C!CountersAssumption
  <2> QED BY <2>1, <2>2, CountersTypes, LockKeptStep, PrintedLastStep, PassedTestStep,
             LimitKeptStep, NothingLostStep, BadStep, HoistedStep, CountStep, SharedStep
<1> QED BY <1>1, <1>2

\* The invariant of the counters holds throughout.
LEMMA CountersInvariant == ASSUME C!CountersAssumption PROVE C!Spec => []CountersInv
<1>1. CountersInv /\ [C!Next]_(C!vars) => CountersInv'
  BY CountersStep
<1> QED BY <1>1, CountersStart, PTL DEF C!Spec

(* What the programs print at the end. *)

\* The number of threads of each program.
LEMMA ThreadsNumber ==
  ASSUME C!CountersAssumption
  PROVE  C!N = IF running = "shared" THEN 2 ELSE 3
<1>1. CASE running = "shared"
  <2>1. C!Threads = {Parent, Child} /\ Parent # Child
    BY <1>1 DEF C!Threads, C!CountersAssumption
  <2>2. IsFiniteSet({Parent}) /\ Cardinality({Parent}) = 1
    BY FS_Singleton
  <2>3. Cardinality({Parent} \cup {Child}) = 2
    BY <2>1, <2>2, FS_AddElement
  <2>4. C!Threads = {Parent} \cup {Child}
    BY <2>1
  <2> QED BY <1>1, <2>3, <2>4, CountersSizes DEF C!N
<1>2. CASE running # "shared"
  BY <1>2 DEF C!N, C!Threads, C!CountersAssumption
<1> QED BY <1>1, <1>2

\* When the threads are done, the invariant bounds the result of each
\* program.
LEMMA CountersResult ==
  ASSUME C!CountersAssumption, CountersInv, C!AllDone
  PROVE  counter \in C!Results
<1>a. /\ running \in CounterPrograms /\ counter \in Nat
      /\ limit \in Nat \ {0} /\ iterations \in Nat \ {0}
      /\ i \in [CounterThreads -> Nat]
         /\ counters_pc \in [CounterThreads -> CounterPlaces]
      /\ Parent \in CounterThreads /\ Child \in CounterThreads
  BY DEF CountersInv, CountersTypeOK, C!CountersAssumption
<1>b. C!N = IF running = "shared" THEN 2 ELSE 3
  BY ThreadsNumber
<1>c. PICK a \in CounterThreads, b \in CounterThreads, c \in CounterThreads : Three(a, b, c)
  BY ThreeThreads
<1>d. running # "shared" => counters_pc[a] = "done" /\ counters_pc[b] = "done"
      /\ counters_pc[c] = "done"
  BY <1>c DEF C!AllDone, C!Threads
<1>1. CASE running = "ThreadLock2"
  <2>1. counter = limit
    BY <1>a, <1>d, <1>1 DEF CountersInv, LocksRight, LimitKept
  <2> QED BY <1>1, <2>1 DEF C!Results
<1>2. CASE running = "ThreadLock1"
  <2>1. counter >= limit
        /\ counter + NumberAt(a, b, c, {"lock", "print", "load", "store"}) <= limit + 2
    BY <1>c, <1>d, <1>2 DEF CountersInv, LocksRight, PassedTest
  <2>2. NumberAt(a, b, c, {"lock", "print", "load", "store"}) = 0
    BY <1>d, <1>2 DEF NumberAt, IsAt
  <2>3. counter \in limit..limit + C!N - 1
    BY <1>a, <1>b, <1>2, <2>1, <2>2
  <2> QED BY <1>2, <2>3 DEF C!Results
<1>3. CASE running = "ThreadCount"
  <2>1. counter >= limit
    BY <1>a, <1>3 DEF CountersInv, CountBounds, C!AllDone, C!Threads
  <2>2. counter + NumberAt(a, b, c, {"print", "load"}) <= limit + limit + 1
    BY <1>c, <1>3, <2>1 DEF CountersInv, CountBounds, CountAbove
  <2>3. NumberAt(a, b, c, {"print", "load"}) = 0
    BY <1>d, <1>3 DEF NumberAt, IsAt
  <2>4. counter \in limit..2 * limit + 1
    BY <1>a, <2>1, <2>2, <2>3
  <2> QED BY <1>3, <2>4 DEF C!Results
<1>4. CASE running \in {"safe", "session"}
  <2>1. /\ counter = i[a] + i[b] + i[c]
        /\ i[a] = iterations /\ i[b] = iterations /\ i[c] = iterations
    BY <1>c, <1>d, <1>4 DEF CountersInv, LocksRight, NothingLost
  <2>2. counter = C!N * iterations
    BY <1>a, <1>b, <1>4, <2>1
  <2> QED BY <1>4, <2>2 DEF C!Results
<1>5. CASE running = "shared"
  <2>1. counters_pc[Parent] = "done" /\ counters_pc[Child] = "done"
    BY <1>5 DEF C!AllDone, C!Threads
  <2>2. counter = i[Parent] + i[Child] /\ i[Parent] = iterations
        /\ i[Child] = iterations
    BY <1>5, <2>1 DEF CountersInv, SharedTurns
  <2>3. counter = C!N * iterations
    BY <1>a, <1>b, <1>5, <2>2
  <2> QED BY <1>5, <2>3 DEF C!Results
<1>6. CASE running = "hoisted"
  <2>1. /\ counter \in {0, iterations, iterations + iterations, iterations + iterations + iterations}
        /\ counter # 0
    BY <1>a, <1>d, <1>6 DEF CountersInv, HoistedBounds
  <2>2. \E n \in 1..3 : counter = n * iterations
    BY <1>a, <2>1
  <2>3. \E n \in 1..C!N : counter = n * iterations
    BY <1>b, <1>6, <2>2
  <2> QED BY <1>6, <2>3 DEF C!Results
<1>7. CASE running = "bad"
  <2>1. i[a] = iterations /\ i[b] = iterations /\ i[c] = iterations /\ counter # 0
    BY <1>a, <1>d, <1>7 DEF CountersInv, BadBounds
  <2>2. counter <= i[a] + i[b] + i[c]
    BY <1>c, <1>7 DEF CountersInv, BadBounds
  <2>3. \A u \in CounterThreads : i[u] = iterations
    BY <1>c, <2>1 DEF Three
  <2>4. iterations # 1 => counter >= 2
    BY <1>a, <1>7, <2>3 DEF CountersInv, BadBounds
  <2>5. counter \in (IF iterations = 1 THEN 1 ELSE 2)..C!N * iterations
    BY <1>a, <1>b, <1>7, <2>1, <2>2, <2>4
  <2> QED BY <1>7, <2>5 DEF C!Results
<1> QED BY <1>a, <1>1, <1>2, <1>3, <1>4, <1>5, <1>6, <1>7 DEF C!CountersAssumption

\* The invariant gives what the counters promise.
LEMMA CountersPromise ==
  ASSUME C!CountersAssumption
  PROVE  CountersInv => C!CountsRight
<1> SUFFICES ASSUME CountersInv PROVE C!CountsRight OBVIOUS
<1>1. C!AllDone => counter \in C!Results
  BY CountersResult
<1>2. ASSUME running \in {"ThreadLock1", "ThreadLock2"}, NEW t \in C!Threads,
             counters_pc[t] = "print"
      PROVE  counter = printed
  <2>1. t \in CounterThreads /\ Inside(t)
    BY <1>2 DEF C!Threads, Inside
  <2>2. \A u \in CounterThreads : counters_pc[u] \in {"load", "store"} => Inside(u)
    BY DEF Inside
  <2>3. \A u \in CounterThreads : counters_pc[u] \notin {"load", "store"}
    BY <1>2, <2>1, <2>2 DEF CountersInv, LocksRight, LockKept, LockPrograms
  <2> QED BY <1>2, <2>3 DEF CountersInv, LocksRight, PrintedLast
<1>3. ASSUME running = "shared", NEW t \in C!Threads, counters_pc[t] = "store"
      PROVE  held[t] = counter /\ (held[t] % 2 = 0 <=> t = Parent)
  <2>1. t \in {Parent, Child} /\ Parent # Child /\ Parent \in CounterThreads
        /\ Child \in CounterThreads
    BY <1>3 DEF C!Threads, C!CountersAssumption
  <2>2. held[t] = counter /\ counter = i[Parent] + i[Child]
    BY <1>3, <2>1 DEF CountersInv, SharedTurns
  <2>3. i[Child] \in Nat /\ i[Parent] = IF t = Parent THEN i[Child] ELSE i[Child] + 1
    BY <1>3, <2>1 DEF CountersInv, CountersTypeOK, SharedTurns, Turn
  <2>4. \A k \in Nat : (k + k) % 2 = 0 /\ (k + 1 + k) % 2 = 1
    OBVIOUS
  <2>5. CASE t = Parent
    BY <2>2, <2>3, <2>4, <2>5
  <2>6. CASE t # Parent
    BY <2>2, <2>3, <2>4, <2>6
  <2> QED BY <2>5, <2>6
<1> QED BY <1>1, <1>2, <1>3 DEF C!CountsRight

\* CountsRight of the eight programs, for any limit and any number of
\* iterations: their results, which without a lock lie between bounds, the
\* numbers printed under the lock, and the turns of the two processes.
THEOREM CountersCountRight ==
  ASSUME C!CountersAssumption
  PROVE  C!Spec => []C!CountsRight
BY CountersInvariant, CountersPromise, PTL

------------------------------------------------------------------------------
(* The counting device.                                                    *)

\* The numbers and the finite sets of DeviceStats are those of the proofs.
LEMMA DeviceSizes ==
  /\ \A X : D!Cardinality(X) = Cardinality(X)
  /\ \A X : D!IsFiniteSet(X) <=> IsFiniteSet(X)
BY DEF D!Cardinality, Cardinality, D!IsFiniteSet, IsFiniteSet

\* Where a call of the device can be.
DevicePlaces == {"down", "load", "store", "up", "return", "end"}

\* The types of the counting device.
DeviceTypeOK ==
  /\ driver \in {"example3", "example4"}
  /\ stats \in [D!Calls -> Int]
  /\ sem \in {0, 1}
  /\ refs \in Int /\ skipped \in Int
  /\ call \in [Callers -> D!Calls]
  /\ register \in [Callers -> Int]
  /\ device_pc \in [Callers -> DevicePlaces]

\* Under the semaphore of example4 ...
InDevice(p) == device_pc[p] \in {"load", "store", "up"}

OneInDevice ==
  driver = "example4" =>
    \A p \in Callers : InDevice(p) => sem = 0
    /\ \A q \in Callers : InDevice(q) => q = p

\* ... the count that a process has loaded is still the count.
CountLoaded ==
  driver = "example4" => \A p \in Callers : device_pc[p] = "store" =>
    register[p] = stats[call[p]]

\* The inductive invariant of the device: its counts are right because the
\* semaphore of example4 keeps the load and the store of a count together.
DeviceInv == DeviceTypeOK /\ OneInDevice /\ CountLoaded /\ D!StatsRight

\* What a finite set counts when one element is added.
LEMMA OneMore ==
  ASSUME NEW X, NEW Y, IsFiniteSet(X), NEW x, x \notin X, Y = X \cup {x}
  PROVE  /\ IsFiniteSet(Y)
         /\ Cardinality(X) \in Int /\ Cardinality(Y) \in Int
         /\ Cardinality(Y) = Cardinality(X) + 1
<1>1. Cardinality(X) \in Int /\ Cardinality(X) \in Nat
  BY FS_CardinalityType
<1>2. IsFiniteSet(Y) /\ Cardinality(Y) = Cardinality(X) + 1
  BY FS_AddElement, <1>1
<1> QED BY <1>1, <1>2

\* The sets that StatsRight counts are finite.
LEMMA DeviceSets ==
  ASSUME D!DeviceStatsAssumption
  PROVE  /\ IsFiniteSet(D!Open) /\ Cardinality(D!Open) \in Int
         /\ \A c \in D!Calls : IsFiniteSet(D!Counted(c))
            /\ Cardinality(D!Counted(c)) \in Int
<1>1. \A X \in SUBSET Callers : IsFiniteSet(X) /\ Cardinality(X) \in Int
  BY FS_Subset, FS_CardinalityType, DeviceSizes DEF D!DeviceStatsAssumption
<1>2. D!Open \subseteq Callers /\ \A c \in D!Calls : D!Counted(c) \subseteq Callers
  BY DEF D!Open, D!Counted
<1> QED BY <1>1, <1>2

\* The device starts with nothing counted.
LEMMA DeviceStart == ASSUME D!DeviceStatsAssumption PROVE D!Init => DeviceInv
<1> SUFFICES ASSUME D!Init PROVE DeviceInv OBVIOUS
<1>1. DeviceTypeOK /\ OneInDevice /\ CountLoaded
  BY
     DEF D!DeviceStatsAssumption, D!Init, DeviceTypeOK, DevicePlaces, D!Calls,
         OneInDevice, InDevice,
         CountLoaded
<1>2. D!Open = {} /\ D!Counted("open") = {} /\ D!Counted("release") = {}
  BY DEF D!Init, D!Open, D!Counted
<1>3. D!StatsRight
  BY <1>1, <1>2, FS_EmptySet, DeviceSizes DEF D!StatsRight, D!Init, D!Calls
<1> QED BY <1>1, <1>3 DEF DeviceInv

\* Each step keeps the types, and the semaphore keeps the calls of example4
\* apart: nobody changes a count between the load and the store of another.
LEMMA DeviceMutex ==
  ASSUME D!DeviceStatsAssumption, DeviceTypeOK, OneInDevice, CountLoaded,
         [D!Next]_(D!vars)
  PROVE  DeviceTypeOK' /\ OneInDevice' /\ CountLoaded'
<1> USE DEF DeviceTypeOK, OneInDevice, CountLoaded, InDevice, DevicePlaces, D!Calls
<1>1. ASSUME NEW p \in Callers, D!Kill(p)
      PROVE  DeviceTypeOK' /\ OneInDevice' /\ CountLoaded'
  BY <1>1 DEF D!Kill
<1>2. ASSUME NEW p \in Callers, D!Down(p)
      PROVE  DeviceTypeOK' /\ OneInDevice' /\ CountLoaded'
  BY <1>2 DEF D!Down, D!Goto
<1>3. ASSUME NEW p \in Callers, D!DownInterrupted(p)
      PROVE  DeviceTypeOK' /\ OneInDevice' /\ CountLoaded'
  BY <1>3 DEF D!DownInterrupted
<1>4. ASSUME NEW p \in Callers, D!Load(p)
      PROVE  DeviceTypeOK' /\ OneInDevice' /\ CountLoaded'
  BY <1>4 DEF D!Load, D!Goto
<1>5. ASSUME NEW p \in Callers, D!Store(p)
      PROVE  DeviceTypeOK' /\ OneInDevice' /\ CountLoaded'
  BY <1>5 DEF D!Store, D!Goto
<1>6. ASSUME NEW p \in Callers, D!Up(p)
      PROVE  DeviceTypeOK' /\ OneInDevice' /\ CountLoaded'
  BY <1>6 DEF D!Up, D!Goto
<1>7. ASSUME NEW p \in Callers, D!Return(p)
      PROVE  DeviceTypeOK' /\ OneInDevice' /\ CountLoaded'
  BY <1>7 DEF D!Return
<1>8. CASE UNCHANGED D!vars
  BY <1>8 DEF D!vars
<1> QED BY <1>1, <1>2, <1>3, <1>4, <1>5, <1>6, <1>7, <1>8 DEF D!Next, D!Use

\* Each step keeps what the counts say.
LEMMA DeviceCounts ==
  ASSUME D!DeviceStatsAssumption, DeviceInv, [D!Next]_(D!vars)
  PROVE  D!StatsRight'
<1>a. DeviceTypeOK /\ OneInDevice /\ CountLoaded
  BY DEF DeviceInv
<1>b. /\ IsFiniteSet(D!Open) /\ Cardinality(D!Open) \in Int
      /\ IsFiniteSet(D!Counted("open")) /\ Cardinality(D!Counted("open")) \in Int
      /\ IsFiniteSet(D!Counted("release"))
         /\ Cardinality(D!Counted("release")) \in Int
  BY DeviceSets DEF D!Calls
<1>c. DeviceTypeOK'
  BY <1>a, DeviceMutex
<1>d. D!StatsRight
  BY DEF DeviceInv
<1> USE DEF D!Calls, DevicePlaces
<1>1. ASSUME NEW p \in Callers,
             D!Kill(p) \/ D!Down(p) \/ D!Load(p) \/ D!Up(p) \/ UNCHANGED D!vars
      PROVE  D!StatsRight'
  <2>1. /\ D!Open' = D!Open /\ D!Counted("open")' = D!Counted("open")
        /\ D!Counted("release")' = D!Counted("release")
    BY <1>1, <1>a
       DEF DeviceTypeOK, D!Kill, D!Down, D!Load, D!Up, D!Goto, D!Open, D!Counted,
           D!vars
  <2>2. UNCHANGED <<driver, stats, refs, skipped>>
    BY <1>1 DEF D!Kill, D!Down, D!Load, D!Up, D!vars
  <2> QED BY <1>d, <2>1, <2>2, DeviceSizes DEF D!StatsRight
<1>2. ASSUME NEW p \in Callers, D!DownInterrupted(p) PROVE D!StatsRight'
  <2>1. /\ D!Counted("open")' = D!Counted("open")
           /\ D!Counted("release")' = D!Counted("release")
        /\ UNCHANGED <<driver, stats, refs>>
    BY <1>2, <1>a DEF DeviceTypeOK, D!DownInterrupted, D!Counted
  <2>2. CASE call[p] # "release"
    <3>1. D!Open' = D!Open /\ skipped' = skipped
      BY <1>2, <1>a, <2>2 DEF DeviceTypeOK, D!DownInterrupted, D!Open
    <3> QED BY <1>d, <2>1, <3>1, DeviceSizes DEF D!StatsRight
  <2>3. CASE call[p] = "release"
    <3>1. p \notin D!Open' /\ D!Open = D!Open' \cup {p}
      BY <1>2, <1>a, <2>3 DEF DeviceTypeOK, D!DownInterrupted, D!Open
    <3>2. skipped' = skipped + 1
      BY <1>2, <2>3 DEF D!DownInterrupted
    <3>3. Cardinality(D!Open') \in Int
          /\ Cardinality(D!Open) = Cardinality(D!Open') + 1
      <4>1. IsFiniteSet(D!Open')
        BY <1>b, <3>1, FS_Subset
      <4> QED BY <4>1, <3>1, OneMore
    <3>4. skipped \in Int /\ refs \in Int /\ stats["open"] \in Int
          /\ stats["release"] \in Int
      BY <1>a DEF DeviceTypeOK
    <3> QED BY <1>b, <1>d, <2>1, <3>2, <3>3, <3>4, DeviceSizes DEF D!StatsRight
  <2> QED BY <2>2, <2>3
<1>3. ASSUME NEW p \in Callers, D!Store(p) PROVE D!StatsRight'
  <2>1. D!Open' = D!Open /\ UNCHANGED <<driver, refs, skipped>>
    BY <1>3, <1>a DEF DeviceTypeOK, D!Store, D!Goto, D!Open
  <2>2. skipped \in Int /\ refs \in Int /\ stats["open"] \in Int
        /\ stats["release"] \in Int
    BY <1>a DEF DeviceTypeOK
  <2>3. driver = "example4" =>
          \A c \in D!Calls : stats'[c] = IF c = call[p] THEN stats[c] + 1 ELSE stats[c]
    BY <1>3, <1>a DEF DeviceTypeOK, D!Store, D!Goto, CountLoaded
  <2>4. ASSUME NEW c \in {"open", "release"}
        PROVE  Cardinality(D!Counted(c)') =
                 IF c = call[p] THEN Cardinality(D!Counted(c)) + 1 ELSE Cardinality(D!Counted(c))
    <3>1. CASE c = call[p]
      <4>1. p \notin D!Counted(c) /\ D!Counted(c)' = D!Counted(c) \cup {p}
        BY <3>1, <1>3, <1>a DEF DeviceTypeOK, D!Store, D!Goto, D!Counted
      <4>2. IsFiniteSet(D!Counted(c))
        BY <1>b
      <4> QED BY <3>1, <4>1, <4>2, OneMore
    <3>2. CASE c # call[p]
      BY <3>2, <1>3, <1>a DEF DeviceTypeOK, D!Store, D!Goto, D!Counted
    <3> QED BY <3>1, <3>2
  <2>5. /\ Cardinality(D!Counted("open")') =
             IF "open" = call[p] THEN Cardinality(D!Counted("open")) + 1
                                 ELSE Cardinality(D!Counted("open"))
        /\ Cardinality(D!Counted("release")') =
             IF "release" = call[p] THEN Cardinality(D!Counted("release")) + 1
                                    ELSE Cardinality(D!Counted("release"))
    BY <2>4
  <2>6. driver = "example4" =>
          /\ stats'["open"] = IF "open" = call[p] THEN stats["open"] + 1 ELSE stats["open"]
          /\ stats'["release"] =
               IF "release" = call[p] THEN stats["release"] + 1 ELSE stats["release"]
    BY <2>3
  <2> QED BY <1>b, <1>d, <2>1, <2>2, <2>5, <2>6, DeviceSizes DEF D!StatsRight
<1>4. ASSUME NEW p \in Callers, D!Return(p) PROVE D!StatsRight'
  <2>1. UNCHANGED <<driver, stats, skipped>>
    BY <1>4 DEF D!Return
  <2>2. skipped \in Int /\ refs \in Int /\ stats["open"] \in Int
        /\ stats["release"] \in Int
    BY <1>a DEF DeviceTypeOK
  <2>3. CASE call[p] = "open"
    <3>1. refs' = refs + 1
      BY <1>4, <2>3 DEF D!Return
    <3>2. p \notin D!Open /\ D!Open' = D!Open \cup {p}
      BY <1>4, <1>a, <2>3 DEF DeviceTypeOK, D!Return, D!Open
    <3>3. p \notin D!Counted("open")'
          /\ D!Counted("open") = D!Counted("open")' \cup {p}
      BY <1>4, <1>a, <2>3 DEF DeviceTypeOK, D!Return, D!Counted
    <3>4. D!Counted("release")' = D!Counted("release")
      BY <1>4, <1>a, <2>3 DEF DeviceTypeOK, D!Return, D!Counted
    <3>5. IsFiniteSet(D!Counted("open")')
      BY <1>b, <3>3, FS_Subset
    <3>6. /\ Cardinality(D!Open') \in Int
          /\ Cardinality(D!Open') = Cardinality(D!Open) + 1
          /\ Cardinality(D!Counted("open")') \in Int
          /\ Cardinality(D!Counted("open")) = Cardinality(D!Counted("open")') + 1
      BY <1>b, <3>2, <3>3, <3>5, OneMore
    <3>7. /\ Cardinality(D!Counted("release")') = Cardinality(D!Counted("release"))
          /\ driver' = driver /\ skipped' = skipped
          /\ stats'["open"] = stats["open"] /\ stats'["release"] = stats["release"]
      BY <2>1, <3>4
    <3>8. driver' = "example4" =>
            stats'["open"] = stats'["release"] + skipped' + Cardinality(D!Open')
                             + Cardinality(D!Counted("open")') - Cardinality(D!Counted("release")')
      BY <1>b, <1>d, <2>2, <3>6, <3>7, DeviceSizes DEF D!StatsRight
    <3>9. refs' = Cardinality(D!Open') + skipped'
      BY <1>b, <1>d, <2>2, <3>1, <3>6, <3>7, DeviceSizes DEF D!StatsRight
    <3> QED BY <3>8, <3>9, DeviceSizes DEF D!StatsRight
  <2>4. CASE call[p] = "release"
    <3>1. refs' = refs - 1
      BY <1>4, <2>4 DEF D!Return
    <3>2. p \notin D!Open' /\ D!Open = D!Open' \cup {p}
      BY <1>4, <1>a, <2>4 DEF DeviceTypeOK, D!Return, D!Open
    <3>3. p \notin D!Counted("release")'
          /\ D!Counted("release") = D!Counted("release")' \cup {p}
      BY <1>4, <1>a, <2>4 DEF DeviceTypeOK, D!Return, D!Counted
    <3>4. D!Counted("open")' = D!Counted("open")
      BY <1>4, <1>a, <2>4 DEF DeviceTypeOK, D!Return, D!Counted
    <3>5. IsFiniteSet(D!Counted("release")') /\ IsFiniteSet(D!Open')
      BY <1>b, <3>2, <3>3, FS_Subset
    <3>6. /\ Cardinality(D!Open') \in Int
          /\ Cardinality(D!Open) = Cardinality(D!Open') + 1
          /\ Cardinality(D!Counted("release")') \in Int
          /\ Cardinality(D!Counted("release")) = Cardinality(D!Counted("release")') + 1
      BY <1>b, <3>2, <3>3, <3>5, OneMore
    <3>7. /\ Cardinality(D!Counted("open")') = Cardinality(D!Counted("open"))
          /\ driver' = driver /\ skipped' = skipped
          /\ stats'["open"] = stats["open"] /\ stats'["release"] = stats["release"]
      BY <2>1, <3>4
    <3>8. driver' = "example4" =>
            stats'["open"] = stats'["release"] + skipped' + Cardinality(D!Open')
                             + Cardinality(D!Counted("open")') - Cardinality(D!Counted("release")')
      BY <1>b, <1>d, <2>2, <3>6, <3>7, DeviceSizes DEF D!StatsRight
    <3>9. refs' = Cardinality(D!Open') + skipped'
      BY <1>b, <1>d, <2>2, <3>1, <3>6, <3>7, DeviceSizes DEF D!StatsRight
    <3> QED BY <3>8, <3>9, DeviceSizes DEF D!StatsRight
  <2>5. CASE call[p] \in {"read", "write"}
    <3>1. refs' = refs
      BY <1>4, <2>5 DEF D!Return
    <3>2. /\ D!Open' = D!Open /\ D!Counted("open")' = D!Counted("open")
          /\ D!Counted("release")' = D!Counted("release")
      BY <1>4, <1>a, <2>5 DEF DeviceTypeOK, D!Return, D!Open, D!Counted
    <3> QED BY <1>d, <2>1, <3>1, <3>2, DeviceSizes DEF D!StatsRight
  <2> QED BY <1>a, <2>3, <2>4, <2>5 DEF DeviceTypeOK
<1> QED
  <2>1. CASE UNCHANGED D!vars
    BY <2>1, <1>d DEF D!vars, D!StatsRight, D!Open, D!Counted
  <2>2. CASE D!Next
    BY <2>2, <1>1, <1>2, <1>3, <1>4 DEF D!Next, D!Use
  <2> QED BY <2>1, <2>2

\* The invariant of the device holds throughout.
LEMMA DeviceInvariant == ASSUME D!DeviceStatsAssumption PROVE D!Spec => []DeviceInv
<1>1. DeviceInv /\ [D!Next]_(D!vars) => DeviceInv'
  BY DeviceMutex, DeviceCounts DEF DeviceInv
<1> QED BY <1>1, DeviceStart, PTL DEF D!Spec

\* StatsRight, for any number of processes: in example4 the opens and closes
\* that are counted differ by the open files, the calls on their way and the
\* releases that a signal ended, and in both drivers the references to the
\* module are those of the open files and of such releases.
THEOREM DeviceStatsAgree ==
  ASSUME D!DeviceStatsAssumption
  PROVE  D!Spec => []D!StatsRight
<1>1. DeviceInv => D!StatsRight
  BY DEF DeviceInv
<1> QED BY <1>1, DeviceInvariant, PTL

------------------------------------------------------------------------------
(* The echo server: whose buffers hold which answers.                      *)

\* The line of a client that is not read.
ClientLines == E!Kinds \cup {"none", "exit", "other", "eof", "echo", "quit"}

\* The types of the echo server.
EchoTypeOK ==
  /\ at \in {"select", "serve", "single", "reap", "exited"}
  /\ conn \in [Clients -> {"none", "queued", "accepted"}]
  /\ session \in [Clients -> E!Kinds \cup {"none", "refused"}]
  /\ ended \subseteq Clients
  /\ line \in [Clients -> ClientLines]
  /\ sent \in [Clients -> Nat]
  /\ buffered \in [E!EchoProcesses -> [Clients -> Seq(Nat)]]
  /\ received \in [Clients -> Seq(Nat)]
  /\ open \in [E!EchoProcesses -> SUBSET Clients]
  /\ child \in [Clients -> {"none", "running", "exited", "reaped"}]

\* The server serves a client that it has accepted.
ServerServes ==
  /\ at \in {"serve", "single"} => served \in Clients
  /\ at = "serve" => conn[served] = "accepted" /\ session[served] = "none"
  /\ at = "single" => session[served] = "single" /\ served \notin ended

\* Nothing has happened to a client whose first line is not read.
NotServed(c) ==
  /\ conn[c] # "accepted" => session[c] = "none"
  /\ session[c] = "none" =>
       /\ sent[c] = 0 /\ received[c] = <<>> /\ c \notin ended
       /\ line[c] \notin {"echo", "quit"} /\ child[c] = "none"
       /\ \A p \in E!EchoProcesses :
            /\ buffered[p][c] = <<>>
            /\ c \in open[p] => p = Server /\ at = "serve" /\ served = c

\* A client that is served in place has the server for itself: nothing of
\* its session is ever copied by a fork.
InPlace(c) ==
  session[c] = "single" =>
    /\ c \notin ended => at = "single" /\ served = c
    /\ c \in ended => buffered[Server][c] = <<>> /\ c \notin open[Server]
    /\ \A p \in Clients : buffered[p][c] = <<>> /\ c \notin open[p]

\* A client that is served by a process has that process for itself.
ByProcess(c) ==
  session[c] = "process" =>
    /\ child[c] = "running" <=> c \notin ended
    /\ c \in ended => c \notin open[c]
    /\ \A p \in E!EchoProcesses \ {c} : buffered[p][c] = <<>> /\ c \notin open[p]

\* The numbers of the first k lines.
UpTo(k) == [m \in 1..k |-> m]

\* A session that goes on has the answers to the lines read in the buffer of
\* its process.
Unwritten(c) ==
  E!Active(c) =>
    /\ line[c] = "echo" => sent[c] >= 1
    /\ buffered[E!Home(c)][c] = UpTo(IF line[c] = "echo" THEN sent[c] - 1 ELSE sent[c])

\* What is read, u, has the answers v somewhere in one piece.
AnswersAt(u, v) ==
  \E k \in 0..Len(u) : E!IsPrefix(v, SubSeq(u, k + 1, Len(u)))

\* What a client has read: its answers when its session has ended.
AnswersRead(c) ==
  /\ session[c] \in {"single", "process"} =>
       received[c] = IF c \in ended THEN E!Answers(c) ELSE <<>>
  /\ c \in ended =>
       /\ session[c] \in E!Kinds
       /\ session[c] = "thread" => AnswersAt(received[c], E!Answers(c))
          /\ c \notin open[Server]

\* What is said of one client.
SessionRight(c) ==
  NotServed(c) /\ InPlace(c) /\ ByProcess(c) /\ Unwritten(c) /\ AnswersRead(c)

\* The inductive invariant of the echo server.
EchoInv == EchoTypeOK /\ ServerServes /\ \A c \in Clients : SessionRight(c)

\* Answers that are joined.
LEMMA SeqJoined ==
  ASSUME NEW u \in Seq(Nat), NEW v \in Seq(Nat)
  PROVE  /\ u \o v \in Seq(Nat) /\ Len(u \o v) = Len(u) + Len(v)
         /\ Len(u) \in Nat /\ Len(v) \in Nat
         /\ u \o <<>> = u /\ <<>> \o v = v
OBVIOUS

\* The numbers of the first lines are a sequence, and the next line makes it
\* one longer.
LEMMA Counted ==
  ASSUME NEW k \in Nat
  PROVE  /\ UpTo(k) \in Seq(Nat) /\ Len(UpTo(k)) = k
         /\ Append(UpTo(k), k + 1) = UpTo(k + 1) /\ UpTo(0) = <<>>
<1>1. UpTo(k) \in Seq(Nat) /\ Len(UpTo(k)) = k
  BY DEF UpTo
<1>2. UpTo(0) = <<>>
  BY DEF UpTo
<1>3. Append(UpTo(k), k + 1) = UpTo(k + 1)
  <2>1. /\ DOMAIN Append(UpTo(k), k + 1) = 1..k + 1
        /\ \A m \in 1..k : Append(UpTo(k), k + 1)[m] = UpTo(k)[m]
        /\ Append(UpTo(k), k + 1)[k + 1] = k + 1
        /\ Append(UpTo(k), k + 1) \in Seq(Nat)
    BY <1>1
  <2>2. \A m \in 1..k : UpTo(k)[m] = m
    BY DEF UpTo
  <2>3. \A m \in 1..k + 1 : Append(UpTo(k), k + 1)[m] = m
    BY <2>1, <2>2
  <2>4. Append(UpTo(k), k + 1) = [m \in 1..k + 1 |-> Append(UpTo(k), k + 1)[m]]
    BY <2>1
  <2>5. [m \in 1..k + 1 |-> Append(UpTo(k), k + 1)[m]] = [m \in 1..k + 1 |-> m]
    BY <2>3
  <2> QED BY <2>4, <2>5, Zenon DEF UpTo
<1> QED BY <1>1, <1>2, <1>3

\* The answers to a client are the numbers of its lines.
LEMMA AnswersNumbered ==
  ASSUME NEW c \in Clients
  PROVE  E!Answers(c) = UpTo(sent[c])
BY DEF E!Answers, UpTo

\* A sequence without its first k elements.
LEMMA Dropped ==
  ASSUME NEW u \in Seq(Nat), NEW k \in Nat, k <= Len(u)
  PROVE  /\ SubSeq(u, k + 1, Len(u)) \in Seq(Nat)
         /\ Len(SubSeq(u, k + 1, Len(u))) = Len(u) - k
         /\ \A m \in 1..Len(u) - k : SubSeq(u, k + 1, Len(u))[m] = u[k + m]
OBVIOUS

\* Sequences that agree in their first elements.
LEMMA SamePrefix ==
  ASSUME NEW u \in Seq(Nat), NEW v \in Seq(Nat), NEW k \in Nat,
         k <= Len(u), k <= Len(v), \A m \in 1..k : u[m] = v[m]
  PROVE  SubSeq(u, 1, k) = SubSeq(v, 1, k)
OBVIOUS

\* Answers that can be read stay where they are when more is written.
LEMMA AnswersKept ==
  ASSUME NEW u \in Seq(Nat), NEW v \in Seq(Nat), NEW w \in Seq(Nat), AnswersAt(u, v)
  PROVE  AnswersAt(u \o w, v)
<1>1. PICK k \in 0..Len(u) : E!IsPrefix(v, SubSeq(u, k + 1, Len(u)))
  BY DEF AnswersAt
<1> DEFINE z == u \o w
<1>2. /\ Len(u) \in Nat /\ Len(v) \in Nat /\ Len(w) \in Nat
         /\ Len(z) = Len(u) + Len(w)
      /\ z \in Seq(Nat) /\ \A m \in 1..Len(u) : z[m] = u[m]
  OBVIOUS
<1> HIDE DEF z
<1>3. k \in 0..Len(z) /\ k \in Nat /\ k <= Len(u)
  BY <1>2
<1> DEFINE x == SubSeq(u, k + 1, Len(u))
           y == SubSeq(z, k + 1, Len(z))
<1>4. x \in Seq(Nat) /\ Len(x) = Len(u) - k
      /\ \A m \in 1..Len(u) - k : x[m] = u[k + m]
  BY <1>3, Dropped
<1>5. k <= Len(z)
  BY <1>2, <1>3
<1>6. y \in Seq(Nat) /\ Len(y) = Len(z) - k
      /\ \A m \in 1..Len(z) - k : y[m] = z[k + m]
  BY <1>2, <1>3, <1>5, Dropped
<1> HIDE DEF x, y
<1>7. Len(v) <= Len(x) /\ SubSeq(v, 1, Len(v)) = SubSeq(x, 1, Len(v))
  BY <1>1 DEF E!IsPrefix, x
<1>8. Len(v) <= Len(u) - k /\ Len(v) <= Len(z) - k /\ Len(v) <= Len(y)
  <2>1. Len(v) <= Len(u) - k
    BY <1>4, <1>7
  <2>2. Len(z) - k >= Len(u) - k
    BY <1>2, <1>3
  <2> QED BY <1>2, <1>3, <1>6, <2>1, <2>2
<1>9. SubSeq(y, 1, Len(v)) = SubSeq(x, 1, Len(v))
  <2>1. ASSUME NEW m \in 1..Len(v) PROVE y[m] = x[m]
    <3>0. Len(u) \in Nat /\ Len(v) \in Nat /\ Len(z) \in Nat
      BY <1>2
    <3>2. m \in Nat /\ m >= 1 /\ m <= Len(v)
      BY <3>0
    <3>3. m <= Len(u) - k /\ m <= Len(z) - k
      BY <1>3, <1>8, <3>0, <3>2
    <3>1. m \in 1..Len(u) - k /\ m \in 1..Len(z) - k /\ k + m \in 1..Len(u)
      BY <1>3, <3>0, <3>2, <3>3
    <3> QED BY <1>2, <1>4, <1>6, <3>1
  <2> QED BY <1>2, <1>4, <1>6, <1>7, <1>8, <2>1, SamePrefix
<1>10. E!IsPrefix(v, y)
  BY <1>7, <1>8, <1>9 DEF E!IsPrefix
<1> QED BY <1>3, <1>10 DEF AnswersAt, y, z

\* Answers that are written last can be read.
LEMMA AnswersEnd ==
  ASSUME NEW u \in Seq(Nat), NEW v \in Seq(Nat)
  PROVE  AnswersAt(u \o v, v)
<1>1. Len(u) \in Nat /\ Len(v) \in Nat /\ Len(u \o v) = Len(u) + Len(v)
  OBVIOUS
<1>2. SubSeq(u \o v, Len(u) + 1, Len(u \o v)) = v
  OBVIOUS
<1>3. E!IsPrefix(v, v)
  BY DEF E!IsPrefix
<1>4. Len(u) \in 0..Len(u \o v)
  BY <1>1
<1>5. E!IsPrefix(v, SubSeq(u \o v, Len(u) + 1, Len(u \o v)))
  BY <1>2, <1>3
<1> QED BY <1>4, <1>5, Zenon DEF AnswersAt

\* The buffer of one process for one client changes, and no other.
LEMMA BufferedTwice ==
  ASSUME EchoTypeOK, NEW p \in E!EchoProcesses, NEW c \in Clients, NEW x \in Seq(Nat),
         buffered' = [buffered EXCEPT ![p][c] = x]
  PROVE  /\ buffered' \in [E!EchoProcesses -> [Clients -> Seq(Nat)]]
         /\ \A q \in E!EchoProcesses, d \in Clients :
              buffered'[q][d] = IF q = p /\ d = c THEN x ELSE buffered[q][d]
BY DEF EchoTypeOK

\* The end of a process writes all its buffers and closes its connections.
LEMMA EndOfProcess ==
  ASSUME EchoTypeOK, NEW p \in E!EchoProcesses, E!ExitProcess(p)
  PROVE  /\ received' \in [Clients -> Seq(Nat)]
         /\ buffered' \in [E!EchoProcesses -> [Clients -> Seq(Nat)]]
         /\ open' \in [E!EchoProcesses -> SUBSET Clients]
         /\ \A d \in Clients : received'[d] = received[d] \o buffered[p][d]
         /\ \A q \in E!EchoProcesses, d \in Clients :
              /\ buffered'[q][d] = IF q = p THEN <<>> ELSE buffered[q][d]
              /\ d \in open'[q] <=> q # p /\ d \in open[q]
<1>1. \A d \in Clients : received[d] \o buffered[p][d] \in Seq(Nat)
  BY SeqJoined DEF EchoTypeOK
<1>2. received' \in [Clients -> Seq(Nat)]
      /\ \A d \in Clients : received'[d] = received[d] \o buffered[p][d]
  BY <1>1 DEF E!ExitProcess
<1>3. [d \in Clients |-> <<>>] \in [Clients -> Seq(Nat)]
  OBVIOUS
<1>4. buffered' \in [E!EchoProcesses -> [Clients -> Seq(Nat)]]
      /\ \A q \in E!EchoProcesses, d \in Clients :
           buffered'[q][d] = IF q = p THEN <<>> ELSE buffered[q][d]
  BY <1>3 DEF E!ExitProcess, EchoTypeOK
<1>5. open' \in [E!EchoProcesses -> SUBSET Clients]
      /\ \A q \in E!EchoProcesses, d \in Clients : d \in open'[q] <=> q # p
         /\ d \in open[q]
  BY DEF E!ExitProcess, EchoTypeOK
<1> QED BY <1>2, <1>4, <1>5

\* What a command leaves behind.
LEMMA CommandRead ==
  ASSUME EchoTypeOK, ServerServes, NEW X, E!Command(X)
  PROVE  /\ served \in Clients /\ at = "serve"
         /\ conn[served] = "accepted" /\ session[served] = "none"
            /\ line[served] \in X
         /\ line' \in [Clients -> ClientLines]
         /\ line'[served] \in {"none", "eof"}
         /\ \A d \in Clients \ {served} : line'[d] = line[d]
         /\ UNCHANGED <<served, conn, sent>>
BY DEF E!Command, ServerServes, EchoTypeOK, ClientLines

\* The commands of the first lines keep the types.
LEMMA CommandTypes ==
  ASSUME E!EchoServerAssumption, EchoTypeOK, ServerServes,
         E!Begin \/ E!Fork \/ E!Exit \/ E!NoCommand
  PROVE  EchoTypeOK'
<1>1. CASE E!Begin
  <2>1. E!Command({"single", "thread"})
    BY <1>1 DEF E!Begin
  <2> HIDE DEF E!Command
  <2>2. session' = [session EXCEPT ![served] = line[served]]
        /\ line[served] \in {"single", "thread"} /\ at' \in {"single", "reap"}
    BY <1>1, <2>1, CommandRead DEF E!Begin
  <2> QED
    BY <1>1, <2>1, <2>2, CommandRead DEF E!Begin, EchoTypeOK, E!dataVars, E!Kinds
<1>2. CASE E!Fork
  <2>1. E!Command({"process"})
    BY <1>2 DEF E!Fork
  <2>2. served \in E!EchoProcesses /\ Server \in E!EchoProcesses /\ served \in Clients
    BY <2>1, CommandRead DEF E!EchoProcesses
  <2>3. buffered' \in [E!EchoProcesses -> [Clients -> Seq(Nat)]]
    BY <1>2, <2>2 DEF E!Fork, EchoTypeOK
  <2>4. open' \in [E!EchoProcesses -> SUBSET Clients]
    BY <1>2, <2>2 DEF E!Fork, EchoTypeOK
  <2>5. session' \in [Clients -> E!Kinds \cup {"none", "refused"}]
    BY <1>2, <2>2 DEF E!Fork, EchoTypeOK, E!Kinds
  <2>6. child' \in [Clients -> {"none", "running", "exited", "reaped"}]
    BY <1>2, <2>2 DEF E!Fork, EchoTypeOK
  <2>7. at' = "reap" /\ UNCHANGED <<ended, received>>
    BY <1>2 DEF E!Fork
  <2> QED BY <2>1, <2>3, <2>4, <2>5, <2>6, <2>7, CommandRead DEF EchoTypeOK
<1>3. CASE E!Exit
  <2>1. E!Command({"exit"}) /\ E!ExitProcess(Server) /\ at' = "exited"
        /\ UNCHANGED <<session, ended, child>>
    BY <1>3 DEF E!Exit
  <2>2. Server \in E!EchoProcesses
    BY DEF E!EchoProcesses
  <2> QED BY <2>1, <2>2, CommandRead, EndOfProcess DEF EchoTypeOK
<1>4. CASE E!NoCommand
  <2>1. E!Command({"other", "eof"}) /\ at' = "reap"
        /\ UNCHANGED <<ended, E!dataVars, child>>
        /\ session' = [session EXCEPT ![served] = "refused"]
    BY <1>4 DEF E!NoCommand
  <2> QED BY <2>1, CommandRead DEF EchoTypeOK, E!dataVars
<1> QED BY <1>1, <1>2, <1>3, <1>4

\* A line that is sent keeps the types.
LEMMA SayTypes ==
  ASSUME EchoTypeOK, NEW c \in Clients, E!Say(c)
  PROVE  EchoTypeOK'
<1>1. line' \in [Clients -> ClientLines]
  <2>1. \E l \in ClientLines : line' = [line EXCEPT ![c] = l]
    BY DEF E!Say, ClientLines
  <2> QED BY <2>1 DEF EchoTypeOK
<1>2. sent' \in [Clients -> Nat]
  <2>1. sent' = sent \/ sent' = [sent EXCEPT ![c] = @ + 1]
    BY DEF E!Say
  <2> QED BY <2>1 DEF EchoTypeOK
<1> QED BY <1>1, <1>2 DEF E!Say, EchoTypeOK, E!dataVars

\* An answer keeps the types.
LEMMA EchoTypes ==
  ASSUME EchoTypeOK, NEW c \in Clients, E!Echo(c)
  PROVE  EchoTypeOK'
<1>1. E!Home(c) \in E!EchoProcesses
  BY DEF E!Home, E!EchoProcesses
<1>2. buffered' \in [E!EchoProcesses -> [Clients -> Seq(Nat)]]
  <2> DEFINE x == Append(buffered[E!Home(c)][c], sent[c])
  <2>1. x \in Seq(Nat)
    BY <1>1 DEF EchoTypeOK
  <2>2. buffered' = [buffered EXCEPT ![E!Home(c)][c] = x]
    BY DEF E!Echo
  <2> HIDE DEF x
  <2> QED BY <1>1, <2>1, <2>2, BufferedTwice
<1>3. line' \in [Clients -> ClientLines]
  BY DEF E!Echo, EchoTypeOK, ClientLines
<1> QED BY <1>2, <1>3 DEF E!Echo, EchoTypeOK

\* The end of a session keeps the types.
LEMMA QuitTypes ==
  ASSUME EchoTypeOK, NEW c \in Clients, E!Quit(c)
  PROVE  EchoTypeOK'
<1>1. c \in E!EchoProcesses /\ Server \in E!EchoProcesses
  BY DEF E!EchoProcesses
<1>2. /\ received' \in [Clients -> Seq(Nat)]
      /\ buffered' \in [E!EchoProcesses -> [Clients -> Seq(Nat)]]
      /\ open' \in [E!EchoProcesses -> SUBSET Clients]
      /\ child' \in [Clients -> {"none", "running", "exited", "reaped"}]
  <2>1. CASE session[c] = "process"
    <3>1. E!ExitProcess(c) /\ child' = [child EXCEPT ![c] = "exited"]
      BY <2>1 DEF E!Quit
    <3> QED BY <1>1, <3>1, EndOfProcess DEF EchoTypeOK
  <2>2. CASE session[c] # "process"
    <3>1. /\ received' = [received EXCEPT ![c] = @ \o buffered[Server][c]]
          /\ buffered' = [buffered EXCEPT ![Server][c] = <<>>]
          /\ open' = [open EXCEPT ![Server] = @ \ {c}]
          /\ UNCHANGED child
      BY <2>2 DEF E!Quit
    <3>2. received[c] \o buffered[Server][c] \in Seq(Nat)
      BY <1>1, SeqJoined DEF EchoTypeOK
    <3>3. <<>> \in Seq(Nat)
      OBVIOUS
    <3>4. buffered' \in [E!EchoProcesses -> [Clients -> Seq(Nat)]]
      BY <1>1, <3>1, <3>3, BufferedTwice
    <3> QED BY <1>1, <3>1, <3>2, <3>4 DEF EchoTypeOK
  <2> QED BY <2>1, <2>2
<1>3. /\ line' \in [Clients -> ClientLines] /\ ended' \subseteq Clients
      /\ at' \in {"select", "serve", "single", "reap", "exited"}
      /\ UNCHANGED <<served, conn, sent, session>>
  BY DEF E!Quit, EchoTypeOK, ClientLines
<1> QED BY <1>2, <1>3 DEF EchoTypeOK

\* Each step keeps the types.
LEMMA EchoServerTypes ==
  ASSUME E!EchoServerAssumption, EchoTypeOK, ServerServes, [E!Next]_(E!vars)
  PROVE  EchoTypeOK'
<1>1. CASE \E c \in Clients : E!Accept(c)
  BY <1>1 DEF E!Accept, EchoTypeOK, E!EchoProcesses
<1>2. CASE E!Timeout \/ E!Reap
  BY <1>2 DEF E!Timeout, E!Reap, EchoTypeOK, E!clientVars, E!dataVars
<1>3. CASE E!Begin \/ E!Fork \/ E!Exit \/ E!NoCommand
  BY <1>3, CommandTypes
<1>4. CASE \E c \in Clients : E!Connect(c)
  BY <1>4 DEF E!Connect, EchoTypeOK, E!dataVars
<1>5. CASE \E c \in Clients : E!Say(c)
  BY <1>5, SayTypes
<1>6. CASE \E c \in Clients : E!Echo(c)
  BY <1>6, EchoTypes
<1>7. CASE \E c \in Clients : E!Quit(c)
  BY <1>7, QuitTypes
<1>8. CASE UNCHANGED E!vars
  BY <1>8 DEF EchoTypeOK, E!vars, E!clientVars, E!dataVars
<1> QED BY <1>1, <1>2, <1>3, <1>4, <1>5, <1>6, <1>7, <1>8
       DEF E!Next, E!server, E!client, E!cmd_single

\* A session goes on as long as its process runs.
LEMMA HomeRuns ==
  ASSUME NEW d \in Clients
  PROVE  /\ E!Home(d) \in E!EchoProcesses
         /\ E!Active(d) <=> /\ session[d] \in E!Kinds /\ d \notin ended
                          /\ (IF E!Home(d) = Server THEN at # "exited" ELSE child[d] = "running")
BY DEF E!Home, E!EchoProcesses, E!Active, E!Runs

\* A client whose session the step leaves alone.
LEMMA Bystander ==
  ASSUME EchoTypeOK, NEW d \in Clients, SessionRight(d),
         session'[d] = session[d], d \in ended' <=> d \in ended,
         line'[d] = line[d], sent'[d] = sent[d], received'[d] = received[d],
         child'[d] = "running" <=> child[d] = "running", child[d] = "none" =>
           child'[d] = "none",
         conn'[d] = "accepted" \/ conn[d] # "accepted",
         \A p \in E!EchoProcesses :
           buffered'[p][d] = buffered[p][d] /\ (d \in open'[p] => d \in open[p]),
         at = "single" /\ served = d => at' = "single" /\ served' = d,
         at = "serve" /\ served = d => at' = "serve" /\ served' = d,
         at' = "exited" <=> at = "exited"
  PROVE  SessionRight(d)'
<1>1. NotServed(d)'
  BY DEF SessionRight, NotServed
<1>2. InPlace(d)'
  BY DEF SessionRight, InPlace, E!EchoProcesses
<1>3. ByProcess(d)'
  BY DEF SessionRight, ByProcess, E!EchoProcesses
<1>4. E!Home(d)' = E!Home(d) /\ (E!Active(d)' => E!Active(d))
  BY DEF E!Active, E!Runs, E!Home
<1>5. Unwritten(d)'
  BY <1>4, HomeRuns DEF SessionRight, Unwritten
<1>6. E!Answers(d)' = E!Answers(d)
  BY DEF E!Answers
<1>7. AnswersRead(d)'
  <2>1. d \in open'[Server] => d \in open[Server]
    BY DEF E!EchoProcesses
  <2> QED BY <1>6, <2>1 DEF SessionRight, AnswersRead
<1> QED BY <1>1, <1>2, <1>3, <1>5, <1>7 DEF SessionRight

\* A client that is not served by the process that ends.
LEMMA Survivor ==
  ASSUME E!EchoServerAssumption, EchoTypeOK, NEW d \in Clients, SessionRight(d),
         NEW p \in E!EchoProcesses, p # d,
         E!ExitProcess(p),
         session'[d] = session[d], d \in ended' <=> d \in ended,
         line'[d] = line[d], sent'[d] = sent[d], child'[d] = child[d], conn'[d] = conn[d],
         p = Server => at = "serve" /\ at' = "exited",
         p # Server => at' = at /\ served' = served
  PROVE  SessionRight(d)'
<1>1. /\ received'[d] = received[d] \o buffered[p][d]
      /\ \A q \in E!EchoProcesses :
           /\ buffered'[q][d] = IF q = p THEN <<>> ELSE buffered[q][d]
           /\ d \in open'[q] <=> q # p /\ d \in open[q]
  BY EndOfProcess
<1>2. received[d] \in Seq(Nat) /\ buffered[p][d] \in Seq(Nat)
      /\ Server \in E!EchoProcesses
  BY DEF EchoTypeOK, E!EchoProcesses
<1>3. session[d] \in {"none", "single", "process"} => buffered[p][d] = <<>>
  <2>1. CASE session[d] = "none"
    BY <2>1 DEF SessionRight, NotServed
  <2>2. CASE session[d] = "single"
    BY <2>2 DEF SessionRight, InPlace, E!EchoProcesses
  <2>3. CASE session[d] = "process"
    BY <2>3 DEF SessionRight, ByProcess
  <2> QED BY <2>1, <2>2, <2>3
<1>4. session[d] \in {"none", "single", "process"} => received'[d] = received[d]
  BY <1>1, <1>2, <1>3, SeqJoined
<1>5. NotServed(d)'
  BY <1>1, <1>2, <1>4 DEF SessionRight, NotServed
<1>6. InPlace(d)'
  <2> SUFFICES ASSUME session[d] = "single" PROVE InPlace(d)'
    BY DEF InPlace
  <2>1. /\ d \notin ended => at = "single" /\ served = d
        /\ d \in ended => buffered[Server][d] = <<>> /\ d \notin open[Server]
        /\ \A q \in Clients : buffered[q][d] = <<>> /\ d \notin open[q]
    BY DEF SessionRight, InPlace
  <2>2. p = Server => d \in ended
    BY <2>1
  <2> QED BY <1>1, <1>2, <2>1, <2>2 DEF InPlace, E!EchoProcesses
<1>7. ByProcess(d)'
  BY <1>1 DEF SessionRight, ByProcess, E!EchoProcesses
<1>8. Unwritten(d)'
  <2> SUFFICES ASSUME E!Active(d)' PROVE Unwritten(d)'
    BY DEF Unwritten
  <2>1. E!Home(d)' = E!Home(d) /\ E!Active(d) /\ E!Home(d) # p
    BY DEF E!Active, E!Runs, E!Home, E!EchoServerAssumption
  <2> QED BY <1>1, <2>1, HomeRuns DEF SessionRight, Unwritten
<1>9. E!Answers(d)' = E!Answers(d) /\ E!Answers(d) \in Seq(Nat)
  BY AnswersNumbered, Counted DEF E!Answers, EchoTypeOK
<1>10. AnswersRead(d)'
  <2>1. session[d] \in {"single", "process"} =>
          received'[d] = IF d \in ended THEN E!Answers(d) ELSE <<>>
    BY <1>4 DEF SessionRight, AnswersRead
  <2>2. d \in ended =>
         /\ session[d] \in E!Kinds
         /\ session[d] = "thread" => AnswersAt(received'[d], E!Answers(d))
            /\ d \notin open'[Server]
    BY <1>1, <1>2, <1>9, AnswersKept DEF SessionRight, AnswersRead
  <2> QED BY <1>9, <2>1, <2>2 DEF AnswersRead
<1> QED BY <1>5, <1>6, <1>7, <1>8, <1>10 DEF SessionRight

\* A client that connects is not served yet.
LEMMA ConnectStep ==
  ASSUME EchoTypeOK, NEW c \in Clients, E!Connect(c), NEW d \in Clients,
         SessionRight(d)
  PROVE  SessionRight(d)'
BY Bystander DEF E!Connect, E!dataVars, EchoTypeOK

\* A line that a client sends is one more to be answered.
LEMMA SayStep ==
  ASSUME EchoTypeOK, NEW c \in Clients, E!Say(c), NEW d \in Clients, SessionRight(d)
  PROVE  SessionRight(d)'
<1>1. CASE d # c
  BY <1>1, Bystander DEF E!Say, E!dataVars, EchoTypeOK
<1>2. CASE d = c
  <2>1. /\ UNCHANGED <<at, served, conn, session, ended, buffered, received, open,
                       child>>
        /\ line[d] = "none"
    BY <1>2 DEF E!Say, E!dataVars
  <2>2. \/ session[d] = "none" /\ line'[d] \notin {"echo", "quit"}
           /\ sent'[d] = sent[d]
        \/ E!Active(d) /\ line'[d] = "echo" /\ sent'[d] = sent[d] + 1
        \/ E!Active(d) /\ line'[d] # "echo" /\ sent'[d] = sent[d]
    BY <1>2 DEF E!Say, EchoTypeOK, E!Kinds
  <2>3. E!Active(d) => session[d] \in E!Kinds /\ d \notin ended
    BY DEF E!Active
  <2>4. E!Active(d)' <=> E!Active(d)
    BY <2>1 DEF E!Active, E!Home, E!Runs
  <2>5. E!Home(d)' = E!Home(d)
    BY <2>1 DEF E!Home
  <2>6. NotServed(d)'
    BY <2>1, <2>2, <2>3 DEF SessionRight, NotServed, E!Kinds
  <2>7. InPlace(d)' /\ ByProcess(d)'
    BY <2>1 DEF SessionRight, InPlace, ByProcess
  <2>8. Unwritten(d)'
    <3>1. CASE E!Active(d)
      <4>1. session[d] # "none" /\ buffered[E!Home(d)][d] = UpTo(sent[d])
            /\ sent[d] \in Nat
        BY <2>1, <2>3, <3>1 DEF SessionRight, Unwritten, E!Kinds, EchoTypeOK
      <4>2. CASE line'[d] = "echo" /\ sent'[d] = sent[d] + 1
        <5>1. sent'[d] >= 1 /\ sent'[d] - 1 = sent[d]
          BY <4>1, <4>2
        <5> QED BY <2>1, <2>5, <4>1, <4>2, <5>1 DEF Unwritten
      <4>3. CASE line'[d] # "echo" /\ sent'[d] = sent[d]
        BY <2>1, <2>5, <4>1, <4>3 DEF Unwritten
      <4> QED BY <2>2, <4>1, <4>2, <4>3
    <3> QED BY <2>4, <3>1 DEF Unwritten
  <2>9. AnswersRead(d)'
    <3>1. d \in ended => sent'[d] = sent[d]
      BY <2>2, <2>3
    <3>2. d \in ended => E!Answers(d)' = E!Answers(d)
      BY <3>1 DEF E!Answers
    <3> QED BY <2>1, <3>2 DEF SessionRight, AnswersRead
  <2> QED BY <2>6, <2>7, <2>8, <2>9 DEF SessionRight
<1> QED BY <1>1, <1>2

\* The client that the server accepts has not been served.
LEMMA AcceptStep ==
  ASSUME EchoTypeOK, NEW c \in Clients, E!Accept(c), NEW d \in Clients,
         SessionRight(d)
  PROVE  SessionRight(d)'
<1>1. /\ at = "select" /\ conn[c] = "queued" /\ at' = "serve" /\ served' = c
      /\ conn' = [conn EXCEPT ![c] = "accepted"]
      /\ open' = [open EXCEPT ![Server] = @ \cup {c}]
      /\ UNCHANGED <<line, sent, session, ended, buffered, received, child>>
  BY DEF E!Accept
<1>2. \A p \in E!EchoProcesses : d \in open'[p] =>
        d \in open[p] \/ (p = Server /\ d = c)
  BY <1>1 DEF EchoTypeOK
<1>3. CASE d # c
  BY <1>1, <1>2, <1>3, Bystander DEF EchoTypeOK
<1>4. CASE d = c
  <2>1. session[d] = "none" /\ conn'[d] = "accepted"
    BY <1>1, <1>4 DEF SessionRight, NotServed, EchoTypeOK
  <2>2. NotServed(d)'
    BY <1>1, <1>2, <1>4, <2>1 DEF SessionRight, NotServed
  <2>3. d \notin ended
    BY <2>1 DEF SessionRight, NotServed
  <2> QED BY <1>1, <2>1, <2>2, <2>3
          DEF SessionRight, InPlace, ByProcess, Unwritten, E!Active, AnswersRead,
              E!Kinds
<1> QED BY <1>3, <1>4

\* The server waits, and reaps its children: nothing happens to a session.
LEMMA WaitStep ==
  ASSUME EchoTypeOK, E!Timeout \/ E!Reap, NEW d \in Clients, SessionRight(d)
  PROVE  SessionRight(d)'
BY Bystander DEF E!Timeout, E!Reap, E!clientVars, E!dataVars, EchoTypeOK

\* A session in place or by a thread begins with nothing in the buffers; a
\* client that is refused has none.
LEMMA BeginStep ==
  ASSUME E!EchoServerAssumption, EchoTypeOK, ServerServes, E!Begin \/ E!NoCommand,
         NEW d \in Clients, SessionRight(d)
  PROVE  SessionRight(d)'
<1>1. PICK X : E!Command(X) /\ (X = {"single", "thread"} \/ X = {"other", "eof"})
  BY DEF E!Begin, E!NoCommand
<1>2. /\ served \in Clients /\ at = "serve"
      /\ conn[served] = "accepted" /\ session[served] = "none"
      /\ line' \in [Clients -> ClientLines]
      /\ line'[served] \in {"none", "eof"}
      /\ \A x \in Clients \ {served} : line'[x] = line[x]
      /\ UNCHANGED <<served, conn, sent>>
  BY <1>1, CommandRead
<1>3. /\ session' \in [Clients -> E!Kinds \cup {"none", "refused"}]
      /\ session'[served] \in {"single", "thread", "refused"}
      /\ \A x \in Clients \ {served} : session'[x] = session[x]
      /\ at' = IF session'[served] = "single" THEN "single" ELSE "reap"
      /\ UNCHANGED <<ended, E!dataVars, child>>
  <2>1. CASE E!Begin
    <3>1. E!Command({"single", "thread"})
      BY <2>1 DEF E!Begin
    <3>2. line[served] \in {"single", "thread"}
      BY <3>1, CommandRead
    <3> QED BY <1>2, <2>1, <3>2 DEF E!Begin, EchoTypeOK, E!Kinds
  <2>2. CASE E!NoCommand
    BY <1>2, <2>2 DEF E!NoCommand, EchoTypeOK
  <2> QED BY <2>1, <2>2
<1>4. CASE d # served
  BY <1>2, <1>3, <1>4, Bystander DEF E!dataVars
<1>5. CASE d = served
  <2>1. /\ sent[d] = 0 /\ received[d] = <<>> /\ d \notin ended /\ child[d] = "none"
        /\ \A p \in E!EchoProcesses : buffered[p][d] = <<>>
           /\ (d \in open[p] => p = Server)
    BY <1>2, <1>5 DEF SessionRight, NotServed
  <2>2. UpTo(0) = <<>>
    BY Counted
  <2>3. Server \in E!EchoProcesses
    BY DEF E!EchoProcesses
  <2>4. NotServed(d)'
    BY <1>2, <1>3, <1>5 DEF NotServed
  <2>5. session'[d] = "single" => \A p \in Clients : p # Server =>
          buffered[p][d] = <<>> /\ d \notin open[p]
    BY <2>1 DEF E!EchoProcesses
  <2>6. InPlace(d)'
    <3>1. \A p \in Clients : p # Server
      BY DEF E!EchoServerAssumption
    <3> QED BY <1>2, <1>3, <1>5, <2>1, <2>5, <3>1 DEF InPlace, E!dataVars
  <2>7. ByProcess(d)'
    BY <1>3, <1>5 DEF ByProcess
  <2>8. Unwritten(d)'
    <3>1. E!Active(d)' => E!Home(d)' = Server
      BY <1>3, <1>5 DEF E!Active, E!Home
    <3> QED BY <1>2, <1>3, <1>5, <2>1, <2>2, <2>3, <3>1 DEF Unwritten, E!dataVars
  <2>9. AnswersRead(d)'
    BY <1>3, <1>5, <2>1 DEF AnswersRead, E!dataVars
  <2> QED BY <2>4, <2>6, <2>7, <2>8, <2>9 DEF SessionRight
<1> QED BY <1>4, <1>5

\* A child has copies of what the server has in its buffers and open: at
\* that time no client is served in place.
LEMMA ForkStep ==
  ASSUME E!EchoServerAssumption, EchoTypeOK, ServerServes, E!Fork, NEW d \in Clients,
         SessionRight(d)
  PROVE  SessionRight(d)'
<1>1. /\ served \in Clients /\ at = "serve"
      /\ conn[served] = "accepted" /\ session[served] = "none"
      /\ line[served] = "process" /\ line' \in [Clients -> ClientLines]
      /\ \A x \in Clients \ {served} : line'[x] = line[x]
      /\ UNCHANGED <<served, conn, sent>>
  BY CommandRead DEF E!Fork
<1>2. line'[served] = "none"
  BY <1>1 DEF E!Fork, E!Command, EchoTypeOK
<1>3. served \in E!EchoProcesses /\ Server \in E!EchoProcesses /\ served # Server
  BY <1>1 DEF E!EchoProcesses, E!EchoServerAssumption
<1>4. /\ session' = [session EXCEPT ![served] = "process"]
      /\ child' = [child EXCEPT ![served] = "running"]
      /\ at' = "reap"
      /\ UNCHANGED <<ended, received>>
  BY DEF E!Fork
<1>5. \A p \in E!EchoProcesses :
        buffered'[p][d] = IF p = served THEN buffered[Server][d] ELSE buffered[p][d]
  BY <1>3 DEF E!Fork, EchoTypeOK
<1>6. \A p \in E!EchoProcesses :
        d \in open'[p] <=> IF p = served THEN d \in open[Server]
                           ELSE d \in open[p] /\ ~(p = Server /\ d = served)
  BY <1>3 DEF E!Fork, EchoTypeOK
<1>7. CASE d # served
  <2>1. session'[d] = session[d] /\ child'[d] = child[d] /\ line'[d] = line[d]
    BY <1>1, <1>4, <1>7 DEF EchoTypeOK
  <2>2. NotServed(d)'
    BY <1>1, <1>3, <1>4, <1>5, <1>6, <1>7, <2>1 DEF SessionRight, NotServed
  <2>3. InPlace(d)'
    BY <1>1, <1>3, <1>4, <1>5, <1>6, <1>7, <2>1
       DEF SessionRight, InPlace, E!EchoProcesses
  <2>4. ByProcess(d)'
    <3>1. Server # d
      BY DEF E!EchoServerAssumption
    <3> QED
      BY <1>3, <1>4, <1>5, <1>6, <1>7, <2>1, <3>1
         DEF SessionRight, ByProcess, E!EchoProcesses
  <2>5. E!Home(d)' = E!Home(d) /\ E!Home(d) # served /\ (E!Active(d)' => E!Active(d))
    BY <1>1, <1>3, <1>4, <1>7, <2>1 DEF E!Home, E!Active, E!Runs
  <2>6. Unwritten(d)'
    BY <1>1, <1>5, <2>1, <2>5, HomeRuns DEF SessionRight, Unwritten
  <2>7. AnswersRead(d)'
    BY <1>1, <1>3, <1>4, <1>6, <2>1 DEF SessionRight, AnswersRead, E!Answers
  <2> QED BY <2>2, <2>3, <2>4, <2>6, <2>7 DEF SessionRight
<1>8. CASE d = served
  <2>1. /\ sent[d] = 0 /\ received[d] = <<>> /\ d \notin ended
        /\ \A p \in E!EchoProcesses : buffered[p][d] = <<>>
           /\ (d \in open[p] => p = Server)
    BY <1>1, <1>8 DEF SessionRight, NotServed
  <2>2. session'[d] = "process" /\ child'[d] = "running"
    BY <1>1, <1>4, <1>8 DEF EchoTypeOK
  <2>3. ByProcess(d)'
    BY <1>3, <1>4, <1>5, <1>6, <1>8, <2>1, <2>2 DEF ByProcess, E!EchoProcesses
  <2>4. Unwritten(d)'
    <3>1. UpTo(0) = <<>>
      BY Counted
    <3>2. E!Home(d)' = d
      BY <2>2 DEF E!Home
    <3> QED BY <1>1, <1>2, <1>3, <1>5, <1>8, <2>1, <3>1, <3>2 DEF Unwritten
  <2> QED
    BY <1>1, <1>4, <1>8, <2>1, <2>2, <2>3, <2>4
       DEF SessionRight, NotServed, InPlace, AnswersRead
<1> QED BY <1>7, <1>8

\* The server writes what is in its buffers when it exits: those of its
\* threads.
LEMMA ExitStep ==
  ASSUME E!EchoServerAssumption, EchoTypeOK, ServerServes, E!Exit, NEW d \in Clients,
         SessionRight(d)
  PROVE  SessionRight(d)'
<1>1. /\ E!Command({"exit"}) /\ at' = "exited" /\ E!ExitProcess(Server)
      /\ UNCHANGED <<session, ended, child>>
  BY DEF E!Exit
<1>2. /\ served \in Clients /\ at = "serve" /\ line[served] = "exit"
      /\ conn[served] = "accepted" /\ session[served] = "none"
      /\ line'[served] \in {"none", "eof"}
      /\ \A x \in Clients \ {served} : line'[x] = line[x]
      /\ UNCHANGED <<served, conn, sent>>
  BY <1>1, CommandRead
<1>3. Server \in E!EchoProcesses /\ Server # d
  BY DEF E!EchoProcesses, E!EchoServerAssumption
<1>4. CASE d # served
  BY <1>1, <1>2, <1>3, <1>4, Survivor
<1>5. CASE d = served
  <2>1. /\ sent[d] = 0 /\ received[d] = <<>> /\ d \notin ended /\ child[d] = "none"
        /\ \A p \in E!EchoProcesses : buffered[p][d] = <<>>
           /\ (d \in open[p] => p = Server)
    BY <1>2, <1>5 DEF SessionRight, NotServed
  <2>2. /\ received'[d] = received[d] \o buffered[Server][d]
        /\ \A q \in E!EchoProcesses :
             /\ buffered'[q][d] = IF q = Server THEN <<>> ELSE buffered[q][d]
             /\ d \in open'[q] <=> q # Server /\ d \in open[q]
    BY <1>1, <1>3, EndOfProcess
  <2>3. received'[d] = <<>>
    BY <1>3, <2>1, <2>2
  <2>4. NotServed(d)'
    BY <1>1, <1>2, <1>5, <2>1, <2>2, <2>3 DEF NotServed
  <2> QED BY <1>1, <1>2, <1>5, <2>1, <2>4
          DEF SessionRight, InPlace, ByProcess, Unwritten, E!Active, AnswersRead,
              E!Kinds
<1> QED BY <1>4, <1>5

\* An answer goes to the end of the buffer.
LEMMA EchoLineStep ==
  ASSUME E!EchoServerAssumption, EchoTypeOK, NEW c \in Clients, E!Echo(c),
         NEW d \in Clients, SessionRight(d)
  PROVE  SessionRight(d)'
<1>1. /\ E!Active(c) /\ line[c] = "echo" /\ line' = [line EXCEPT ![c] = "none"]
      /\ UNCHANGED <<at, served, conn, sent, session, ended, received, open, child>>
  BY DEF E!Echo
<1> DEFINE more == Append(buffered[E!Home(c)][c], sent[c])
<1>2. \A q \in E!EchoProcesses, x \in Clients :
        buffered'[q][x] = IF q = E!Home(c) /\ x = c THEN more ELSE buffered[q][x]
  <2>1. E!Home(c) \in E!EchoProcesses /\ more \in Seq(Nat)
    BY DEF E!Home, E!EchoProcesses, EchoTypeOK
  <2>2. buffered' = [buffered EXCEPT ![E!Home(c)][c] = more]
    BY DEF E!Echo
  <2> HIDE DEF more
  <2> QED BY <2>1, <2>2, BufferedTwice
<1> HIDE DEF more
<1>3. CASE d # c
  BY <1>1, <1>2, <1>3, Bystander DEF EchoTypeOK
<1>4. CASE d = c
  <2>1. /\ session[d] \in E!Kinds /\ d \notin ended /\ E!Home(d) \in E!EchoProcesses
        /\ E!Home(d)' = E!Home(d)
    BY <1>1, <1>4 DEF E!Active, E!Home, E!EchoProcesses
  <2>2. line'[d] = "none"
    BY <1>1, <1>4 DEF EchoTypeOK
  <2>3. buffered'[E!Home(d)][d] = UpTo(sent[d])
    <3>1. sent[d] \in Nat /\ sent[d] >= 1
          /\ buffered[E!Home(d)][d] = UpTo(sent[d] - 1)
      BY <1>1, <1>4 DEF SessionRight, Unwritten, EchoTypeOK
    <3>2. Append(UpTo(sent[d] - 1), (sent[d] - 1) + 1) = UpTo((sent[d] - 1) + 1)
      <4>1. sent[d] - 1 \in Nat
        BY <3>1
      <4> QED BY <4>1, Counted
    <3>3. (sent[d] - 1) + 1 = sent[d]
      BY <3>1
    <3>4. buffered'[E!Home(d)][d] = more
      BY <1>2, <1>4, <2>1
    <3> QED BY <1>4, <3>1, <3>2, <3>3, <3>4 DEF more
  <2>4. Unwritten(d)'
    BY <1>1, <2>1, <2>2, <2>3 DEF Unwritten
  <2>5. NotServed(d)'
    BY <1>1, <2>1 DEF SessionRight, NotServed, E!Kinds
  <2>6. InPlace(d)'
    <3>1. session[d] = "single" => E!Home(d) = Server
      BY DEF E!Home
    <3>2. Server \notin Clients
      BY DEF E!EchoServerAssumption
    <3> QED
      BY <1>1, <1>2, <1>4, <2>1, <3>1, <3>2 DEF SessionRight, InPlace, E!EchoProcesses
  <2>7. ByProcess(d)'
    <3>1. session[d] = "process" => E!Home(d) = d
      BY DEF E!Home
    <3> QED
      BY <1>1, <1>2, <1>4, <2>1, <3>1 DEF SessionRight, ByProcess, E!EchoProcesses
  <2>8. AnswersRead(d)'
    BY <1>1, <2>1 DEF SessionRight, AnswersRead, E!Answers
  <2> QED BY <2>4, <2>5, <2>6, <2>7, <2>8 DEF SessionRight
<1> QED BY <1>3, <1>4

\* A session in the first process ends: its answers are written after what
\* is there, and its connection closed.
LEMMA QuitHere ==
  ASSUME E!EchoServerAssumption, EchoTypeOK, ServerServes, NEW c \in Clients,
         E!Quit(c),
         session[c] # "process", NEW d \in Clients, SessionRight(c), SessionRight(d)
  PROVE  SessionRight(d)'
<1>1. /\ E!Active(c) /\ line[c] = "quit" /\ line' = [line EXCEPT ![c] = "none"]
      /\ ended' = ended \cup {c}
      /\ received' = [received EXCEPT ![c] = @ \o buffered[Server][c]]
      /\ buffered' = [buffered EXCEPT ![Server][c] = <<>>]
      /\ open' = [open EXCEPT ![Server] = @ \ {c}]
      /\ at' = IF session[c] = "single" THEN "reap" ELSE at
      /\ UNCHANGED <<served, conn, sent, session, child>>
  BY DEF E!Quit
<1>2. /\ session[c] \in {"single", "thread"} /\ c \notin ended /\ E!Home(c) = Server
      /\ at # "exited" /\ Server \in E!EchoProcesses /\ Server \notin Clients
  BY <1>1
     DEF E!Active, E!Home, E!Kinds, E!Runs, E!EchoProcesses, E!EchoServerAssumption
<1>3. \A q \in E!EchoProcesses, x \in Clients :
        buffered'[q][x] = IF q = Server /\ x = c THEN <<>> ELSE buffered[q][x]
  <2>1. <<>> \in Seq(Nat)
    OBVIOUS
  <2>2. buffered' = [buffered EXCEPT ![Server][c] = <<>>]
    BY <1>1
  <2>3. Server \in E!EchoProcesses
    BY <1>2
  <2>4. \A q \in E!EchoProcesses, x \in Clients :
           buffered'[q][x] = IF q = Server /\ x = c THEN <<>> ELSE buffered[q][x]
    BY <2>1, <2>2, <2>3, BufferedTwice, Zenon
  <2> QED BY <2>4
<1>4. \A q \in E!EchoProcesses :
        d \in open'[q] <=> d \in open[q] /\ ~(q = Server /\ d = c)
  BY <1>1, <1>2 DEF EchoTypeOK
<1>5. session[c] = "single" => at = "single" /\ served = c
  BY <1>2 DEF SessionRight, InPlace
<1>6. CASE d # c
  <2>1. /\ line'[d] = line[d] /\ received'[d] = received[d]
        /\ (d \in ended' <=> d \in ended) /\ (at' = "exited" <=> at = "exited")
    BY <1>1, <1>2, <1>6 DEF EchoTypeOK
  <2>2. /\ at = "single" /\ served = d => at' = "single" /\ served' = d
        /\ at = "serve" /\ served = d => at' = "serve" /\ served' = d
    BY <1>1, <1>5, <1>6
  <2> QED BY <1>1, <1>3, <1>4, <1>6, <2>1, <2>2, Bystander
<1>7. CASE d = c
  <2>1. buffered[Server][d] = UpTo(sent[d]) /\ UpTo(sent[d]) = E!Answers(d)
        /\ E!Answers(d) \in Seq(Nat)
    <3>1. sent[d] \in Nat
      BY DEF EchoTypeOK
    <3> QED
      BY <1>1, <1>2, <1>7, <3>1, AnswersNumbered, Counted DEF SessionRight, Unwritten
  <2>2. received'[d] = received[d] \o E!Answers(d) /\ received[d] \in Seq(Nat)
    BY <1>1, <1>7, <2>1 DEF EchoTypeOK
  <2>3. E!Answers(d)' = E!Answers(d) /\ d \in ended' /\ session'[d] = session[d]
    BY <1>1, <1>7 DEF E!Answers
  <2>4. NotServed(d)'
    BY <1>1, <1>2, <1>7 DEF SessionRight, NotServed
  <2>5. InPlace(d)'
    BY <1>2, <1>3, <1>4, <1>7, <2>3 DEF SessionRight, InPlace, E!EchoProcesses
  <2>6. ByProcess(d)' /\ Unwritten(d)'
    BY <1>2, <1>7, <2>3 DEF ByProcess, Unwritten, E!Active
  <2>7. AnswersRead(d)'
    <3>1. CASE session[d] = "single"
      <4>1. received[d] = <<>>
        BY <1>2, <1>7, <3>1 DEF SessionRight, AnswersRead
      <4>2. received'[d] = E!Answers(d)
        BY <2>1, <2>2, <4>1, SeqJoined
      <4> QED BY <2>3, <3>1, <4>2 DEF AnswersRead, E!Kinds
    <3>2. CASE session[d] = "thread"
      <4>1. AnswersAt(received'[d], E!Answers(d))
        BY <2>1, <2>2, AnswersEnd
      <4> QED BY <1>2, <1>4, <1>7, <2>3, <3>2, <4>1 DEF AnswersRead, E!Kinds
    <3> QED BY <1>2, <1>7, <3>1, <3>2
  <2> QED BY <2>4, <2>5, <2>6, <2>7 DEF SessionRight
<1> QED BY <1>6, <1>7

\* A session by a process ends, and the process with it: its answers, and
\* copies of those of threads, are written.
LEMMA QuitProcess ==
  ASSUME E!EchoServerAssumption, EchoTypeOK, NEW c \in Clients, E!Quit(c),
         session[c] = "process", NEW d \in Clients, SessionRight(d)
  PROVE  SessionRight(d)'
<1>1. /\ E!Active(c) /\ line[c] = "quit" /\ line' = [line EXCEPT ![c] = "none"]
      /\ ended' = ended \cup {c}
      /\ E!ExitProcess(c) /\ child' = [child EXCEPT ![c] = "exited"]
      /\ UNCHANGED <<at, served, conn, sent, session>>
  BY DEF E!Quit
<1>2. c \in E!EchoProcesses /\ c # Server
  BY DEF E!EchoProcesses, E!EchoServerAssumption
<1>3. CASE d # c
  <2>1. line'[d] = line[d] /\ child'[d] = child[d] /\ (d \in ended' <=> d \in ended)
    BY <1>1, <1>3 DEF EchoTypeOK
  <2> QED BY <1>1, <1>2, <1>3, <2>1, Survivor
<1>4. CASE d = c
  <2>1. d \notin ended /\ E!Home(d) = d
    BY <1>1, <1>4 DEF E!Active, E!Home
  <2>2. /\ received'[d] = received[d] \o buffered[d][d]
        /\ \A q \in E!EchoProcesses :
             /\ buffered'[q][d] = IF q = d THEN <<>> ELSE buffered[q][d]
             /\ d \in open'[q] <=> q # d /\ d \in open[q]
    <3>1. d \in E!EchoProcesses /\ E!ExitProcess(d)
      BY <1>1, <1>2, <1>4
    <3> HIDE DEF E!ExitProcess
    <3> QED BY <3>1, EndOfProcess
  <2>3. buffered[d][d] = UpTo(sent[d]) /\ UpTo(sent[d]) = E!Answers(d)
        /\ E!Answers(d) \in Seq(Nat)
    <3>1. sent[d] \in Nat
      BY DEF EchoTypeOK
    <3> QED
      BY <1>1, <1>4, <2>1, <3>1, AnswersNumbered, Counted DEF SessionRight, Unwritten
  <2>4. received[d] = <<>>
    BY <1>4, <2>1 DEF SessionRight, AnswersRead
  <2>5. received'[d] = E!Answers(d)
    BY <2>2, <2>3, <2>4, SeqJoined
  <2>6. E!Answers(d)' = E!Answers(d) /\ d \in ended' /\ session'[d] = "process"
        /\ child'[d] = "exited"
    BY <1>1, <1>4 DEF E!Answers, EchoTypeOK
  <2>7. ByProcess(d)'
    BY <1>2, <1>4, <2>2, <2>6 DEF SessionRight, ByProcess, E!EchoProcesses
  <2>8. NotServed(d)'
    BY <1>1, <1>4, <2>6 DEF SessionRight, NotServed
  <2>9. InPlace(d)' /\ Unwritten(d)' /\ AnswersRead(d)'
    BY <2>5, <2>6 DEF InPlace, Unwritten, E!Active, AnswersRead, E!Kinds
  <2> QED BY <2>7, <2>8, <2>9 DEF SessionRight
<1> QED BY <1>3, <1>4

\* Each step leaves the server with the client that it serves.
LEMMA ServerServesOn ==
  ASSUME EchoTypeOK, ServerServes, \A c \in Clients : SessionRight(c),
         [E!Next]_(E!vars)
  PROVE  ServerServes'
<1>1. CASE \E c \in Clients : E!Accept(c)
  <2>1. PICK c \in Clients : E!Accept(c)
    BY <1>1
  <2>2. SessionRight(c)
    OBVIOUS
  <2>3. /\ conn[c] = "queued" /\ at' = "serve" /\ served' = c
        /\ conn' = [conn EXCEPT ![c] = "accepted"] /\ session' = session
    BY <2>1 DEF E!Accept
  <2>4. session[c] = "none" /\ conn'[c] = "accepted"
    BY <2>2, <2>3 DEF SessionRight, NotServed, EchoTypeOK
  <2> QED BY <2>3, <2>4 DEF ServerServes
<1>2. CASE E!Timeout \/ E!Reap
  BY <1>2 DEF E!Timeout, E!Reap, ServerServes
<1>3. CASE E!Begin
  <2>1. E!Command({"single", "thread"})
    BY <1>3 DEF E!Begin
  <2>2. /\ served \in Clients /\ served' = served /\ conn' = conn
        /\ served \notin ended /\ session[served] = "none"
    BY <2>1, CommandRead DEF SessionRight, NotServed
  <2>3. /\ session' = [session EXCEPT ![served] = line[served]]
        /\ at' = IF line[served] = "single" THEN "single" ELSE "reap"
        /\ ended' = ended
    BY <1>3 DEF E!Begin
  <2> QED BY <2>2, <2>3 DEF ServerServes, EchoTypeOK
<1>4. CASE E!Fork \/ E!Exit \/ E!NoCommand
  BY <1>4 DEF E!Fork, E!Exit, E!NoCommand, ServerServes
<1>5. CASE \E c \in Clients : E!Connect(c)
  BY <1>5 DEF E!Connect, ServerServes, EchoTypeOK
<1>6. CASE \E c \in Clients : E!Say(c) \/ E!Echo(c)
  BY <1>6 DEF E!Say, E!Echo, ServerServes
<1>7. CASE \E c \in Clients : E!Quit(c)
  <2>1. PICK c \in Clients : E!Quit(c)
    BY <1>7
  <2>2. /\ E!Active(c) /\ ended' = ended \cup {c}
        /\ at' = (IF session[c] = "single" THEN "reap" ELSE at)
        /\ UNCHANGED <<served, conn, sent, session>>
    BY <2>1 DEF E!Quit
  <2>3. session[c] # "none"
    BY <2>2 DEF E!Active, E!Kinds
  <2> QED BY <2>2, <2>3 DEF ServerServes
<1>8. CASE UNCHANGED E!vars
  BY <1>8 DEF ServerServes, E!vars, E!clientVars
<1> QED BY <1>1, <1>2, <1>3, <1>4, <1>5, <1>6, <1>7, <1>8
       DEF E!Next, E!server, E!client, E!cmd_single

\* The server starts with no client.
LEMMA EchoStart ==
  ASSUME E!Init
  PROVE  EchoInv
<1>1. EchoTypeOK
  <2>1. <<>> \in Seq(Nat)
    OBVIOUS
  <2> QED BY <2>1 DEF E!Init, EchoTypeOK, ClientLines
<1>2. ServerServes
  BY DEF E!Init, ServerServes
<1>3. ASSUME NEW c \in Clients PROVE SessionRight(c)
  BY
     DEF E!Init, SessionRight, NotServed, InPlace, ByProcess, Unwritten, E!Active,
         E!Kinds, AnswersRead
<1> QED BY <1>1, <1>2, <1>3 DEF EchoInv

\* Each step keeps the invariant.
LEMMA EchoStep ==
  ASSUME E!EchoServerAssumption, EchoInv, [E!Next]_(E!vars)
  PROVE  EchoInv'
<1>1. EchoTypeOK /\ ServerServes /\ \A c \in Clients : SessionRight(c)
  BY DEF EchoInv
<1>2. EchoTypeOK'
  BY <1>1, EchoServerTypes
<1>3. ServerServes'
  BY <1>1, ServerServesOn
<1>4. ASSUME NEW d \in Clients PROVE SessionRight(d)'
  <2>1. CASE \E c \in Clients : E!Accept(c)
    BY <1>1, <2>1, AcceptStep
  <2>2. CASE E!Timeout \/ E!Reap
    BY <1>1, <2>2, WaitStep
  <2>3. CASE E!Begin \/ E!NoCommand
    BY <1>1, <2>3, BeginStep
  <2>4. CASE E!Fork
    BY <1>1, <2>4, ForkStep
  <2>5. CASE E!Exit
    BY <1>1, <2>5, ExitStep
  <2>6. CASE \E c \in Clients : E!Connect(c)
    BY <1>1, <2>6, ConnectStep
  <2>7. CASE \E c \in Clients : E!Say(c)
    BY <1>1, <2>7, SayStep
  <2>8. CASE \E c \in Clients : E!Echo(c)
    BY <1>1, <2>8, EchoLineStep
  <2>9. CASE \E c \in Clients : E!Quit(c)
    BY <1>1, <2>9, QuitHere, QuitProcess
  <2>10. CASE UNCHANGED E!vars
    BY <1>1, <2>10, Bystander DEF E!vars, E!clientVars, E!dataVars
  <2> QED BY <2>1, <2>2, <2>3, <2>4, <2>5, <2>6, <2>7, <2>8, <2>9, <2>10
         DEF E!Next, E!server, E!client, E!cmd_single
<1> QED BY <1>2, <1>3, <1>4 DEF EchoInv

\* The invariant of the echo server holds throughout.
LEMMA EchoInvariant == ASSUME E!EchoServerAssumption PROVE E!Spec => []EchoInv
<1>1. E!Init => EchoInv
  BY EchoStart
<1>2. EchoInv /\ [E!Next]_(E!vars) => EchoInv'
  BY EchoStep
<1> QED BY <1>1, <1>2, PTL DEF E!Spec

\* The invariant gives what the echo server promises.
LEMMA EchoPromise == ASSUME E!EchoServerAssumption PROVE EchoInv => E!EchoSessions
<1> SUFFICES ASSUME EchoInv, NEW c \in Clients
             PROVE  /\ session[c] \in {"single", "process"} =>
                         received[c] = IF c \in ended THEN E!Answers(c) ELSE <<>>
                    /\ c \in ended =>
                         /\ AnswersAt(received[c], E!Answers(c))
                         /\ \A p \in E!EchoProcesses :
                              c \in open[p] => session[c] = "thread" /\ p # Server
  BY DEF E!EchoSessions, AnswersAt
<1>1. SessionRight(c) /\ EchoTypeOK
  BY DEF EchoInv
<1>2. session[c] \in {"single", "process"} =>
        received[c] = IF c \in ended THEN E!Answers(c) ELSE <<>>
  BY <1>1 DEF SessionRight, AnswersRead
<1>3. ASSUME c \in ended PROVE AnswersAt(received[c], E!Answers(c))
  <2>1. CASE session[c] = "thread"
    BY <1>1, <1>3, <2>1 DEF SessionRight, AnswersRead
  <2>2. CASE session[c] # "thread"
    <3>1. received[c] = E!Answers(c)
      BY <1>1, <1>2, <1>3, <2>2 DEF SessionRight, AnswersRead, E!Kinds
    <3>2. E!Answers(c) \in Seq(Nat) /\ <<>> \in Seq(Nat)
      <4>1. sent[c] \in Nat
        BY <1>1 DEF EchoTypeOK
      <4> QED BY <4>1, AnswersNumbered, Counted
    <3>3. <<>> \o E!Answers(c) = E!Answers(c)
      BY <3>2
    <3>4. AnswersAt(<<>> \o E!Answers(c), E!Answers(c))
      BY <3>2, AnswersEnd
    <3> QED BY <3>1, <3>3, <3>4
  <2> QED BY <2>1, <2>2
<1>4. ASSUME c \in ended, NEW p \in E!EchoProcesses, c \in open[p]
      PROVE  session[c] = "thread" /\ p # Server
  <2>1. session[c] \in E!Kinds
    BY <1>1, <1>4 DEF SessionRight, AnswersRead
  <2>2. session[c] # "single"
    BY <1>1, <1>4 DEF SessionRight, InPlace, E!EchoProcesses
  <2>3. session[c] # "process"
    BY <1>1, <1>4 DEF SessionRight, ByProcess
  <2> QED BY <1>1, <1>4, <2>1, <2>2, <2>3 DEF SessionRight, AnswersRead, E!Kinds
<1> QED BY <1>2, <1>3, <1>4

\* EchoSessions, for any clients and any number of lines: a client reads its
\* answers once and in order and then the end of the data, but for one
\* served by a thread, which reads them in one piece and may read some of
\* them again.
THEOREM EchoSessionsRight ==
  ASSUME E!EchoServerAssumption
  PROVE  E!Spec => []E!EchoSessions
BY EchoInvariant, EchoPromise, PTL

------------------------------------------------------------------------------
(* The shell: the list of its jobs, its directory and its output.          *)

\* The numbers and the finite sets of Shell are those of the proofs.
LEMMA ShellSizes ==
  /\ \A X : H!Cardinality(X) = Cardinality(X)
  /\ \A X : H!IsFiniteSet(X) <=> IsFiniteSet(X)
BY DEF H!Cardinality, Cardinality, H!IsFiniteSet, IsFiniteSet

\* The strings, with the slash by its name: the provers do not know that it
\* is one of them.
ShellWords == STRING \cup {"/"}

\* What pwd prints: lines, each of them a directory as a sequence of names.
ShellOutput == Seq(Seq(ShellWords))

\* A command has a word at least, its program.
ShellCommand == Seq(ShellWords) \ {<<>>}

\* A child, with the output it has in its memory.
ChildProcess == [program : ShellWords, buffered : ShellOutput]

\* The types of the shell.
ShellTypeOK ==
  /\ rest \in Seq(ShellWords)
  /\ tree \in Seq(ShellCommand)
  /\ pipeline \in [address : Nat, commands : Seq(ShellCommand)]
  /\ index \in Nat /\ index >= 1 /\ jobbed \in BOOLEAN
  /\ jobs \in Seq(Nat) /\ allocated \in SUBSET Nat
  /\ cwd \in Seq(ShellWords) /\ owd \in Seq(ShellWords) /\ dir \in Directories
  /\ terminal \in BOOLEAN /\ failed \in BOOLEAN
  /\ shown \in ShellOutput /\ unwritten \in ShellOutput /\ written \in ShellOutput
  /\ children \in Seq(ChildProcess)
  /\ shell_pc \in {"read", "parse", "execute", "exited"}

\* The list of jobs holds what is allocated, but for the pipeline that runs,
\* which is in the list if one of its commands has been forked.
JobsOwned ==
  shell_pc # "exited" =>
    /\ IsFiniteSet(allocated)
    /\ allocated = Range(jobs) \cup (IF shell_pc = "execute" THEN {pipeline.address} ELSE {})
    /\ Cardinality(Range(jobs)) = Len(jobs)
    /\ shell_pc = "execute" => (jobbed <=> pipeline.address \in Range(jobs))

\* On a terminal everything is written when it is printed, and no child has
\* any of it.
OnTerminal ==
  terminal =>
    /\ unwritten = <<>> /\ written = shown
    /\ \A k \in DOMAIN children : children[k].buffered = <<>>

\* To a file, what was printed is in the buffer until the shell exits, and
\* only a child that failed has written.
InBuffer ==
  ~terminal /\ shell_pc # "exited" => unwritten = shown /\ (~failed => written = <<>>)

\* When the shell has exited, what was printed is written, and in one piece.
AtExit ==
  ~terminal /\ shell_pc = "exited" =>
    /\ ~failed => written = shown
    /\ \E n \in 0..Len(written) - Len(shown) :
                                  SubSeq(written, n + 1, n + Len(shown)) = shown

\* The inductive invariant of the shell.
ShellInv == ShellTypeOK /\ JobsOwned /\ OnTerminal /\ InBuffer /\ AtExit /\ H!PwdRight

\* A set of natural numbers that is not empty has a least element.
LEMMA Least ==
  ASSUME NEW T, T \subseteq Nat, T # {}
  PROVE  \E x \in T : \A y \in T : x <= y
<1>1. PICK x \in T : \A y \in T : <<y, x>> \notin OpToRel(<, Nat)
  BY NatLessThanWellFounded, WFMin, Zenon
<1>2. \A y \in T : ~(y < x)
  BY <1>1 DEF OpToRel
<1> QED BY <1>2

\* Sequences that are joined.
LEMMA Joined ==
  ASSUME NEW T, NEW u \in Seq(T), NEW v \in Seq(T)
  PROVE  /\ u \o v \in Seq(T) /\ Len(u \o v) = Len(u) + Len(v)
         /\ Len(u) \in Nat /\ Len(v) \in Nat
         /\ u \o <<>> = u /\ <<>> \o v = v
OBVIOUS

\* An element at the end of a sequence.
LEMMA AppendTyped ==
  ASSUME NEW T, NEW u \in Seq(T), NEW x \in T
  PROVE  Append(u, x) \in Seq(T) /\ Append(u, x) = u \o <<x>> /\ <<x>> \in Seq(T)
OBVIOUS

\* A sequence of one element.
LEMMA Single ==
  ASSUME NEW T, NEW x \in T
  PROVE  <<x>> \in Seq(T)
OBVIOUS

\* A part of a sequence is one.
LEMMA CutOut ==
  ASSUME NEW T, NEW u \in Seq(T), NEW k \in Nat, NEW m \in Nat, k >= 1, m <= Len(u)
  PROVE  SubSeq(u, k, m) \in Seq(T)
OBVIOUS

\* p is somewhere in u.
PartOf(p, u) == \E k \in 0..Len(u) - Len(p) : SubSeq(u, k + 1, k + Len(p)) = p

\* What is somewhere in u is there when more is written.
LEMMA PartKept ==
  ASSUME NEW T, NEW u \in Seq(T), NEW v \in Seq(T), NEW p \in Seq(T), PartOf(p, u)
  PROVE  PartOf(p, u \o v)
<1>1. PICK k \in 0..Len(u) - Len(p) : SubSeq(u, k + 1, k + Len(p)) = p
  BY DEF PartOf
<1>2. k \in 0..Len(u \o v) - Len(p) /\ Len(u) \in Nat /\ Len(p) \in Nat
  BY Joined
<1>3. SubSeq(u \o v, k + 1, k + Len(p)) = SubSeq(u, k + 1, k + Len(p))
  BY <1>2
<1> QED BY <1>1, <1>2, <1>3 DEF PartOf

\* What is written last is there.
LEMMA PartAtEnd ==
  ASSUME NEW T, NEW u \in Seq(T), NEW p \in Seq(T)
  PROVE  PartOf(p, u \o p)
<1>1. Len(u) \in 0..Len(u \o p) - Len(p)
  BY Joined
<1>2. SubSeq(u \o p, Len(u) + 1, Len(u) + Len(p)) = p
  OBVIOUS
<1> QED BY <1>1, <1>2 DEF PartOf

\* The elements of a sequence with one more.
LEMMA RangeAppended ==
  ASSUME NEW T, NEW u \in Seq(T), NEW x \in T
  PROVE  Range(Append(u, x)) = Range(u) \cup {x}
<1> DEFINE w == Append(u, x)
<1>1. /\ DOMAIN w = 1..Len(u) + 1 /\ DOMAIN u = 1..Len(u) /\ Len(u) \in Nat
      /\ \A k \in 1..Len(u) : w[k] = u[k]
      /\ w[Len(u) + 1] = x
  OBVIOUS
<1> HIDE DEF w
<1>2. 1..Len(u) + 1 = 1..Len(u) \cup {Len(u) + 1}
  BY <1>1
<1>3. \A y \in Range(w) : y \in Range(u) \cup {x}
  BY <1>1, <1>2 DEF Range
<1>4. \A y \in Range(u) : y \in Range(w)
  BY <1>1, <1>2 DEF Range
<1>5. x \in Range(w)
  BY <1>1, <1>2 DEF Range
<1>6. Range(w) = Range(u) \cup {x}
  BY <1>3, <1>4, <1>5
<1> QED BY <1>6 DEF w

\* There is an address that is free: no set of n addresses holds those from
\* 1 to n + 1.
LEMMA FreeAddress ==
  ASSUME NEW X \in SUBSET Nat, IsFiniteSet(X)
  PROVE  \E x \in 1..Cardinality(X) + 1 : x \notin X
<1>1. Cardinality(X) \in Nat
  BY FS_CardinalityType
<1> SUFFICES ASSUME 1..Cardinality(X) + 1 \subseteq X PROVE FALSE
  OBVIOUS
<1>2. Cardinality(1..Cardinality(X) + 1) = Cardinality(X) + 1
  BY <1>1, FS_Interval
<1>3. Cardinality(1..Cardinality(X) + 1) <= Cardinality(X)
  BY FS_Subset
<1> QED BY <1>1, <1>2, <1>3

\* A command ends before the next operator or at the end of the line, so
\* that the length of one is found.
LEMMA WordsFound ==
  ASSUME NEW words \in Seq(ShellWords), words # <<>>
  PROVE  H!WordsLength(words) \in 1..Len(words)
<1> DEFINE Ends == {k \in 2..Len(words) : words[k] \in H!Operators} \cup {Len(words) + 1}
<1>1. Len(words) \in Nat /\ Len(words) >= 1
  OBVIOUS
<1>2. PICK m \in Ends : \A k \in Ends : m <= k
  <2>1. Ends \subseteq Nat /\ Ends # {}
    BY <1>1
  <2> HIDE DEF Ends
  <2> QED BY <2>1, Least
<1>3. m \in Nat /\ m >= 2 /\ m <= Len(words) + 1
  BY <1>1
<1>4. m <= Len(words) => words[m] \in H!Operators
  BY <1>1, <1>3
<1>5. \A k \in 2..Len(words) : k < m => words[k] \notin H!Operators
  BY <1>1, <1>2, <1>3
<1> HIDE DEF Ends
<1>6. m - 1 \in 1..Len(words)
      /\ (m - 1 < Len(words) => words[(m - 1) + 1] \in H!Operators)
  BY <1>1, <1>3, <1>4
<1>7. \A k \in 2..m - 1 : words[k] \notin H!Operators
  BY <1>1, <1>3, <1>5
<1>8. \E n \in 1..Len(words) :
        /\ n < Len(words) => words[n + 1] \in H!Operators
        /\ \A k \in 2..n : words[k] \notin H!Operators
  BY <1>6, <1>7
<1> QED BY <1>8 DEF H!WordsLength

\* What is left of a line without its operator is a line.
LEMMA Eaten ==
  ASSUME NEW words \in Seq(ShellWords), NEW x
  PROVE  H!Eat(words, x) \in Seq(ShellWords)
<1>1. CASE words # <<>> /\ Head(words) = x
  <2>1. Tail(words) \in Seq(ShellWords)
    BY <1>1
  <2> QED BY <1>1, <2>1 DEF H!Eat
<1>2. CASE ~(words # <<>> /\ Head(words) = x)
  BY <1>2 DEF H!Eat
<1> QED BY <1>1, <1>2

\* A sequence without one of its elements is one.
LEMMA RemovedOne ==
  ASSUME NEW T, NEW u \in Seq(T), NEW k \in DOMAIN u
  PROVE  H!RemoveAt(u, k) \in Seq(T)
<1>1. SubSeq(u, 1, k - 1) \in Seq(T) /\ SubSeq(u, k + 1, Len(u)) \in Seq(T)
  OBVIOUS
<1> QED BY <1>1, Joined DEF H!RemoveAt

\* The command that is executed has a first word.
LEMMA ArgvTyped ==
  ASSUME ShellTypeOK, H!Executing
  PROVE  /\ H!argv \in ShellCommand /\ Len(H!argv) \in Nat
            /\ Head(H!argv) \in ShellWords
         /\ H!Arguments(1) => H!argv[2] \in ShellWords
<1>1. H!argv \in ShellCommand
  BY DEF ShellTypeOK, H!Executing, H!argv
<1> HIDE DEF H!argv
<1> QED BY <1>1 DEF ShellCommand, H!Arguments

\* exit() leaves the output a sequence of lines.
LEMMA ExitTyped ==
  ASSUME ShellTypeOK, H!ExitShell
  PROVE  written' \in ShellOutput /\ unwritten' \in ShellOutput
         /\ shell_pc' = "exited"
BY Joined DEF ShellTypeOK, H!ExitShell, ShellOutput

\* A pipeline has an address and commands.
LEMMA PipelineTyped ==
  ASSUME NEW x \in Nat, NEW commands \in Seq(ShellCommand)
  PROVE  [address |-> x, commands |-> commands] \in [address : Nat, commands : Seq(ShellCommand)]
OBVIOUS

\* i_sequence gives the pipeline an address that was free.
LEMMA SequenceRun ==
  ASSUME ShellTypeOK, JobsOwned, shell_pc # "exited", NEW commands,
         H!i_sequence(commands)
  PROVE  \E x \in Nat \ allocated :
           /\ pipeline' = [address |-> x, commands |-> commands]
           /\ allocated' = allocated \cup {x}
           /\ index' = 1 /\ jobbed' = FALSE /\ shell_pc' = "execute"
           /\ UNCHANGED <<eof, jobs>>
<1> DEFINE address == CHOOSE a \in 1..Cardinality(allocated) + 1 : a \notin allocated
<1>1. allocated \in SUBSET Nat /\ IsFiniteSet(allocated)
  BY DEF ShellTypeOK, JobsOwned
<1>2. Cardinality(allocated) \in Nat
  BY <1>1, FS_CardinalityType
<1>3. address \in 1..Cardinality(allocated) + 1 /\ address \notin allocated
  BY <1>1, FreeAddress
<1>4. address \in Nat \ allocated
  BY <1>2, <1>3
<1>5. /\ pipeline' = [address |-> address, commands |-> commands]
      /\ allocated' = allocated \cup {address}
      /\ index' = 1 /\ jobbed' = FALSE /\ shell_pc' = "execute"
      /\ UNCHANGED <<eof, jobs>>
  BY ShellSizes DEF H!i_sequence
<1> HIDE DEF address
<1> QED BY <1>4, <1>5

\* The parser keeps the types.
LEMMA ParseTyped ==
  ASSUME ShellTypeOK, JobsOwned, H!p_pipeline
  PROVE  ShellTypeOK'
<1> DEFINE len == H!WordsLength(rest)
           commands == Append(tree, SubSeq(rest, 1, len))
           after == SubSeq(rest, len + 1, Len(rest))
           following == H!Eat(after, "|")
<1>1. rest \in Seq(ShellWords) /\ rest # <<>> /\ len \in 1..Len(rest)
  BY WordsFound DEF H!p_pipeline, ShellTypeOK
<1>2. commands \in Seq(ShellCommand)
  <2>1. SubSeq(rest, 1, len) \in ShellCommand
    BY <1>1, CutOut DEF ShellCommand
  <2> HIDE DEF len
  <2> QED BY <2>1 DEF ShellTypeOK
<1>3. following \in Seq(ShellWords)
      /\ H!Eat(H!Eat(following, "&"), ";") \in Seq(ShellWords)
  <2>1. after \in Seq(ShellWords)
    BY <1>1
  <2> QED BY <2>1, Eaten
<1>4. CASE following # after /\ following # <<>>
  <2>1. /\ tree' = commands /\ rest' = following /\ UNCHANGED <<H!runVars, shell_pc>>
        /\ UNCHANGED <<H!cdVars, H!outVars>>
    BY <1>4 DEF H!p_pipeline
  <2> HIDE DEF commands, following
  <2> QED BY <2>1, <1>2, <1>3 DEF ShellTypeOK, H!runVars, H!cdVars, H!outVars
<1>5. CASE ~(following # after /\ following # <<>>)
  <2>1. /\ tree' = <<>> /\ rest' = H!Eat(H!Eat(following, "&"), ";")
           /\ H!i_sequence(commands)
        /\ UNCHANGED <<H!cdVars, H!outVars>>
    BY <1>5 DEF H!p_pipeline
  <2> HIDE DEF commands, following, len, after
  <2>2. PICK x \in Nat \ allocated :
                         /\ pipeline' = [address |-> x, commands |-> commands]
                         /\ allocated' = allocated \cup {x}
                         /\ index' = 1 /\ jobbed' = FALSE /\ shell_pc' = "execute"
                         /\ UNCHANGED <<eof, jobs>>
    BY <2>1, SequenceRun DEF H!p_pipeline
  <2>3. pipeline' \in [address : Nat, commands : Seq(ShellCommand)]
    <3>1. pipeline' = [address |-> x, commands |-> commands] /\ x \in Nat
      BY <2>2
    <3>2. [address |-> x, commands |-> commands] \in [address : Nat, commands : Seq(ShellCommand)]
      BY <3>1, <1>2, PipelineTyped
    <3> QED BY <3>1, <3>2, Zenon
  <2>4. allocated' \in SUBSET Nat
    BY <2>2 DEF ShellTypeOK
  <2>5. tree' \in Seq(ShellCommand) /\ rest' \in Seq(ShellWords)
    <3>1. tree' = <<>>
      BY <2>1
    <3>2. tree' \in Seq(ShellCommand)
      BY <3>1
    <3> QED BY <2>1, <1>3, <3>2
  <2>6. index' \in Nat /\ index' >= 1 /\ jobbed' \in BOOLEAN /\ jobs' \in Seq(Nat)
        /\ shell_pc' = "execute"
    <3>1. jobs \in Seq(Nat)
      BY DEF ShellTypeOK
    <3>2. index' = 1 /\ jobbed' = FALSE /\ shell_pc' = "execute" /\ jobs' = jobs
      BY <2>2
    <3>3. index' \in Nat /\ index' >= 1
      BY <3>2
    <3>4. jobbed' \in BOOLEAN
      BY <3>2
    <3> QED BY <3>1, <3>2, <3>3, <3>4
  <2> QED BY <2>1, <2>3, <2>4, <2>5, <2>6 DEF ShellTypeOK, H!cdVars, H!outVars
<1> QED BY <1>4, <1>5

\* A fork keeps the types.
LEMMA ForkTyped ==
  ASSUME ShellTypeOK, H!Fork
  PROVE  ShellTypeOK'
<1>1. Head(H!argv) \in ShellWords
  BY ArgvTyped DEF H!Fork
<1>2. [program |-> Head(H!argv), buffered |-> unwritten] \in ChildProcess
  BY <1>1 DEF ShellTypeOK, ChildProcess
<1>3. children' \in Seq(ChildProcess)
  BY <1>2 DEF H!Fork, ShellTypeOK
<1>4. jobs' \in Seq(Nat)
  BY DEF H!Fork, ShellTypeOK
<1> HIDE DEF H!argv
<1> QED BY <1>3, <1>4 DEF H!Fork, ShellTypeOK, H!treeVars, H!cdVars

\* pwd keeps the types.
LEMMA PwdTyped ==
  ASSUME H!ShellAssumption, ShellTypeOK, H!bi_pwd
  PROVE  ShellTypeOK'
<1>1. dir \in Seq(ShellWords)
  BY DEF ShellTypeOK, H!ShellAssumption, ShellWords
<1>2. H!Absolute(dir) \in Seq(ShellWords)
  <2>1. "/" \in ShellWords
    BY DEF ShellWords
  <2>2. <<"/">> \in Seq(ShellWords)
    BY <2>1, Single, Zenon
  <2> QED BY <1>1, <2>2, Joined DEF H!Absolute
<1>3. cwd' \in Seq(ShellWords)
  BY <1>2 DEF H!bi_pwd, ShellTypeOK
<1>4. shown' \in ShellOutput /\ unwritten' \in ShellOutput /\ written' \in ShellOutput
  <2>1. /\ shown' = Append(shown, cwd')
        /\ \/ written' = Append(written, cwd') /\ unwritten' = unwritten
           \/ unwritten' = Append(unwritten, cwd') /\ written' = written
    BY DEF H!bi_pwd
  <2>2. \A u \in ShellOutput : Append(u, cwd') \in ShellOutput
    BY <1>3, AppendTyped DEF ShellOutput
  <2> QED BY <2>1, <2>2 DEF ShellTypeOK
<1> QED BY <1>3, <1>4 DEF H!bi_pwd, ShellTypeOK, H!treeVars

\* cd keeps the types: the shell is in a directory that exists.
LEMMA CdTyped ==
  ASSUME ShellTypeOK, H!bi_cd
  PROVE  ShellTypeOK'
<1>1. H!argv[2] \in ShellWords
  BY ArgvTyped DEF H!bi_cd, H!Builtin
<1> HIDE DEF H!argv
<1>2. cwd' \in Seq(ShellWords) /\ owd' \in Seq(ShellWords)
  <2>1. <<H!argv[2]>> \in Seq(ShellWords)
    BY <1>1
  <2>2. \/ cwd' = owd /\ owd' = cwd
        \/ cwd' = <<H!argv[2]>> /\ owd' = cwd
    BY DEF H!bi_cd
  <2> QED BY <2>1, <2>2 DEF ShellTypeOK
<1>3. /\ dir' \in Directories /\ written' \in ShellOutput
         /\ unwritten' \in ShellOutput
      /\ index' \in Nat /\ index' >= 1
      /\ shell_pc' \in {"read", "parse", "execute", "exited"}
  <2>1. CASE cwd' # <<>> /\ H!Resolve(cwd') \notin Directories
    BY <2>1, ExitTyped DEF H!bi_cd, ShellTypeOK
  <2>2. CASE ~(cwd' # <<>> /\ H!Resolve(cwd') \notin Directories)
    <3>1. /\ dir' = IF cwd' # <<>> THEN H!Resolve(cwd') ELSE dir
          /\ index' = index + 1
          /\ UNCHANGED <<written, unwritten, shell_pc>>
      BY <2>2 DEF H!bi_cd
    <3> QED BY <2>2, <3>1 DEF ShellTypeOK
  <2> QED BY <2>1, <2>2
<1>4. UNCHANGED <<H!treeVars, pipeline, jobbed, eof, jobs, allocated,
                 terminal, shown, children, failed>>
  BY DEF H!bi_cd
<1> QED BY <1>2, <1>3, <1>4 DEF ShellTypeOK, H!treeVars

\* The end of a child keeps the types.
LEMMA ExecTyped ==
  ASSUME ShellTypeOK, H!ExecProgram
  PROVE  ShellTypeOK'
<1>1. PICK k \in DOMAIN children :
    /\ children' = H!RemoveAt(children, k)
    /\ IF children[k].program = "run"
       THEN UNCHANGED <<written, failed>>
       ELSE /\ written' = written \o children[k].buffered
            /\ failed' = TRUE
    /\ UNCHANGED <<H!treeVars, H!runVars, H!cdVars, terminal, shown, unwritten,
                   shell_pc>>
  BY DEF H!ExecProgram
<1>2. children' \in Seq(ChildProcess)
  BY <1>1, RemovedOne DEF ShellTypeOK
<1>3. written' \in ShellOutput /\ failed' \in BOOLEAN
  <2>1. children[k].buffered \in ShellOutput
    <3>1. children[k] \in ChildProcess
      BY <1>1 DEF ShellTypeOK
    <3> QED BY <3>1 DEF ChildProcess
  <2>2. written \in ShellOutput /\ failed \in BOOLEAN
    BY DEF ShellTypeOK
  <2>3. written \o children[k].buffered \in ShellOutput
    BY <2>1, <2>2, Joined DEF ShellOutput
  <2> QED BY <1>1, <2>2, <2>3
<1> QED BY <1>1, <1>2, <1>3 DEF ShellTypeOK, H!treeVars, H!runVars, H!cdVars

\* Each step keeps the types.
LEMMA ShellTypes ==
  ASSUME H!ShellAssumption, ShellTypeOK, JobsOwned, [H!Next]_(H!vars)
  PROVE  ShellTypeOK'
<1>1. CASE H!ReadLine
  <2>1. rest' \in Seq(STRING) /\ rest' \in Seq(ShellWords)
    BY <1>1 DEF H!ReadLine, H!ShellAssumption, ShellWords
  <2> QED BY <1>1, <2>1 DEF H!ReadLine, ShellTypeOK, H!runVars, H!cdVars, H!outVars
<1>2. CASE H!EndOfInput \/ H!bi_error
  <2>1. H!ExitShell
    BY <1>2 DEF H!EndOfInput, H!bi_error
  <2> QED BY <1>2, <2>1, ExitTyped
        DEF H!EndOfInput, H!bi_error, ShellTypeOK, H!treeVars, H!runVars, H!cdVars
<1>3. CASE H!EndOfLine
  <2>1. /\ UNCHANGED <<H!treeVars, H!runVars, H!cdVars, terminal, shown, children,
                       failed>>
        /\ H!ExitShell \/ (shell_pc' = "read" /\ UNCHANGED <<written, unwritten>>)
    BY <1>3 DEF H!EndOfLine
  <2>2. written' \in ShellOutput /\ unwritten' \in ShellOutput
        /\ shell_pc' \in {"read", "parse", "execute", "exited"}
    BY <2>1, ExitTyped DEF ShellTypeOK
  <2> QED BY <2>1, <2>2 DEF ShellTypeOK, H!treeVars, H!runVars, H!cdVars
<1>4. CASE H!p_pipeline
  BY <1>4, ParseTyped
<1>5. CASE H!bi_exit
  BY <1>5 DEF H!bi_exit, ShellTypeOK, H!treeVars, H!cdVars, H!outVars
<1>6. CASE H!bi_pwd
  BY <1>6, PwdTyped
<1>7. CASE H!bi_cd
  BY <1>7, CdTyped
<1>8. CASE H!Fork
  BY <1>8, ForkTyped
<1>9. CASE H!EndPipeline
  BY <1>9 DEF H!EndPipeline, ShellTypeOK, H!treeVars, H!cdVars, H!outVars
<1>10. CASE H!ExecProgram
  BY <1>10, ExecTyped
<1>11. CASE UNCHANGED H!vars
  BY <1>11 DEF ShellTypeOK, H!vars, H!treeVars, H!runVars, H!cdVars, H!outVars
<1> QED
  BY <1>1, <1>2, <1>3, <1>4, <1>5, <1>6, <1>7, <1>8, <1>9, <1>10, <1>11 DEF H!Next

\* Each step leaves cwd the name of the directory the shell is in, or a
\* relative name, or none.
LEMMA PwdStep ==
  ASSUME H!ShellAssumption, ShellTypeOK, H!PwdRight, [H!Next]_(H!vars)
  PROVE  H!PwdRight'
<1>1. CASE H!EndOfInput \/ H!bi_error
  BY <1>1 DEF H!EndOfInput, H!bi_error, H!ExitShell, H!PwdRight
<1>2. CASE H!bi_pwd
  <2>1. dir \in Seq(ShellWords)
    BY DEF ShellTypeOK, H!ShellAssumption, ShellWords
  <2>2. <<"/">> \o dir # <<>> /\ Tail(<<"/">> \o dir) = dir
    BY <2>1
  <2>3. cwd' = (IF cwd = <<>> THEN <<"/">> \o dir ELSE cwd) /\ dir' = dir
        /\ shell_pc' = shell_pc /\ shell_pc = "execute"
    BY <1>2 DEF H!bi_pwd, H!Absolute, H!Builtin, H!Executing
  <2> QED BY <2>2, <2>3 DEF H!PwdRight
<1>3. CASE H!bi_cd
  <2>1. shell_pc = "execute"
    BY <1>3 DEF H!bi_cd, H!Builtin, H!Executing
  <2>2. CASE cwd' # <<>> /\ H!Resolve(cwd') \notin Directories
    BY <1>3, <2>2 DEF H!bi_cd, H!ExitShell, H!PwdRight
  <2>3. CASE ~(cwd' # <<>> /\ H!Resolve(cwd') \notin Directories)
    <3>1. dir' = (IF cwd' # <<>> THEN H!Resolve(cwd') ELSE dir)
      BY <1>3, <2>3 DEF H!bi_cd
    <3> QED BY <3>1 DEF H!PwdRight, H!Resolve
  <2> QED BY <2>2, <2>3
<1>4. CASE H!EndOfLine
  <2>1. UNCHANGED H!cdVars /\ shell_pc = "parse"
    BY <1>4 DEF H!EndOfLine
  <2> QED BY <2>1 DEF H!PwdRight, H!cdVars
<1>5. CASE H!ReadLine
  BY <1>5 DEF H!ReadLine, H!PwdRight, H!cdVars
<1>6. CASE H!p_pipeline
  BY <1>6 DEF H!p_pipeline, H!PwdRight, H!cdVars
<1>7. CASE H!bi_exit
  BY <1>7 DEF H!bi_exit, H!PwdRight, H!cdVars
<1>8. CASE H!Fork
  BY <1>8 DEF H!Fork, H!PwdRight, H!cdVars
<1>9. CASE H!EndPipeline
  BY <1>9 DEF H!EndPipeline, H!PwdRight, H!cdVars
<1>10. CASE H!ExecProgram
  BY <1>10 DEF H!ExecProgram, H!PwdRight, H!cdVars
<1>11. CASE UNCHANGED H!vars
  BY <1>11 DEF H!vars, H!PwdRight, H!cdVars
<1> QED
  BY <1>1, <1>2, <1>3, <1>4, <1>5, <1>6, <1>7, <1>8, <1>9, <1>10, <1>11 DEF H!Next

\* Each step keeps the list of jobs and the memory together.
LEMMA JobsStep ==
  ASSUME ShellTypeOK, JobsOwned, [H!Next]_(H!vars)
  PROVE  JobsOwned'
<1>1. CASE H!EndOfInput \/ H!bi_error
  BY <1>1 DEF H!EndOfInput, H!bi_error, H!ExitShell, JobsOwned
<1>2. CASE H!bi_cd
  <2>1. /\ UNCHANGED <<pipeline, jobbed, jobs, allocated>>
        /\ shell_pc' = "exited" \/ shell_pc' = shell_pc
    BY <1>2 DEF H!bi_cd, H!ExitShell
  <2> QED BY <2>1 DEF JobsOwned
<1>3. CASE H!EndOfLine
  <2>1. /\ UNCHANGED <<pipeline, jobbed, jobs, allocated>> /\ shell_pc = "parse"
        /\ shell_pc' = "exited" \/ shell_pc' = "read"
    BY <1>3 DEF H!EndOfLine, H!ExitShell, H!runVars
  <2> QED BY <2>1 DEF JobsOwned
<1>4. CASE H!ReadLine
  BY <1>4 DEF H!ReadLine, JobsOwned, H!runVars
<1>5. CASE H!p_pipeline
  <2> DEFINE len == H!WordsLength(rest)
             commands == Append(tree, SubSeq(rest, 1, len))
             after == SubSeq(rest, len + 1, Len(rest))
             following == H!Eat(after, "|")
  <2>1. shell_pc = "parse"
    BY <1>5 DEF H!p_pipeline
  <2>2. UNCHANGED <<H!runVars, shell_pc>> \/ H!i_sequence(commands)
    BY <1>5 DEF H!p_pipeline
  <2> HIDE DEF commands
  <2>3. CASE UNCHANGED <<H!runVars, shell_pc>>
    BY <2>3 DEF JobsOwned, H!runVars
  <2>4. CASE H!i_sequence(commands)
    <3>1. PICK x \in Nat \ allocated :
            /\ pipeline' = [address |-> x, commands |-> commands]
            /\ allocated' = allocated \cup {x}
            /\ index' = 1 /\ jobbed' = FALSE /\ shell_pc' = "execute"
            /\ UNCHANGED <<eof, jobs>>
      BY <2>1, <2>4, SequenceRun
    <3>2. pipeline'.address = x
      BY <3>1
    <3>3. IsFiniteSet(allocated') /\ allocated = Range(jobs)
      BY <2>1, <3>1, FS_AddElement DEF JobsOwned
    <3> QED BY <2>1, <3>1, <3>2, <3>3 DEF JobsOwned
  <2> QED BY <2>2, <2>3, <2>4
<1>6. CASE H!bi_exit
  BY <1>6 DEF H!bi_exit, JobsOwned
<1>7. CASE H!bi_pwd
  BY <1>7 DEF H!bi_pwd, JobsOwned
<1>8. CASE H!Fork
  <2>1. /\ shell_pc = "execute" /\ shell_pc' = shell_pc /\ jobbed'
        /\ jobs' = IF jobbed THEN jobs ELSE Append(jobs, pipeline.address)
        /\ UNCHANGED <<pipeline, allocated>>
    BY <1>8 DEF H!Fork, H!Executing
  <2>2. CASE jobbed
    BY <2>1, <2>2 DEF JobsOwned
  <2>3. CASE ~jobbed
    <3>1. pipeline.address \in Nat /\ jobs \in Seq(Nat)
      BY DEF ShellTypeOK
    <3>2. jobs' = Append(jobs, pipeline.address)
      BY <2>1, <2>3
    <3>3. Range(jobs') = Range(jobs) \cup {pipeline.address}
          /\ Len(jobs') = Len(jobs) + 1
      BY <3>1, <3>2, RangeAppended
    <3>4. pipeline.address \notin Range(jobs) /\ IsFiniteSet(Range(jobs))
      <4>1. IsFiniteSet(allocated) /\ Range(jobs) \in SUBSET allocated
        BY <2>1 DEF JobsOwned
      <4> QED BY <2>1, <2>3, <4>1, FS_Subset DEF JobsOwned
    <3>5. Cardinality(Range(jobs')) = Cardinality(Range(jobs)) + 1
      BY <3>3, <3>4, FS_AddElement
    <3> QED BY <2>1, <3>3, <3>5 DEF JobsOwned
  <2> QED BY <2>2, <2>3
<1>9. CASE H!EndPipeline
  <2>1. /\ shell_pc = "execute" /\ shell_pc' = "parse" /\ UNCHANGED jobs
        /\ allocated' = IF jobbed THEN allocated ELSE allocated \ {pipeline.address}
    BY <1>9 DEF H!EndPipeline
  <2>2. IsFiniteSet(allocated')
    <3>1. IsFiniteSet(allocated)
      BY <2>1 DEF JobsOwned
    <3> QED BY <2>1, <3>1, FS_RemoveElement
  <2>3. allocated' = Range(jobs')
    BY <2>1 DEF JobsOwned
  <2>4. Cardinality(Range(jobs')) = Len(jobs')
    BY <2>1 DEF JobsOwned
  <2> QED BY <2>1, <2>2, <2>3, <2>4 DEF JobsOwned
<1>10. CASE H!ExecProgram
  BY <1>10 DEF H!ExecProgram, JobsOwned, H!runVars
<1>11. CASE UNCHANGED H!vars
  BY <1>11 DEF H!vars, JobsOwned, H!runVars
<1> QED
  BY <1>1, <1>2, <1>3, <1>4, <1>5, <1>6, <1>7, <1>8, <1>9, <1>10, <1>11 DEF H!Next

\* The parts of the invariant that are about the output.
OutputInv == OnTerminal /\ InBuffer /\ AtExit

\* What is written, printed and kept are lines.
LEMMA OutputTyped ==
  ASSUME ShellTypeOK
  PROVE  /\ shown \in Seq(Seq(ShellWords)) /\ unwritten \in Seq(Seq(ShellWords))
         /\ written \in Seq(Seq(ShellWords)) /\ terminal \in BOOLEAN
            /\ failed \in BOOLEAN
         /\ DOMAIN children = 1..Len(children) /\ Len(children) \in Nat
BY DEF ShellTypeOK, ShellOutput

\* A step that leaves the output alone keeps what is said of it.
LEMMA OutputUnchanged ==
  ASSUME OutputInv, UNCHANGED H!outVars,
         shell_pc' = shell_pc \/ (shell_pc # "exited" /\ shell_pc' # "exited")
  PROVE  OutputInv'
BY DEF OutputInv, OnTerminal, InBuffer, AtExit, H!outVars

\* exit() writes what is in the buffer after what is written.
LEMMA ExitOutput ==
  ASSUME ShellTypeOK, OutputInv, H!ExitShell, shell_pc # "exited",
         UNCHANGED <<terminal, shown, children, failed>>
  PROVE  OutputInv'
<1> USE OutputTyped
<1>1. written' = written \o unwritten /\ unwritten' = <<>> /\ shell_pc' = "exited"
  BY DEF H!ExitShell
<1>2. InBuffer'
  BY <1>1 DEF InBuffer
<1>3. CASE terminal
  <2>1. unwritten = <<>> /\ written = shown
    BY <1>3 DEF OutputInv, OnTerminal
  <2>2. written' = written
    BY <1>1, <2>1, Joined
  <2>3. OnTerminal'
    BY <1>1, <1>3, <2>1, <2>2 DEF OutputInv, OnTerminal
  <2> QED BY <1>2, <1>3, <2>3 DEF OutputInv, AtExit
<1>4. CASE ~terminal
  <2>1. unwritten = shown /\ (~failed => written = <<>>)
    BY <1>4 DEF OutputInv, InBuffer
  <2>2. ~failed => written' = shown
    BY <1>1, <2>1, Joined
  <2>3. \E k \in 0..Len(written') - Len(shown) :
          SubSeq(written', k + 1, k + Len(shown)) = shown
    <3>1. written' = written \o shown
      BY <1>1, <2>1
    <3>2. PartOf(shown, written \o shown)
      BY PartAtEnd
    <3> QED BY <3>1, <3>2 DEF PartOf
  <2>4. AtExit'
    BY <2>2, <2>3 DEF AtExit
  <2> QED BY <1>2, <1>4, <2>4 DEF OutputInv, OnTerminal
<1> QED BY <1>3, <1>4

\* pwd prints into the buffer, or onto the terminal.
LEMMA PwdOutput ==
  ASSUME ShellTypeOK, ShellTypeOK', OutputInv, H!bi_pwd
  PROVE  OutputInv'
<1>1. /\ shell_pc = "execute" /\ shell_pc' = shell_pc
      /\ shown' = Append(shown, cwd')
      /\ UNCHANGED <<terminal, children, failed>>
  BY DEF H!bi_pwd, H!Builtin, H!Executing
<1>2. CASE terminal
  <2>1. written' = Append(written, cwd') /\ UNCHANGED unwritten
    BY <1>2 DEF H!bi_pwd
  <2> QED BY <1>1, <1>2, <2>1 DEF OutputInv, OnTerminal, InBuffer, AtExit
<1>3. CASE ~terminal
  <2>1. unwritten' = Append(unwritten, cwd') /\ UNCHANGED written
    BY <1>3 DEF H!bi_pwd
  <2> QED BY <1>1, <1>3, <2>1 DEF OutputInv, OnTerminal, InBuffer, AtExit
<1> QED BY <1>2, <1>3, OutputTyped

\* A fork copies the buffer.
LEMMA ForkOutput ==
  ASSUME ShellTypeOK, OutputInv, H!Fork
  PROVE  OutputInv'
<1>1. /\ shell_pc = "execute" /\ shell_pc' = shell_pc
      /\ children' = Append(children, [program |-> Head(H!argv), buffered |-> unwritten])
      /\ UNCHANGED <<terminal, shown, unwritten, written, failed>>
  BY DEF H!Fork, H!Executing
<1>2. terminal => \A k \in DOMAIN children' : children'[k].buffered = <<>>
  <2> DEFINE new == [program |-> Head(H!argv), buffered |-> unwritten]
  <2>1. new.buffered = unwritten
    OBVIOUS
  <2>2. children \in Seq(ChildProcess)
    BY DEF ShellTypeOK
  <2> HIDE DEF new
  <2>3. /\ DOMAIN children' = 1..Len(children) + 1 /\ Len(children) \in Nat
        /\ children'[Len(children) + 1] = new
        /\ \A k \in 1..Len(children) : children'[k] = children[k]
    BY <1>1, <2>2 DEF new
  <2> QED BY <2>1, <2>2, <2>3 DEF OutputInv, OnTerminal
<1> QED BY <1>1, <1>2 DEF OutputInv, OnTerminal, InBuffer, AtExit

\* A child that cannot execute its program writes its copy, which spoils
\* nothing that is written.
LEMMA ExecOutput ==
  ASSUME ShellTypeOK, OutputInv, H!ExecProgram
  PROVE  OutputInv'
<1>1. PICK k \in DOMAIN children :
    /\ children' = H!RemoveAt(children, k)
    /\ IF children[k].program = "run"
       THEN UNCHANGED <<written, failed>>
       ELSE /\ written' = written \o children[k].buffered
            /\ failed' = TRUE
    /\ UNCHANGED <<H!treeVars, H!runVars, H!cdVars, terminal, shown, unwritten,
                   shell_pc>>
  BY DEF H!ExecProgram
<1>2. \/ written' = written /\ failed' = failed
      \/ written' = written \o children[k].buffered /\ failed' = TRUE
  BY <1>1
<1>3. children[k].buffered \in Seq(Seq(ShellWords))
  <2>1. children[k] \in ChildProcess
    BY <1>1 DEF ShellTypeOK
  <2> QED BY <2>1 DEF ChildProcess, ShellOutput
<1>4. terminal => \A x \in DOMAIN children' : children'[x].buffered = <<>>
  <2> SUFFICES ASSUME terminal
               PROVE  \A x \in DOMAIN children' : children'[x].buffered = <<>>
    OBVIOUS
  <2> DEFINE T == {x \in ChildProcess : x.buffered = <<>>}
  <2>1. children \in Seq(ChildProcess)
    BY DEF ShellTypeOK
  <2>2. \A x \in 1..Len(children) : children[x] \in T
    BY <2>1 DEF OutputInv, OnTerminal
  <2>3. children \in Seq(T)
    <3> HIDE DEF T
    <3> QED BY <2>1, <2>2
  <2>4. children' \in Seq(T)
    <3> HIDE DEF T
    <3> QED BY <1>1, <2>3, RemovedOne
  <2>5. \A x \in DOMAIN children' : children'[x] \in T
    <3> HIDE DEF T
    <3> QED BY <2>4
  <2> QED BY <2>5
<1>5. OnTerminal'
  <2> SUFFICES ASSUME terminal PROVE unwritten' = <<>> /\ written' = shown'
    BY <1>1, <1>4 DEF OnTerminal
  <2>1. written \o children[k].buffered = written
    BY <1>1, Joined, OutputTyped DEF OutputInv, OnTerminal
  <2> QED BY <1>1, <1>2, <2>1 DEF OutputInv, OnTerminal
<1>6. InBuffer'
  BY <1>1, <1>2, OutputTyped DEF OutputInv, InBuffer
<1>7. AtExit'
  <2> SUFFICES ASSUME ~terminal, shell_pc = "exited"
               PROVE  /\ ~failed' => written' = shown
                      /\ \E x \in 0..Len(written') - Len(shown) :
                           SubSeq(written', x + 1, x + Len(shown)) = shown
    BY <1>1 DEF AtExit
  <2>1. /\ ~failed => written = shown
        /\ \E x \in 0..Len(written) - Len(shown) :
             SubSeq(written, x + 1, x + Len(shown)) = shown
    BY DEF OutputInv, AtExit
  <2>2. \E x \in 0..Len(written \o children[k].buffered) - Len(shown) :
          SubSeq(written \o children[k].buffered, x + 1, x + Len(shown)) = shown
    <3>1. written \in Seq(Seq(ShellWords)) /\ shown \in Seq(Seq(ShellWords))
      BY OutputTyped
    <3>2. PartOf(shown, written)
      BY <2>1 DEF PartOf
    <3>3. PartOf(shown, written \o children[k].buffered)
      BY <3>1, <3>2, <1>3, PartKept, Zenon
    <3> QED BY <3>3 DEF PartOf
  <2> QED BY <1>2, <2>1, <2>2, OutputTyped
<1> QED BY <1>5, <1>6, <1>7 DEF OutputInv

\* Each step keeps what is said of the output.
LEMMA OutputStep ==
  ASSUME ShellTypeOK, ShellTypeOK', OutputInv, [H!Next]_(H!vars)
  PROVE  OutputInv'
<1>1. CASE H!EndOfInput \/ H!bi_error
  <2>1. /\ H!ExitShell /\ shell_pc # "exited"
        /\ UNCHANGED <<terminal, shown, children, failed>>
    BY <1>1 DEF H!EndOfInput, H!bi_error, H!Builtin, H!Executing
  <2> QED BY <2>1, ExitOutput
<1>2. CASE H!bi_cd
  <2>1. /\ shell_pc # "exited" /\ UNCHANGED <<terminal, shown, children, failed>>
        /\ H!ExitShell \/ UNCHANGED <<written, unwritten, shell_pc>>
    BY <1>2 DEF H!bi_cd, H!Builtin, H!Executing
  <2> QED BY <2>1, ExitOutput, OutputUnchanged DEF H!outVars
<1>3. CASE H!EndOfLine
  <2>1. /\ shell_pc # "exited" /\ UNCHANGED <<terminal, shown, children, failed>>
        /\ H!ExitShell \/ (UNCHANGED <<written, unwritten>> /\ shell_pc' = "read")
    BY <1>3 DEF H!EndOfLine
  <2> QED BY <2>1, ExitOutput, OutputUnchanged DEF H!outVars
<1>4. CASE H!ReadLine
  BY <1>4, OutputUnchanged DEF H!ReadLine
<1>5. CASE H!p_pipeline
  <2>1. shell_pc = "parse" /\ UNCHANGED H!outVars
        /\ shell_pc' \in {"parse", "execute"}
    BY <1>5 DEF H!p_pipeline, H!i_sequence
  <2> QED BY <2>1, OutputUnchanged
<1>6. CASE H!bi_exit
  BY <1>6, OutputUnchanged DEF H!bi_exit
<1>7. CASE H!bi_pwd
  BY <1>7, PwdOutput
<1>8. CASE H!Fork
  BY <1>8, ForkOutput
<1>9. CASE H!EndPipeline
  BY <1>9, OutputUnchanged DEF H!EndPipeline
<1>10. CASE H!ExecProgram
  BY <1>10, ExecOutput
<1>11. CASE UNCHANGED H!vars
  BY <1>11, OutputUnchanged DEF H!vars
<1> QED
  BY <1>1, <1>2, <1>3, <1>4, <1>5, <1>6, <1>7, <1>8, <1>9, <1>10, <1>11 DEF H!Next

\* The shell starts with nothing parsed, printed or allocated.
LEMMA ShellStart ==
  ASSUME H!ShellAssumption, H!Init
  PROVE  ShellInv
<1>1. ShellTypeOK
  <2>1. jobs \in Seq(Nat) /\ cwd \in Seq(ShellWords) /\ owd \in Seq(ShellWords)
        /\ rest \in Seq(ShellWords)
    BY DEF H!Init
  <2>2. tree \in Seq(ShellCommand) /\ children \in Seq(ChildProcess)
    BY DEF H!Init
  <2>3. shown \in ShellOutput /\ unwritten \in ShellOutput /\ written \in ShellOutput
    BY DEF H!Init, ShellOutput
  <2>4. pipeline \in [address : Nat, commands : Seq(ShellCommand)]
    BY PipelineTyped DEF H!Init
  <2>5. dir \in Directories
    BY DEF H!Init, H!ShellAssumption
  <2>6. index \in Nat /\ index >= 1 /\ allocated \in SUBSET Nat
    BY DEF H!Init
  <2>7. jobbed \in BOOLEAN /\ terminal \in BOOLEAN /\ failed \in BOOLEAN
    BY DEF H!Init
  <2>8. shell_pc \in {"read", "parse", "execute", "exited"}
    BY DEF H!Init
  <2> QED BY <2>1, <2>2, <2>3, <2>4, <2>5, <2>6, <2>7, <2>8 DEF ShellTypeOK
<1>2. JobsOwned
  <2>1. Range(jobs) = {} /\ Len(jobs) = 0
    BY DEF H!Init, Range
  <2> QED BY <2>1, FS_EmptySet DEF H!Init, JobsOwned
<1>3. OnTerminal /\ InBuffer /\ AtExit /\ H!PwdRight
  BY DEF H!Init, OnTerminal, InBuffer, AtExit, H!PwdRight
<1> QED BY <1>1, <1>2, <1>3 DEF ShellInv

\* The invariant of the shell holds throughout.
LEMMA ShellInvariant == ASSUME H!ShellAssumption PROVE H!Spec => []ShellInv
<1>1. H!Init => ShellInv
  BY ShellStart
<1>2. ShellInv /\ [H!Next]_(H!vars) => ShellInv'
  <2> SUFFICES ASSUME ShellInv, [H!Next]_(H!vars) PROVE ShellInv'
    OBVIOUS
  <2>1. ShellTypeOK'
    BY ShellTypes DEF ShellInv
  <2>2. OutputInv
    BY DEF ShellInv, OutputInv
  <2>3. OutputInv'
    BY <2>1, <2>2, OutputStep DEF ShellInv
  <2> QED BY <2>1, <2>3, JobsStep, PwdStep DEF ShellInv, OutputInv
<1> QED BY <1>1, <1>2, PTL DEF H!Spec

\* The invariant gives what the shell promises.
LEMMA ShellPromises == ShellInv => H!PipelinesOwned /\ H!OutputKept /\ H!PwdRight
<1> SUFFICES ASSUME ShellInv PROVE H!PipelinesOwned /\ H!OutputKept /\ H!PwdRight
  OBVIOUS
<1>1. H!PipelinesOwned
  <2>1. H!Range(jobs) = Range(jobs)
        /\ H!Cardinality(Range(jobs)) = Cardinality(Range(jobs))
    BY ShellSizes DEF H!Range, Range
  <2>2. ASSUME shell_pc # "exited"
        PROVE  /\ allocated = Range(jobs)
                    \cup (IF shell_pc = "execute" THEN {pipeline.address} ELSE {})
               /\ Cardinality(Range(jobs)) = Len(jobs)
    BY <2>2 DEF ShellInv, JobsOwned
  <2> QED BY <2>1, <2>2 DEF H!PipelinesOwned
<1>2. H!OutputKept
  BY DEF ShellInv, OnTerminal, AtExit, H!OutputKept
<1> QED BY <1>1, <1>2 DEF ShellInv

\* PipelinesOwned, for any lines, directories and length of the input: the
\* pipelines in memory are those in the list of jobs, each once, and the one
\* that runs; none is lost, and none that the list shows is freed.
THEOREM ShellKeepsPipelines ==
  ASSUME H!ShellAssumption
  PROVE  H!Spec => []H!PipelinesOwned
BY ShellInvariant, ShellPromises, PTL

\* OutputKept, for any lines, directories and length of the input: what pwd
\* prints is written once and in order, unless a child that cannot execute
\* its program writes what was in the buffer again.
THEOREM ShellWritesOnce == ASSUME H!ShellAssumption PROVE H!Spec => []H!OutputKept
BY ShellInvariant, ShellPromises, PTL

\* PwdRight, for any lines, directories and length of the input: an absolute
\* name that pwd prints is that of the directory of the process.
THEOREM ShellKnowsWhereItIs == ASSUME H!ShellAssumption PROVE H!Spec => []H!PwdRight
BY ShellInvariant, ShellPromises, PTL

------------------------------------------------------------------------------
(* The bitmaps of the buddy system: a bit for each pair of blocks.         *)

\* The powers of 2, of which the provers know nothing, count the sets of
\* numbers up to k.
Upto(k) == SUBSET (1..k)

\* There are 2^k sets of numbers up to k.
LEMMA PowerCounts ==
  ASSUME NEW k \in Nat
  PROVE  IsFiniteSet(Upto(k)) /\ Cardinality(Upto(k)) = 2 ^ k /\ 2 ^ k \in Nat \ {0}
<1>1. IsFiniteSet(1..k) /\ Cardinality(1..k) = k
  <2>1. k \in Int /\ 1 \in Int /\ (IF 1 > k THEN 0 ELSE k - 1 + 1) = k
    OBVIOUS
  <2> QED BY <2>1, FS_Interval
<1>2. IsFiniteSet(Upto(k)) /\ Cardinality(Upto(k)) = 2 ^ k
  BY <1>1, FS_SUBSET DEF Upto
<1>3. Cardinality(Upto(k)) \in Nat
  BY <1>2, FS_CardinalityType
<1>4. Upto(k) # {}
  BY DEF Upto
<1>5. Cardinality(Upto(k)) # 0
  BY <1>2, <1>4, FS_EmptySet
<1> QED BY <1>2, <1>3, <1>5

\* One more number makes twice as many sets.
LEMMA PowerDoubles ==
  ASSUME NEW k \in Nat
  PROVE  2 ^ (k + 1) = 2 * 2 ^ k
<1> DEFINE Less == Upto(k)
           More == {X \cup {k + 1} : X \in Less}
           f == [X \in Less |-> X \cup {k + 1}]
<1>0. k + 1 \in Nat /\ \A x \in 1..k : x # k + 1
  OBVIOUS
<1>1. Upto(k + 1) = Less \cup More
  <2>1. 1..(k + 1) = (1..k) \cup {k + 1}
    OBVIOUS
  <2>2. ASSUME NEW Y \in Upto(k + 1), k + 1 \in Y PROVE Y \in More
    <3>1. Y \ {k + 1} \in Less /\ Y = (Y \ {k + 1}) \cup {k + 1}
      BY <2>1, <2>2 DEF Upto
    <3> QED BY <3>1
  <2>3. ASSUME NEW Y \in Upto(k + 1), k + 1 \notin Y PROVE Y \in Less
    BY <2>1, <2>3 DEF Upto
  <2>4. Less \subseteq Upto(k + 1) /\ More \subseteq Upto(k + 1)
    BY <2>1 DEF Upto
  <2> QED BY <2>2, <2>3, <2>4
<1>2. Less \cap More = {}
  BY <1>0 DEF Upto
<1>3. f \in Bijection(Less, More)
  <2>1. \A X, Y \in Less : X \cup {k + 1} = Y \cup {k + 1} => X = Y
    BY <1>0 DEF Upto
  <2>2. f \in [Less -> More]
    OBVIOUS
  <2>3. \A X, Y \in Less : f[X] = f[Y] => X = Y
    BY <2>1
  <2>4. \A Y \in More : \E X \in Less : f[X] = Y
    OBVIOUS
  <2> HIDE DEF Less, More, f
  <2> QED BY <2>2, <2>3, <2>4, Fun_IsBij
<1>4. ExistsBijection(Less, More)
  BY <1>3 DEF ExistsBijection
<1> HIDE DEF Less, More, f
<1>5. IsFiniteSet(Less) /\ Cardinality(Less) = 2 ^ k /\ 2 ^ k \in Nat
  BY PowerCounts DEF Less
<1>6. IsFiniteSet(More) /\ Cardinality(More) = Cardinality(Less)
  BY <1>4, <1>5, FS_Bijection
<1>7. Cardinality(Less \cup More) = Cardinality(Less) + Cardinality(More) - Cardinality(Less \cap More)
  BY <1>5, <1>6, FS_Union
<1>8. Cardinality(Less \cap More) = 0
  BY <1>2, FS_EmptySet
<1>9. Cardinality(Upto(k + 1)) = 2 ^ (k + 1)
  BY <1>0, PowerCounts
<1> QED BY <1>1, <1>5, <1>6, <1>7, <1>8, <1>9

\* A multiple is divided without a rest.
LEMMA Multiples ==
  ASSUME NEW d \in Nat \ {0}, NEW q \in Nat
  PROVE  d * q \in Nat /\ (d * q) \div d = q /\ (d * q) % d = 0
OBVIOUS

\* What is divided without a rest is a multiple.
LEMMA Quotient ==
  ASSUME NEW d \in Nat \ {0}, NEW m \in Nat, m % d = 0
  PROVE  m \div d \in Nat /\ m = d * (m \div d)
<1>1. m = d * (m \div d)
  OBVIOUS
<1>2. m \div d \in Int
  OBVIOUS
<1>3. \A k \in Int : k <= -1 => d * k <= -d
  OBVIOUS
<1> QED BY <1>1, <1>2, <1>3

\* A quotient is the largest multiple that is not above.
LEMMA Between ==
  ASSUME NEW d \in Nat \ {0}, NEW q \in Nat, NEW m \in Nat, d * q <= m
  PROVE  q <= m \div d /\ m \div d \in Nat
<1>1. q <= m \div d
  OBVIOUS
<1>2. m \div d \in Int
  OBVIOUS
<1> QED BY <1>1, <1>2

\* The multiples above and below, and those of the double.
LEMMA Steps ==
  ASSUME NEW d \in Nat \ {0}, NEW q \in Nat
  PROVE  /\ d * (q + 1) = d * q + d
         /\ q > 0 => d * (q - 1) = d * q - d /\ d * q >= d
         /\ (2 * d) * q = d * (2 * q)
OBVIOUS

\* A block and its buddy are the two blocks of a pair, whichever of them is
\* asked.
LEMMA BlockPair ==
  ASSUME map_e \in Nat, NEW q \in Nat, NEW mem, mem = 2 ^ map_e * q
  PROVE  /\ q \div 2 \in Nat /\ 2 ^ map_e * (2 * (q \div 2)) \in Nat
         /\ {mem, B!baddrinv(mem, map_e)} = {2 ^ map_e * (2 * (q \div 2)), 2 ^ map_e * (2 * (q \div 2)) + 2 ^ map_e}
         /\ B!baddrclr(mem, map_e) = 2 ^ map_e * (2 * (q \div 2))
         /\ B!baddrset(mem, map_e) = 2 ^ map_e * (2 * (q \div 2)) + 2 ^ map_e
         /\ B!bitaddr(mem, map_e) = q \div 2
         /\ B!baddrclr(mem, map_e) % B!e2size(map_e + 1) = 0
<1> DEFINE unit == 2 ^ map_e
           h == q \div 2
           low == unit * (2 * h)
<1>1. unit \in Nat \ {0} /\ 2 ^ (map_e + 1) = 2 * unit
  BY PowerCounts, PowerDoubles
<1>2. mem = unit * q
  OBVIOUS
<1>3. h \in Nat /\ (q % 2 = 1 => q = 2 * h + 1) /\ (q % 2 # 1 => q = 2 * h)
  OBVIOUS
<1>d. /\ B!baddrclr(mem, map_e) = IF B!baddrtst(mem, map_e) THEN mem - unit ELSE mem
      /\ B!baddrset(mem, map_e) = IF B!baddrtst(mem, map_e) THEN mem ELSE mem + unit
      /\ B!baddrinv(mem, map_e) = IF B!baddrtst(mem, map_e) THEN mem - unit ELSE mem + unit
      /\ B!baddrtst(mem, map_e) = ((mem \div unit) % 2 = 1)
      /\ B!bitaddr(mem, map_e) = (B!baddrclr(mem, map_e) \div unit) \div 2
      /\ B!e2size(map_e + 1) = 2 ^ (map_e + 1)
  BY DEF B!baddrclr, B!baddrset, B!baddrinv, B!baddrtst, B!bitaddr, B!e2size
<1> HIDE DEF unit, h
<1>4. B!baddrtst(mem, map_e) = (q % 2 = 1)
  <2>1. mem \div unit = q
    BY <1>1, <1>2, Multiples
  <2> QED BY <2>1, <1>d
<1>5. low \in Nat /\ unit * (2 * h + 1) = low + unit /\ 2 * h \in Nat
  BY <1>1, <1>3, Multiples, Steps
<1>6. B!baddrclr(mem, map_e) = low /\ B!baddrset(mem, map_e) = low + unit
      /\ {mem, B!baddrinv(mem, map_e)} = {low, low + unit}
  <2>1. CASE q % 2 = 1
    <3>1. mem = low + unit
      BY <1>2, <1>3, <1>5, <2>1
    <3>2. mem - unit = low /\ unit \in Nat
      BY <3>1, <1>5, <1>1
    <3> HIDE DEF low
    <3> QED BY <3>1, <3>2, <2>1, <1>4, <1>d
  <2>2. CASE q % 2 # 1
    <3>1. mem = low
      BY <1>2, <1>3, <2>2
    <3> HIDE DEF low
    <3> QED BY <3>1, <2>2, <1>4, <1>d
  <2> QED BY <2>1, <2>2
<1>7. B!bitaddr(mem, map_e) = h
  <2>1. low \div unit = 2 * h
    BY <1>1, <1>5, Multiples
  <2>2. (2 * h) \div 2 = h
    BY <1>3
  <2> HIDE DEF low
  <2> QED BY <2>1, <2>2, <1>6, <1>d
<1>8. B!baddrclr(mem, map_e) % B!e2size(map_e + 1) = 0
  <2>1. low = (2 * unit) * h /\ 2 * unit \in Nat \ {0}
    BY <1>1, <1>3, Steps
  <2>2. ((2 * unit) * h) % (2 * unit) = 0
    BY <2>1, <1>3, Multiples
  <2> HIDE DEF low
  <2> QED BY <2>1, <2>2, <1>1, <1>6, <1>d
<1> QED BY <1>3, <1>5, <1>6, <1>7, <1>8 DEF unit, h, low

\* The types of the bitmap.
MapTypes ==
  /\ map_size \in Nat \ {0} /\ map_e \in Nat
  /\ bitmap \in [0..B!mapsize(map_size, map_e) - 1 -> {0, 1}]

\* The inductive invariant of the bitmap: it holds the bits of the pairs
\* that were set, and no call was out of bounds.
BuddyInv ==
  /\ MapTypes /\ ~map_exited
  /\ \A mem \in B!Blocks : B!bbmtst(mem) = IF mem \in blocks_set THEN 1 ELSE 0

\* Rounding up leaves room for the last block.
LEMMA RoundUp ==
  ASSUME NEW d \in Nat \ {0}, NEW q \in Nat, NEW s \in Nat \ {0}, d * q <= s - 1
  PROVE  q + 1 <= B!divup(s, d) /\ B!divup(s, d) \in Nat
<1>1. /\ d * (q + 1) <= s + d - 1 /\ (s + d) - 1 \in Nat /\ q + 1 \in Nat
      /\ d * (q + 1) \in Nat
  <2>1. d * (q + 1) = d * q + d /\ d * q \in Nat
    BY Steps, Multiples
  <2> QED BY <2>1
<1>2. q + 1 <= ((s + d) - 1) \div d /\ ((s + d) - 1) \div d \in Nat
  BY <1>1, Between
<1> QED BY <1>2 DEF B!divup

\* A block that begins below the size has its bit in the bitmap.
LEMMA HasBit ==
  ASSUME MapTypes, NEW mem \in B!Blocks
  PROVE  /\ \E q \in Nat : mem = 2 ^ map_e * q
         /\ B!bitaddr(mem, map_e) \in 0..B!mapsize(map_size, map_e) - 1
         /\ B!ok(B!bitaddr(mem, map_e))
<1>1. 2 ^ map_e \in Nat \ {0}
  BY PowerCounts DEF MapTypes
<1>2. mem \in Nat /\ mem <= map_size - 1 /\ mem % (2 ^ map_e) = 0
  BY DEF B!Blocks, MapTypes, B!e2size
<1>3. PICK q \in Nat : mem = 2 ^ map_e * q
  BY <1>1, <1>2, Quotient
<1>4. q + 1 <= B!divup(map_size, 2 ^ map_e) /\ B!divup(map_size, 2 ^ map_e) \in Nat
  BY <1>1, <1>2, <1>3, RoundUp DEF MapTypes
<1>5. /\ q \div 2 \in Nat /\ q \div 2 <= B!mapsize(map_size, map_e) - 1
      /\ B!mapsize(map_size, map_e) \in Nat
  <2> DEFINE n == B!divup(map_size, 2 ^ map_e)
  <2>1. B!mapsize(map_size, map_e) = ((n + 2) - 1) \div 2
    BY DEF B!mapsize, B!divup, B!e2size
  <2>2. n \in Nat /\ q + 1 <= n
    BY <1>4
  <2> HIDE DEF n
  <2> QED BY <2>1, <2>2
<1>6. B!bitaddr(mem, map_e) = q \div 2
  BY <1>3, BlockPair DEF MapTypes
<1>7. B!bitaddr(mem, map_e) \in 0..B!mapsize(map_size, map_e) - 1
  BY <1>5, <1>6
<1> QED BY <1>3, <1>7 DEF B!ok, MapTypes

\* Two blocks have one bit only if they are the same or buddies.
LEMMA OnePair ==
  ASSUME MapTypes, NEW mem \in B!Blocks, NEW m \in B!Blocks
  PROVE  B!bitaddr(mem, map_e) = B!bitaddr(m, map_e) <=>
           mem \in {m, B!baddrinv(m, map_e)}
<1> DEFINE unit == 2 ^ map_e
<1>1. unit \in Nat \ {0} /\ map_e \in Nat
  BY PowerCounts DEF MapTypes
<1>2. PICK q \in Nat : mem = 2 ^ map_e * q
  BY HasBit
<1>3. PICK p \in Nat : m = 2 ^ map_e * p
  BY HasBit
<1> DEFINE h == q \div 2
           k == p \div 2
           low == unit * (2 * h)
           bottom == unit * (2 * k)
<1>4. /\ h \in Nat /\ B!bitaddr(mem, map_e) = h
         /\ {mem, B!baddrinv(mem, map_e)} = {low, low + unit}
  BY <1>1, <1>2, BlockPair
<1>5. /\ k \in Nat /\ B!bitaddr(m, map_e) = k
         /\ {m, B!baddrinv(m, map_e)} = {bottom, bottom + unit}
  BY <1>1, <1>3, BlockPair
<1> HIDE DEF unit, h, k
<1>6. /\ 2 * h \in Nat /\ low \div unit = 2 * h /\ low \in Nat
      /\ low + unit = unit * (2 * h + 1) /\ (low + unit) \div unit = 2 * h + 1
  <2>1. 2 * h \in Nat /\ 2 * h + 1 \in Nat
    BY <1>4
  <2>2. low + unit = unit * (2 * h + 1)
    BY <1>1, <2>1, Steps
  <2>3. low \in Nat /\ low \div unit = 2 * h
    BY <1>1, <2>1, Multiples
  <2>4. (unit * (2 * h + 1)) \div unit = 2 * h + 1
    BY <1>1, <2>1, Multiples
  <2> HIDE DEF low
  <2> QED BY <2>1, <2>2, <2>3, <2>4
<1>7. /\ 2 * k \in Nat /\ bottom \div unit = 2 * k
      /\ bottom + unit = unit * (2 * k + 1) /\ (bottom + unit) \div unit = 2 * k + 1
  <2>1. 2 * k \in Nat /\ 2 * k + 1 \in Nat
    BY <1>5
  <2>2. bottom + unit = unit * (2 * k + 1)
    BY <1>1, <2>1, Steps
  <2>3. bottom \in Nat /\ bottom \div unit = 2 * k
    BY <1>1, <2>1, Multiples
  <2>4. (unit * (2 * k + 1)) \div unit = 2 * k + 1
    BY <1>1, <2>1, Multiples
  <2> HIDE DEF bottom
  <2> QED BY <2>1, <2>2, <2>3, <2>4
<1>8. mem \in {low, low + unit}
  BY <1>4
<1>9. h = k => mem \in {bottom, bottom + unit}
  BY <1>8
<1> HIDE DEF low, bottom
<1>10. mem \in {bottom, bottom + unit} => h = k
  <2>1. CASE mem = low
    BY <2>1, <1>4, <1>5, <1>6, <1>7
  <2>2. CASE mem = low + unit
    BY <2>2, <1>4, <1>5, <1>6, <1>7
  <2> QED BY <1>8, <2>1, <2>2
<1> QED BY <1>4, <1>5, <1>9, <1>10

\* The bitmap starts with no bit set.
LEMMA BuddyStart == ASSUME B!BuddyMapsAssumption PROVE B!Init => BuddyInv
<1> SUFFICES ASSUME B!Init PROVE BuddyInv
  OBVIOUS
<1>1. MapTypes
  BY DEF B!Init, MapTypes, B!BuddyMapsAssumption
<1>2. ASSUME NEW mem \in B!Blocks PROVE B!bbmtst(mem) = 0
  BY <1>1, HasBit DEF B!Init, B!bbmtst
<1> QED BY <1>1, <1>2 DEF B!Init, BuddyInv

\* A call puts the bit of its block and of its buddy, and of no other.
LEMMA BuddyPut ==
  ASSUME BuddyInv, NEW m \in B!Blocks, NEW bit \in {0, 1}, B!Put(m, bit),
         UNCHANGED <<map_size, map_e>>,
         blocks_set' = IF bit = 1 THEN blocks_set \cup {m, B!baddrinv(m, map_e)}
                                  ELSE blocks_set \ {m, B!baddrinv(m, map_e)}
  PROVE  BuddyInv'
<1>1. MapTypes /\ ~map_exited
  BY DEF BuddyInv
<1>2. bitmap' = [bitmap EXCEPT ![B!bitaddr(m, map_e)] = bit] /\ ~map_exited'
  BY <1>1, HasBit DEF B!Put
<1>3. MapTypes' /\ B!Blocks' = B!Blocks
  BY <1>1, <1>2 DEF MapTypes, B!Blocks, B!mapsize, B!divup, B!e2size
<1>4. ASSUME NEW mem \in B!Blocks
      PROVE  bitmap'[B!bitaddr(mem, map_e)] = IF mem \in blocks_set' THEN 1 ELSE 0
  <2>1. B!bitaddr(mem, map_e) \in DOMAIN bitmap
    BY <1>1, HasBit DEF B!ok
  <2>2. bitmap[B!bitaddr(mem, map_e)] = IF mem \in blocks_set THEN 1 ELSE 0
    BY DEF BuddyInv, B!bbmtst
  <2>3. CASE B!bitaddr(mem, map_e) = B!bitaddr(m, map_e)
    <3>1. mem \in {m, B!baddrinv(m, map_e)}
      BY <2>3, <1>1, OnePair
    <3>2. bitmap'[B!bitaddr(mem, map_e)] = bit
      BY <2>1, <2>3, <1>2
    <3> QED BY <3>1, <3>2
  <2>4. CASE B!bitaddr(mem, map_e) # B!bitaddr(m, map_e)
    <3>1. mem \notin {m, B!baddrinv(m, map_e)}
      BY <2>4, <1>1, OnePair
    <3>2. bitmap'[B!bitaddr(mem, map_e)] = bitmap[B!bitaddr(mem, map_e)]
      BY <2>1, <2>4, <1>2
    <3> QED BY <3>1, <3>2, <2>2
  <2> QED BY <2>3, <2>4
<1>5. \A mem \in B!Blocks' : B!bbmtst(mem)' = IF mem \in blocks_set' THEN 1 ELSE 0
  BY <1>3, <1>4 DEF B!bbmtst
<1> QED BY <1>2, <1>3, <1>5 DEF BuddyInv

\* The invariant of the bitmap holds throughout.
LEMMA BuddyInvariant == ASSUME B!BuddyMapsAssumption PROVE B!Spec => []BuddyInv
<1>1. BuddyInv /\ [B!Next]_(B!vars) => BuddyInv'
  <2> SUFFICES ASSUME BuddyInv, [B!Next]_(B!vars) PROVE BuddyInv'
    OBVIOUS
  <2>1. CASE B!bbmset
    <3>1. PICK m \in B!Blocks : B!Put(m, 1) /\ UNCHANGED <<map_size, map_e>>
                              /\ blocks_set' = blocks_set \cup {m, B!baddrinv(m, map_e)}
      BY <2>1 DEF B!bbmset
    <3> QED BY <3>1, BuddyPut
  <2>2. CASE B!bbmclr
    <3>1. PICK m \in B!Blocks : B!Put(m, 0) /\ UNCHANGED <<map_size, map_e>>
                              /\ blocks_set' = blocks_set \ {m, B!baddrinv(m, map_e)}
      BY <2>2 DEF B!bbmclr
    <3> QED BY <3>1, BuddyPut
  <2>3. CASE UNCHANGED B!vars
    BY <2>3
       DEF B!vars, BuddyInv, MapTypes, B!Blocks, B!bbmtst, B!bitaddr, B!baddrclr,
           B!baddrtst,
                B!mapsize, B!divup, B!e2size
  <2> QED BY <2>1, <2>2, <2>3 DEF B!Next
<1> QED BY <1>1, BuddyStart, PTL DEF B!Spec

\* BuddiesShareABit, for any size of the memory and of the blocks: a block
\* and its buddy have one bit, the test finds it as the last call for one of
\* them left it, and a join of the two begins at a block of twice the size.
THEOREM BuddiesShareBits ==
  ASSUME B!BuddyMapsAssumption
  PROVE  B!Spec => []B!BuddiesShareABit
<1>1. BuddyInv => B!BuddiesShareABit
  <2> SUFFICES ASSUME BuddyInv PROVE B!BuddiesShareABit
    OBVIOUS
  <2>1. MapTypes /\ map_e \in Nat
    BY DEF BuddyInv, MapTypes
  <2>2. ASSUME NEW mem \in B!Blocks
        PROVE  /\ {mem, B!baddrinv(mem, map_e)} = {B!baddrclr(mem, map_e), B!baddrset(mem, map_e)}
               /\ B!baddrclr(mem, map_e) % B!e2size(map_e + 1) = 0
    <3>1. PICK q \in Nat : mem = 2 ^ map_e * q
      BY <2>1, HasBit
    <3> QED BY <2>1, <3>1, BlockPair
  <2> QED BY <2>2 DEF BuddyInv, B!BuddiesShareABit
<1> QED BY <1>1, BuddyInvariant, PTL

------------------------------------------------------------------------------
(* The allocator: the ring of its free blocks, in the order of their       *)
(* addresses, and what they share out with the blocks in use.              *)

\* The pointers f link the blocks F into a ring in the order of their
\* addresses.
Chain(f, F) ==
  /\ F \subseteq M!Addresses /\ M!base \in F
  /\ \A p \in F :
       /\ f[p] \in F
       /\ \A q \in F : q > p => p < f[p] /\ f[p] <= q
       /\ (\A q \in F : q <= p) => f[p] = M!base

\* The free blocks F and the blocks in use U, of sizes g, share out the
\* units W.
Shared(g, F, U, W) ==
  /\ F \subseteq M!Addresses /\ U \subseteq M!Addresses /\ M!base \in F
  /\ F \cap U = {} /\ g[M!base] = 0
  /\ \A b \in (F \cup U) \ {M!base} : g[b] \in Nat \ {0}
  /\ \A b, c \in (F \cup U) \ {M!base} : b < c => b + g[b] <= c
  /\ W = UNION {b..b + g[b] - 1 : b \in (F \cup U) \ {M!base}}

\* No free block ends where another one begins.
Apart(g, F) == \A b \in F \ {M!base} : b + g[b] \notin F

\* The headers and the start of the search.
Heaps == [ptr : [M!Addresses -> M!Addresses], size : [M!Addresses -> Nat], freep : Nat]

\* What holds of the headers between the calls: the ring is in order, and
\* the blocks share out the memory.
Ordered(h, F, U, W) ==
  /\ h \in Heaps /\ h.freep \in F
  /\ Chain(h.ptr, F) /\ Shared(h.size, F, U, W) /\ Apart(h.size, F)

\* The inductive invariant of the allocator.
MallocInv ==
  /\ brk \in 1..MaxBreak + 1 /\ acquired \subseteq 1..brk - 1
  /\ ptr \in [M!Addresses -> M!Addresses] /\ size \in [M!Addresses -> Nat]
  /\ \A b \in DOMAIN asked :
       asked[b] \in Nat /\ (size[b] - 1) * HeaderBytes >= asked[b]
  /\ freep = M!NULL => DOMAIN asked = {} /\ acquired = {}
  /\ freep # M!NULL =>
       \E F \in SUBSET M!Addresses : Ordered(M!Heap, F, DOMAIN asked, acquired)

\* A set with 0, and with the successors of its members, has all the
\* numbers.
LEMMA SetInduction ==
  ASSUME NEW T, 0 \in T, \A k \in Nat : k \in T => k + 1 \in T
  PROVE  Nat \subseteq T
<1> SUFFICES ASSUME Nat \ T # {} PROVE FALSE
  OBVIOUS
<1>1. PICK m \in Nat \ T : \A k \in Nat \ T : m <= k
  BY Least
<1>2. m - 1 \in Nat /\ m - 1 \in T
  BY <1>1
<1> QED BY <1>1, <1>2

\* A set of numbers below a bound has a greatest one.
LEMMA Greatest ==
  ASSUME NEW T, NEW m \in Nat, T \subseteq 0..m, T # {}
  PROVE  \E x \in T : \A y \in T : y <= x
<1> DEFINE U == {k \in Nat : m - k \in T}
<1>1. U \subseteq Nat /\ U # {}
  <2>1. PICK x \in T : TRUE
    OBVIOUS
  <2>2. m - x \in Nat /\ m - (m - x) = x
    BY <2>1
  <2> QED BY <2>1, <2>2
<1>2. PICK k \in U : \A j \in U : k <= j
  BY <1>1, Least
<1>3. ASSUME NEW y \in T PROVE y <= m - k
  <2>1. m - y \in Nat /\ m - (m - y) = y
    OBVIOUS
  <2>2. m - y \in U
    BY <2>1
  <2>3. k \in Nat /\ k <= m - y /\ y \in 0..m
    BY <1>2, <2>2
  <2> QED BY <2>3
<1>4. m - k \in T
  BY <1>2
<1> QED BY <1>3, <1>4

\* A walk of m steps along the pointers.
Walks(w, h, m) == w = [k \in 0..m |-> IF k = 0 THEN h.freep ELSE h.ptr[w[k - 1]]]

\* There is a walk of any length.
LEMMA WalkThere == ASSUME NEW h, NEW m \in Nat PROVE \E w : Walks(w, h, m)
<1> DEFINE T == {k \in Nat : \E w : Walks(w, h, k)}
<1>1. 0 \in T
  <2> DEFINE w == [k \in 0..0 |-> h.freep]
  <2>1. w = [k \in 0..0 |-> IF k = 0 THEN h.freep ELSE h.ptr[w[k - 1]]]
    OBVIOUS
  <2>2. Walks(w, h, 0)
    BY <2>1 DEF Walks
  <2> HIDE DEF w
  <2> QED BY <2>2
<1>2. ASSUME NEW k \in Nat, k \in T PROVE k + 1 \in T
  <2>1. PICK v : Walks(v, h, k)
    BY <1>2
  <2> DEFINE w == [j \in 0..k + 1 |-> IF j <= k THEN v[j] ELSE h.ptr[v[k]]]
             x == [j \in 0..k + 1 |-> IF j = 0 THEN h.freep ELSE h.ptr[w[j - 1]]]
  <2>2. ASSUME NEW j \in 0..k + 1 PROVE w[j] = x[j]
    <3>1. CASE j = k + 1
      BY <3>1
    <3>2. CASE j # k + 1
      <4>1. j \in 0..k /\ (j # 0 => j - 1 \in 0..k)
        BY <3>2
      <4>2. v[j] = IF j = 0 THEN h.freep ELSE h.ptr[v[j - 1]]
        BY <2>1, <4>1 DEF Walks
      <4>3. w[j] = v[j] /\ (j # 0 => w[j - 1] = v[j - 1])
        BY <4>1
      <4> HIDE DEF w
      <4> QED BY <4>1, <4>2, <4>3
    <3> QED BY <3>1, <3>2
  <2>3. w = x
    <3>1. w = [j \in 0..k + 1 |-> w[j]] /\ x = [j \in 0..k + 1 |-> x[j]]
      OBVIOUS
    <3> HIDE DEF w, x
    <3> QED BY <2>2, <3>1
  <2>4. Walks(w, h, k + 1)
    BY <2>3 DEF Walks
  <2> HIDE DEF w, x
  <2> QED BY <2>4
<1> HIDE DEF T
<1>3. Nat \subseteq T
  BY <1>1, <1>2, SetInduction
<1> QED BY <1>3 DEF T

\* Walk is such a walk, so that each of its places follows the one before.
LEMMA WalkIs ==
  ASSUME M!SimpleMallocAssumption, NEW h
  PROVE  /\ M!Walk(h)[0] = h.freep
         /\ \A k \in 1..MaxBreak + 1 : M!Walk(h)[k] = h.ptr[M!Walk(h)[k - 1]]
<1>0. MaxBreak + 1 \in Nat
  BY DEF M!SimpleMallocAssumption
<1> DEFINE x == CHOOSE w : Walks(w, h, MaxBreak + 1)
<1>1. M!Walk(h) = x
  BY Zenon DEF M!Walk, Walks
<1>2. Walks(x, h, MaxBreak + 1)
  BY <1>0, WalkThere
<1> HIDE DEF x
<1>3. \A k \in 0..MaxBreak + 1 : x[k] = IF k = 0 THEN h.freep ELSE h.ptr[x[k - 1]]
  BY <1>2, Zenon DEF Walks
<1>4. /\ 0 \in 0..MaxBreak + 1
      /\ \A k \in 1..MaxBreak + 1 : k \in 0..MaxBreak + 1 /\ k # 0
  BY <1>0
<1> QED BY <1>1, <1>3, <1>4

\* A walk does not leave the ring.
LEMMA WalkStays ==
  ASSUME M!SimpleMallocAssumption, NEW h, NEW F, Chain(h.ptr, F), h.freep \in F
  PROVE  \A k \in 0..MaxBreak + 1 : M!Walk(h)[k] \in F
<1> DEFINE T == {k \in Nat : k <= MaxBreak + 1 => M!Walk(h)[k] \in F}
<1>1. 0 \in T
  BY WalkIs
<1>2. ASSUME NEW k \in Nat, k \in T PROVE k + 1 \in T
  <2> SUFFICES ASSUME k + 1 <= MaxBreak + 1 PROVE M!Walk(h)[k + 1] \in F
    OBVIOUS
  <2>1. M!Walk(h)[k + 1] = h.ptr[M!Walk(h)[k]]
    <3>1. k + 1 \in 1..MaxBreak + 1 /\ (k + 1) - 1 = k
      BY DEF M!SimpleMallocAssumption
    <3> QED BY <3>1, WalkIs
  <2>2. M!Walk(h)[k] \in F
    BY <1>2 DEF M!SimpleMallocAssumption
  <2> QED BY <2>1, <2>2 DEF Chain
<1> HIDE DEF T
<1>3. Nat \subseteq T
  BY <1>1, <1>2, SetInduction
<1> QED BY <1>3 DEF T, M!SimpleMallocAssumption

\* There is a last block below any address, and a block follows the one
\* below it.
LEMMA BlockBelow ==
  ASSUME M!SimpleMallocAssumption, NEW f, NEW F, Chain(f, F), NEW x \in Nat,
         x # M!base
  PROVE  \E y \in F : /\ y < x /\ \A q \in F : q < x => q <= y
                      /\ x \in F => f[y] = x
<1> DEFINE T == {y \in F : y < x}
<1>0. M!base \in F /\ F \subseteq 0..MaxBreak /\ M!base = 0 /\ MaxBreak \in Nat
  BY DEF Chain, M!base, M!Addresses, M!SimpleMallocAssumption
<1>1. M!base \in T /\ T \subseteq 0..MaxBreak /\ F \subseteq Nat /\ M!base = 0
  <2>1. 0..MaxBreak \subseteq Nat /\ 0 < x
    BY <1>0
  <2>2. T \subseteq F
    OBVIOUS
  <2>3. M!base \in T
    BY <1>0, <2>1
  <2> HIDE DEF T
  <2> QED BY <1>0, <2>1, <2>2, <2>3
<1>2. PICK y \in T : \A q \in T : q <= y
  <2> HIDE DEF T
  <2>1. MaxBreak \in Nat /\ T # {}
    BY <1>1 DEF M!SimpleMallocAssumption
  <2> QED BY <1>1, <2>1, Greatest
<1>3. ASSUME x \in F PROVE f[y] = x
  <2>1. y < f[y] /\ f[y] <= x /\ f[y] \in F /\ f[y] \in Nat /\ y \in Nat
    BY <1>1, <1>2, <1>3 DEF Chain
  <2>2. ~(f[y] < x)
    BY <1>2, <2>1
  <2> QED BY <2>1, <2>2
<1> QED BY <1>2, <1>3

\* A walk around meets every block of the ring, after its first step.
LEMMA Meets ==
  ASSUME M!SimpleMallocAssumption, NEW h, NEW F, Chain(h.ptr, F), h.freep \in F
  PROVE  \A p \in F : \E k \in 1..MaxBreak + 1 : M!Walk(h)[k] = p
<1> DEFINE w == M!Walk(h)
           s == h.freep
<1>a. /\ F \subseteq 0..MaxBreak /\ MaxBreak \in Nat /\ M!base = 0 /\ 0 \in F
      /\ s \in 0..MaxBreak /\ s \in F
  BY DEF Chain, M!base, M!Addresses, M!SimpleMallocAssumption
<1>b. 0..MaxBreak \subseteq Nat
  BY <1>a
<1>0. /\ F \subseteq 0..MaxBreak /\ MaxBreak \in Nat /\ M!base = 0 /\ 0 \in F
      /\ s \in 0..MaxBreak /\ s \in F /\ F \subseteq Nat
  BY <1>a, <1>b
<1>w. /\ w[0] = s
      /\ \A k \in 0..MaxBreak : w[k + 1] = h.ptr[w[k]]
  <2>1. \A k \in 0..MaxBreak : k + 1 \in 1..MaxBreak + 1 /\ (k + 1) - 1 = k
    BY <1>0
  <2> QED BY <2>1, WalkIs
<1>y. ASSUME NEW x \in F, x # 0
      PROVE  \E y \in F : y < x /\ h.ptr[y] = x /\ \A q \in F : q < x => q <= y
  <2>1. x \in Nat
    BY <1>0
  <2> QED BY <1>y, <1>0, <2>1, BlockBelow
<1>f. \A p \in F : (\A q \in F : q <= p) => h.ptr[p] = 0
  BY <1>0 DEF Chain
<1> HIDE DEF w, s
<1>1. \A p \in F : p >= s => \E k \in 0..p - s : w[k] = p
  <2> DEFINE T == {p \in F : p >= s /\ ~\E k \in 0..p - s : w[k] = p}
  <2> SUFFICES ASSUME T # {} PROVE FALSE
    OBVIOUS
  <2>1. PICK x \in T : \A p \in T : x <= p
    <3>1. T \subseteq F
      OBVIOUS
    <3> HIDE DEF T
    <3> QED BY <3>1, <1>0, Least
  <2>2. x \in F /\ x \in Nat /\ s \in Nat /\ x >= s /\ x # s /\ x # 0
    <3>1. 0 \in 0..s - s
      BY <1>0
    <3>2. x \in F /\ x \in Nat /\ s \in Nat /\ x >= s /\ x # s
      BY <1>0, <1>w, <3>1
    <3> QED BY <3>2
  <2>3. PICK y \in F : y < x /\ h.ptr[y] = x /\ \A q \in F : q < x => q <= y
    BY <2>2, <1>y
  <2>4. s <= y /\ y \in Nat
    BY <2>2, <2>3, <1>0
  <2>5. PICK k \in 0..y - s : w[k] = y
    BY <2>1, <2>3, <2>4
  <2>6. k \in 0..MaxBreak /\ k + 1 \in 0..x - s
    BY <2>2, <2>3, <2>4, <1>0
  <2>7. w[k + 1] = x
    BY <2>3, <2>5, <2>6, <1>w
  <2> QED BY <2>1, <2>6, <2>7
<1>2. PICK m \in F : \A q \in F : q <= m
  BY <1>0, Greatest
<1>3. m \in Nat /\ m <= MaxBreak /\ s <= m /\ s \in Nat
  BY <1>0, <1>2
<1>4. PICK k0 \in 1..m - s + 1 : w[k0] = 0
  <2>1. PICK k \in 0..m - s : w[k] = m
    BY <1>1, <1>3
  <2>2. k \in 0..MaxBreak /\ k + 1 \in 1..m - s + 1
    BY <2>1, <1>3, <1>0
  <2>3. w[k + 1] = 0
    BY <2>1, <2>2, <1>w, <1>f, <1>2
  <2> QED BY <2>2, <2>3
<1>5. \A p \in F : p <= s => \E k \in 1..m - s + 1 + p : w[k] = p
  <2> DEFINE T == {p \in F : p <= s /\ ~\E k \in 1..m - s + 1 + p : w[k] = p}
  <2> SUFFICES ASSUME T # {} PROVE FALSE
    OBVIOUS
  <2>1. PICK x \in T : \A p \in T : x <= p
    <3>1. T \subseteq F
      OBVIOUS
    <3> HIDE DEF T
    <3> QED BY <3>1, <1>0, Least
  <2>2. x \in F /\ x \in Nat /\ x <= s /\ x # 0
    <3>1. k0 \in 1..m - s + 1 + 0
      BY <1>3, <1>4
    <3> QED BY <1>0, <1>4, <3>1
  <2>3. PICK y \in F : y < x /\ h.ptr[y] = x
    BY <2>2, <1>y
  <2>4. y \in Nat /\ y <= s
    BY <2>2, <2>3, <1>0, <1>3
  <2>5. PICK k \in 1..m - s + 1 + y : w[k] = y
    BY <2>1, <2>3, <2>4
  <2>6. k \in 0..MaxBreak /\ k + 1 \in 1..m - s + 1 + x
    BY <2>2, <2>3, <2>4, <1>0, <1>3
  <2>7. w[k + 1] = x
    BY <2>3, <2>5, <2>6, <1>w
  <2> QED BY <2>1, <2>6, <2>7
<1>6. ASSUME NEW p \in F PROVE \E k \in 1..MaxBreak + 1 : w[k] = p
  <2>0. p \in Nat /\ p <= MaxBreak
    BY <1>0
  <2>1. CASE p <= s
    <3>1. PICK k \in 1..m - s + 1 + p : w[k] = p
      BY <1>5, <2>1
    <3>2. k \in 1..MaxBreak + 1
      BY <1>0, <1>3, <2>0, <2>1
    <3> QED BY <3>1, <3>2
  <2>2. CASE p > s
    <3>1. PICK k \in 0..p - s : w[k] = p
      BY <1>1, <1>3, <2>0, <2>2
    <3>2. k # 0
      BY <3>1, <1>w, <2>2, <1>3
    <3>3. k \in 1..MaxBreak + 1
      BY <1>0, <1>3, <2>0, <3>2
    <3> QED BY <3>1, <3>3
  <2> QED BY <2>0, <2>1, <2>2, <1>3
<1> QED BY <1>6 DEF w

\* The walk is around the ring, and Ring is what it meets.
LEMMA RingIs ==
  ASSUME M!SimpleMallocAssumption, NEW h, NEW F, Chain(h.ptr, F), h.freep \in F
  PROVE  M!Ring(h) = F
<1>1. M!Ring(h) = {M!Walk(h)[k] : k \in 0..MaxBreak + 1}
  BY DEF M!Ring
<1>2. \A k \in 0..MaxBreak + 1 : M!Walk(h)[k] \in F
  BY WalkStays
<1>3. \A p \in F : \E k \in 0..MaxBreak + 1 : M!Walk(h)[k] = p
  <2>1. \A k \in 1..MaxBreak + 1 : k \in 0..MaxBreak + 1
    BY DEF M!SimpleMallocAssumption
  <2> QED BY Meets, <2>1
<1> QED BY <1>1, <1>2, <1>3

\* simple_free finds the last block below the one it is given.
LEMMA FreeAfter ==
  ASSUME M!SimpleMallocAssumption, NEW h, NEW F, Chain(h.ptr, F), h.freep \in F,
         NEW bp \in Nat, bp # M!base, bp \notin F
  PROVE  \E p \in F :
           /\ p < bp /\ \A q \in F : q < bp => q <= p
           /\ M!FreeBlock(h, bp) = [M!JoinLower(M!JoinUpper(h, bp, p), bp, p) EXCEPT !.freep = p]
<1> DEFINE w == M!Walk(h)
           T == {k \in 0..MaxBreak + 1 : M!GoesAfter(h, bp, w[k])}
           First(k) == /\ M!GoesAfter(h, bp, w[k])
                       /\ \A j \in 0..k - 1 : ~M!GoesAfter(h, bp, w[j])
           k0 == CHOOSE k \in 0..MaxBreak + 1 : First(k)
<1>a. /\ F \subseteq 0..MaxBreak /\ MaxBreak \in Nat /\ M!base = 0 /\ 0 \in F
      /\ bp > 0 /\ \A q \in F : h.ptr[q] \in F
  BY DEF Chain, M!base, M!Addresses, M!SimpleMallocAssumption
<1>b. 0..MaxBreak \subseteq Nat
  BY <1>a
<1>0. /\ MaxBreak \in Nat /\ M!base = 0 /\ 0 \in F
      /\ bp > 0 /\ F \subseteq Nat /\ \A q \in F : h.ptr[q] \in F
  BY <1>a, <1>b
<1>1. PICK y \in F : y < bp /\ \A q \in F : q < bp => q <= y
  BY BlockBelow
<1>2. M!GoesAfter(h, bp, y)
  <2>1. h.ptr[y] \in F /\ h.ptr[y] \in Nat /\ y \in Nat
    BY <1>0, <1>1
  <2>2. CASE \E q \in F : q > y
    <3>1. PICK q \in F : q > y
      BY <2>2
    <3>2. y < h.ptr[y]
      BY <3>1, <1>1 DEF Chain
    <3>3. bp < h.ptr[y]
      BY <3>2, <2>1, <1>1, <1>0
    <3> QED BY <3>3, <1>1 DEF M!GoesAfter
  <2>3. CASE ~\E q \in F : q > y
    <3>1. \A q \in F : q <= y
      BY <2>3, <1>0, <1>1
    <3>2. h.ptr[y] = 0
      BY <3>1, <1>0, <1>1 DEF Chain
    <3> QED BY <3>2, <2>1, <1>1 DEF M!GoesAfter
  <2> QED BY <2>2, <2>3
<1>3. ASSUME NEW q \in F, M!GoesAfter(h, bp, q)
      PROVE  q < bp /\ \A x \in F : x < bp => x <= q
  <2>1. h.ptr[q] \in F /\ h.ptr[q] \in Nat /\ q \in Nat
    BY <1>0
  <2>2. CASE bp > q /\ bp < h.ptr[q]
    <3>1. \A x \in F : x > q => h.ptr[q] <= x
      BY DEF Chain
    <3> QED BY <2>1, <2>2, <3>1, <1>0
  <2>3. CASE q >= h.ptr[q] /\ (bp > q \/ bp < h.ptr[q])
    <3>1. \A x \in F : x <= q
      <4>1. \A x \in F : x > q => q < h.ptr[q]
        BY DEF Chain
      <4> QED BY <4>1, <2>1, <2>3, <1>0
    <3>2. h.ptr[q] = 0
      BY <3>1, <1>0 DEF Chain
    <3> QED BY <3>1, <3>2, <2>1, <2>3, <1>0
  <2> QED BY <1>3, <2>2, <2>3 DEF M!GoesAfter
<1>4. \E k \in 0..MaxBreak + 1 : First(k)
  <2>1. PICK k \in 1..MaxBreak + 1 : w[k] = y
    BY <1>1, Meets
  <2>2. T # {} /\ T \subseteq Nat
    <3>1. k \in T
      BY <1>0, <1>2, <2>1
    <3> QED BY <3>1
  <2>3. PICK x \in T : \A j \in T : x <= j
    <3> HIDE DEF T
    <3> QED BY <2>2, Least
  <2>4. \A j \in 0..x - 1 : ~M!GoesAfter(h, bp, w[j])
    <3>1. \A j \in 0..x - 1 : j \notin T /\ j \in 0..MaxBreak + 1
      BY <2>3, <1>0
    <3> QED BY <3>1
  <2> QED BY <2>3, <2>4
<1>5. k0 \in 0..MaxBreak + 1 /\ First(k0)
  <2> HIDE DEF First
  <2> QED BY <1>4
<1>6. w[k0] \in F /\ M!GoesAfter(h, bp, w[k0])
  BY <1>5, WalkStays
<1>7. M!FreeBlock(h, bp) =
        [M!JoinLower(M!JoinUpper(h, bp, w[k0]), bp, w[k0]) EXCEPT !.freep = w[k0]]
  BY Zenon DEF M!FreeBlock, M!FirstPlace
<1> HIDE DEF w, k0
<1> QED BY <1>3, <1>6, <1>7

\* The headers after an exact fit: the block before is linked past it.
Linked(h, x, y, z) == [h EXCEPT !.ptr[x] = y, !.freep = z]

\* The headers after a split: the rest and the tail have their sizes.
Resized(h, x, w, m, z) == [h EXCEPT !.size[x] = @ - m, !.size[w] = m, !.freep = z]

\* What Take makes of the block p after prevp.
TakeAt(h, m, prevp, p) ==
  IF h.size[p] = m
  THEN [heap |-> Linked(h, prevp, h.ptr[p], prevp), block |-> p]
  ELSE [heap |-> Resized(h, p, p + h.size[p] - m, m, prevp), block |-> p + h.size[p] - m]

\* simple_malloc finds a block of the ring that is big enough, and the one
\* before it.
LEMMA TakeFrom ==
  ASSUME M!SimpleMallocAssumption, NEW h, NEW F, Chain(h.ptr, F), h.freep \in F,
         NEW m \in Nat, \E p \in F : h.size[p] >= m
  PROVE  \E prevp, p \in F : h.ptr[prevp] = p /\ h.size[p] >= m
                             /\ M!Take(h, m) = TakeAt(h, m, prevp, p)
<1> DEFINE w == M!Walk(h)
           T == {k \in 1..MaxBreak + 1 : h.size[w[k]] >= m}
           First(k) == h.size[w[k]] >= m /\ \A j \in 1..k - 1 : ~(h.size[w[j]] >= m)
           k0 == CHOOSE k \in 1..MaxBreak + 1 : First(k)
<1>0. MaxBreak \in Nat
  BY DEF M!SimpleMallocAssumption
<1>1. PICK y \in F : h.size[y] >= m
  OBVIOUS
<1>4. \E k \in 1..MaxBreak + 1 : First(k)
  <2>1. PICK k \in 1..MaxBreak + 1 : w[k] = y
    BY <1>1, Meets
  <2>2. T # {} /\ T \subseteq Nat
    <3>1. k \in T
      BY <1>1, <2>1
    <3> QED BY <3>1
  <2>3. PICK x \in T : \A j \in T : x <= j
    <3> HIDE DEF T
    <3> QED BY <2>2, Least
  <2>4. \A j \in 1..x - 1 : ~(h.size[w[j]] >= m)
    <3>1. \A j \in 1..x - 1 : j \notin T /\ j \in 1..MaxBreak + 1
      BY <2>3, <1>0
    <3> QED BY <3>1
  <2> QED BY <2>3, <2>4
<1>5. k0 \in 1..MaxBreak + 1 /\ First(k0)
  <2> HIDE DEF First
  <2> QED BY <1>4
<1>6. k0 \in 0..MaxBreak + 1 /\ k0 - 1 \in 0..MaxBreak + 1
  BY <1>5, <1>0
<1>7. w[k0] \in F /\ w[k0 - 1] \in F /\ h.ptr[w[k0 - 1]] = w[k0] /\ h.size[w[k0]] >= m
  <2>1. w[k0] \in F /\ w[k0 - 1] \in F
    BY <1>6, WalkStays
  <2>2. h.ptr[w[k0 - 1]] = w[k0]
    BY <1>5, WalkIs
  <2> QED BY <2>1, <2>2, <1>5
<1>8. M!Take(h, m) = TakeAt(h, m, w[k0 - 1], w[k0])
  BY Zenon DEF M!Take, TakeAt, M!FirstPlace, Linked, Resized
<1> HIDE DEF w, k0
<1> QED BY <1>7, <1>8

\* A block is linked between the two blocks around it.
LEMMA InsertChain ==
  ASSUME M!SimpleMallocAssumption, NEW f, NEW F, Chain(f, F),
         NEW b \in M!Addresses, b # M!base, b \notin F,
         NEW p \in F, p < b, \A q \in F : q < b => q <= p,
         NEW g, g[p] = b, g[b] = f[p], \A q \in F : q # p => g[q] = f[q]
  PROVE  Chain(g, F \cup {b}) /\ (\A q \in F : q > p => b < f[p])
         /\ (f[p] > p => b < f[p])
<1>0. /\ F \subseteq Nat /\ MaxBreak \in Nat /\ M!base = 0 /\ 0 \in F
         /\ F \subseteq M!Addresses
      /\ b \in Nat /\ b > 0 /\ M!Addresses \subseteq Nat
  BY DEF Chain, M!base, M!Addresses, M!SimpleMallocAssumption
<1>1. \A q \in F : q > p => q > b
  BY <1>0
<1>2. \A q \in F : f[q] \in F /\ \A x \in F : x > q => q < f[q] /\ f[q] <= x
  BY DEF Chain
<1>3. \A q \in F : (\A x \in F : x <= q) => f[q] = M!base
  BY DEF Chain
<1>4. ASSUME NEW q \in F, q # p
      PROVE  /\ g[q] \in F \cup {b}
             /\ \A x \in F \cup {b} : x > q => q < g[q] /\ g[q] <= x
             /\ (\A x \in F \cup {b} : x <= q) => g[q] = M!base
  <2>1. g[q] = f[q]
    BY <1>4
  <2>2. b > q => q < f[q] /\ f[q] <= b
    <3> SUFFICES ASSUME b > q PROVE q < f[q] /\ f[q] <= b
      OBVIOUS
    <3>1. q <= p /\ q \in Nat /\ p \in Nat
      BY <1>0
    <3>2. p > q
      BY <3>1, <1>4
    <3>3. q < f[q] /\ f[q] <= p /\ f[q] \in F
      BY <3>2, <1>2
    <3>4. f[q] \in Nat
      BY <3>3, <1>0
    <3> QED BY <3>1, <3>3, <3>4, <1>0
  <2> QED BY <2>1, <2>2, <1>2, <1>3
<1>5. /\ g[p] \in F \cup {b}
      /\ \A x \in F \cup {b} : x > p => p < g[p] /\ g[p] <= x
      /\ (\A x \in F \cup {b} : x <= p) => g[p] = M!base
  BY <1>0, <1>1
<1>6. /\ g[b] \in F \cup {b}
      /\ \A x \in F \cup {b} : x > b => b < g[b] /\ g[b] <= x
      /\ (\A x \in F \cup {b} : x <= b) => g[b] = M!base
  <2>1. ASSUME NEW x \in F, x > b PROVE x > p /\ b < f[p] /\ f[p] <= x
    <3>1. x > p
      BY <2>1, <1>0
    <3>2. f[p] \in F /\ p < f[p] /\ f[p] <= x
      BY <3>1, <1>2
    <3> QED BY <3>1, <3>2, <1>1
  <2>2. (\A x \in F : x <= b) => \A x \in F : x <= p
    BY <1>0
  <2> QED BY <2>1, <2>2, <1>0, <1>2, <1>3
<1>7. Chain(g, F \cup {b})
  BY <1>0, <1>4, <1>5, <1>6 DEF Chain
<1>8. /\ \A q \in F : q > p => b < f[p]
      /\ f[p] > p => b < f[p]
  BY <1>0, <1>1, <1>2
<1> QED BY <1>7, <1>8

\* A block is linked out of the ring.
LEMMA UnlinkChain ==
  ASSUME M!SimpleMallocAssumption, NEW f, NEW F, Chain(f, F),
         NEW p \in F, NEW b \in F, f[p] = b, b # M!base,
         NEW g, g[p] = f[b], \A q \in F : q # p /\ q # b => g[q] = f[q]
  PROVE  Chain(g, F \ {b}) /\ p # b /\ p < b
<1>0. /\ F \subseteq Nat /\ MaxBreak \in Nat /\ M!base = 0 /\ 0 \in F
         /\ F \subseteq M!Addresses
      /\ b \in Nat /\ b > 0
  BY DEF Chain, M!base, M!Addresses, M!SimpleMallocAssumption
<1>1. \A q \in F : f[q] \in F /\ \A x \in F : x > q => q < f[q] /\ f[q] <= x
  BY DEF Chain
<1>2. \A q \in F : (\A x \in F : x <= q) => f[q] = M!base
  BY DEF Chain
<1>3. p < b /\ \A x \in F : x > p => b <= x
  <2>1. \E x \in F : x > p
    BY <1>0, <1>2
  <2> QED BY <2>1, <1>1
<1>4. ASSUME NEW q \in F \ {b}, q # p
      PROVE  /\ g[q] \in F \ {b}
             /\ \A x \in F \ {b} : x > q => q < g[q] /\ g[q] <= x
             /\ (\A x \in F \ {b} : x <= q) => g[q] = M!base
  <2>1. g[q] = f[q]
    BY <1>4
  <2>2. f[q] # b
    <3>1. CASE q < b
      <4>1. q < p
        BY <3>1, <1>3, <1>4, <1>0
      <4> QED BY <4>1, <1>1, <1>3, <1>0
    <3>2. CASE q > b
      <4>1. CASE \E x \in F : x > q
        BY <4>1, <1>1, <3>2, <1>0
      <4>2. CASE ~\E x \in F : x > q
        BY <4>2, <1>2, <1>0
      <4> QED BY <4>1, <4>2
    <3> QED BY <3>1, <3>2, <1>4, <1>0
  <2>3. (\A x \in F \ {b} : x <= q) => \A x \in F : x <= q
    <3>1. SUFFICES ASSUME \A x \in F \ {b} : x <= q PROVE b <= q
      OBVIOUS
    <3>2. p <= q
      BY <3>1, <1>3, <1>0
    <3> QED BY <3>2, <1>3, <1>4, <1>0
  <2> QED BY <2>1, <2>2, <2>3, <1>1, <1>2
<1>5. /\ g[p] \in F \ {b}
      /\ \A x \in F \ {b} : x > p => p < g[p] /\ g[p] <= x
      /\ (\A x \in F \ {b} : x <= p) => g[p] = M!base
  <2>1. \A x \in F \ {b} : x > p => x > b
    BY <1>3, <1>0
  <2>2. f[b] # b
    <3>1. CASE \E x \in F : x > b
      BY <3>1, <1>1, <1>0
    <3>2. CASE ~\E x \in F : x > b
      BY <3>2, <1>2, <1>0
    <3> QED BY <3>1, <3>2
  <2>3. ASSUME NEW x \in F \ {b}, x > p PROVE p < f[b] /\ f[b] <= x
    <3>1. b < f[b] /\ f[b] <= x /\ f[b] \in F
      BY <2>1, <2>3, <1>1
    <3>2. f[b] \in Nat /\ p \in Nat
      BY <3>1, <1>0
    <3> QED BY <3>1, <3>2, <1>3, <1>0
  <2>4. (\A x \in F \ {b} : x <= p) => \A x \in F : x <= b
    BY <1>3, <1>0
  <2> QED BY <2>2, <2>3, <2>4, <1>1, <1>2
<1>6. p # b
  BY <1>3, <1>0
<1> QED BY <1>0, <1>3, <1>4, <1>5, <1>6 DEF Chain

\* Two blocks side by side become one.
LEMMA MergeShared ==
  ASSUME M!SimpleMallocAssumption, NEW g, NEW F, NEW U, NEW W, Shared(g, F, U, W),
         NEW b \in F \ {M!base}, NEW c \in F \ {M!base}, b + g[b] = c,
         NEW k, k[b] = g[b] + g[c],
         \A x \in M!Addresses : x # b => k[x] = g[x]
  PROVE  Shared(k, F \ {c}, U, W) /\ b < c
<1> DEFINE K == (F \cup U) \ {M!base}
           L == ((F \ {c}) \cup U) \ {M!base}
<1>0. /\ F \subseteq M!Addresses /\ U \subseteq M!Addresses /\ M!base \in F
         /\ F \cap U = {}
      /\ M!Addresses \subseteq Nat /\ g[M!base] = 0 /\ M!base \in M!Addresses
         /\ M!base = 0
      /\ W = UNION {x..x + g[x] - 1 : x \in K}
  BY DEF Shared, M!base, M!Addresses, M!SimpleMallocAssumption
<1>1. /\ \A x \in K : g[x] \in Nat \ {0} /\ x \in Nat /\ x \in M!Addresses
      /\ \A x, y \in K : x < y => x + g[x] <= y
      /\ b \in K /\ c \in K
  BY <1>0 DEF Shared
<1>2. L = K \ {c} /\ b < c /\ b # c /\ b \in L
  BY <1>0, <1>1
<1>3. /\ \A x \in L : x # b => k[x] = g[x]
      /\ k[b] \in Nat \ {0} /\ b + k[b] = c + g[c]
  BY <1>0, <1>1, <1>2
<1>4. \A x \in L : k[x] \in Nat \ {0}
  BY <1>1, <1>2, <1>3
<1>5. ASSUME NEW x \in L, NEW y \in L, x < y PROVE x + k[x] <= y
  <2>1. CASE x = b
    <3>1. y # c /\ y \in K /\ b + g[b] <= y
      BY <1>1, <1>2, <1>5, <2>1
    <3>2. c < y
      BY <3>1, <1>1
    <3> QED BY <3>1, <3>2, <2>1, <1>1, <1>3
  <2>2. CASE x # b
    BY <2>2, <1>1, <1>2, <1>3, <1>5
  <2> QED BY <2>1, <2>2
<1>6. W = UNION {x..x + k[x] - 1 : x \in L}
  <2>1. ASSUME NEW u \in W PROVE \E x \in L : u \in x..x + k[x] - 1
    <3>1. PICK x \in K : u \in x..x + g[x] - 1
      BY <1>0
    <3>2. CASE x = b \/ x = c
      BY <3>1, <3>2, <1>1, <1>2, <1>3
    <3>3. CASE x # b /\ x # c
      BY <3>1, <3>3, <1>2, <1>3
    <3> QED BY <3>2, <3>3
  <2>2. ASSUME NEW x \in L, NEW u \in x..x + k[x] - 1 PROVE u \in W
    <3>1. CASE x = b
      <4>1. u \in b..b + g[b] - 1 \/ u \in c..c + g[c] - 1
        BY <2>2, <3>1, <1>1, <1>3
      <4> QED BY <4>1, <1>0, <1>1
    <3>2. CASE x # b
      BY <2>2, <3>2, <1>0, <1>2, <1>3
    <3> QED BY <3>1, <3>2
  <2> HIDE DEF L
  <2> QED BY <2>1, <2>2
<1>7. k[M!base] = 0
  BY <1>0
<1> QED BY <1>0, <1>2, <1>4, <1>5, <1>6, <1>7 DEF Shared

\* The headers after a block was joined to the one above, or linked to it.
JoinedUpper(h, bp, p, j) ==
  LET n == h.ptr[p]
      up == bp + h.size[bp] = n
  IN /\ j \in Heaps /\ j.freep = h.freep
     /\ j.ptr[bp] = IF up THEN h.ptr[n] ELSE n
     /\ j.size[bp] = h.size[bp] + IF up THEN h.size[n] ELSE 0
     /\ \A a \in M!Addresses : a # bp => j.ptr[a] = h.ptr[a] /\ j.size[a] = h.size[a]

\* That is what JoinUpper does.
LEMMA JoinUpperIs ==
  ASSUME M!SimpleMallocAssumption, NEW h \in Heaps, NEW bp \in M!Addresses,
         NEW p \in M!Addresses
  PROVE  JoinedUpper(h, bp, p, M!JoinUpper(h, bp, p))
<1> DEFINE n == h.ptr[p]
           j == M!JoinUpper(h, bp, p)
<1>1. /\ h.ptr \in [M!Addresses -> M!Addresses] /\ h.size \in [M!Addresses -> Nat]
      /\ n \in M!Addresses /\ h.freep \in Nat
      /\ h = [ptr |-> h.ptr, size |-> h.size, freep |-> h.freep]
  BY DEF Heaps
<1>2. CASE bp + h.size[bp] = n
  <2>1. j = [ptr |-> [h.ptr EXCEPT ![bp] = h.ptr[n]],
             size |-> [h.size EXCEPT ![bp] = h.size[bp] + h.size[n]], freep |-> h.freep]
    BY <1>1, <1>2 DEF M!JoinUpper
  <2>2. h.ptr[n] \in M!Addresses /\ h.size[bp] + h.size[n] \in Nat
    BY <1>1
  <2> HIDE DEF j, n
  <2>3. /\ j.ptr = [h.ptr EXCEPT ![bp] = h.ptr[n]]
        /\ j.size = [h.size EXCEPT ![bp] = h.size[bp] + h.size[n]]
        /\ j.freep = h.freep
    BY <2>1
  <2>4. j \in Heaps
    BY <2>1, <2>2, <1>1 DEF Heaps
  <2> QED BY <2>3, <2>4, <1>1, <1>2 DEF j, n, JoinedUpper
<1>3. CASE bp + h.size[bp] # n
  <2>1. j = [ptr |-> [h.ptr EXCEPT ![bp] = n], size |-> h.size, freep |-> h.freep]
    BY <1>1, <1>3 DEF M!JoinUpper
  <2>2. h.size[bp] \in Nat
    BY <1>1
  <2> HIDE DEF j, n
  <2>3. j.ptr = [h.ptr EXCEPT ![bp] = n] /\ j.size = h.size /\ j.freep = h.freep
    BY <2>1
  <2>4. j \in Heaps
    BY <2>1, <1>1 DEF Heaps
  <2> QED BY <2>2, <2>3, <2>4, <1>1, <1>3 DEF j, n, JoinedUpper
<1> QED BY <1>2, <1>3

\* The headers after a block was joined to the one below, or linked to it.
JoinedLower(h, bp, p, j) ==
  LET low == p + h.size[p] = bp
  IN /\ j \in Heaps /\ j.freep = p
     /\ j.ptr[p] = IF low THEN h.ptr[bp] ELSE bp
     /\ j.size[p] = h.size[p] + IF low THEN h.size[bp] ELSE 0
     /\ \A a \in M!Addresses : a # p => j.ptr[a] = h.ptr[a] /\ j.size[a] = h.size[a]

\* That is what JoinLower does.
LEMMA JoinLowerIs ==
  ASSUME M!SimpleMallocAssumption, NEW h \in Heaps, NEW bp \in M!Addresses,
         NEW p \in M!Addresses
  PROVE  JoinedLower(h, bp, p, [M!JoinLower(h, bp, p) EXCEPT !.freep = p])
<1> DEFINE j == [M!JoinLower(h, bp, p) EXCEPT !.freep = p]
<1>a. /\ h.ptr \in [M!Addresses -> M!Addresses] /\ h.size \in [M!Addresses -> Nat]
      /\ h = [ptr |-> h.ptr, size |-> h.size, freep |-> h.freep]
  BY DEF Heaps
<1>b. p \in Nat
  BY DEF M!Addresses, M!SimpleMallocAssumption
<1>1. /\ h.ptr \in [M!Addresses -> M!Addresses] /\ h.size \in [M!Addresses -> Nat]
      /\ p \in Nat /\ h.size[p] \in Nat /\ h.size[bp] \in Nat
         /\ h.ptr[bp] \in M!Addresses
      /\ h = [ptr |-> h.ptr, size |-> h.size, freep |-> h.freep]
  BY <1>a, <1>b
<1>2. CASE p + h.size[p] = bp
  <2>1. j = [ptr |-> [h.ptr EXCEPT ![p] = h.ptr[bp]],
             size |-> [h.size EXCEPT ![p] = h.size[p] + h.size[bp]], freep |-> p]
    <3>1. M!JoinLower(h, bp, p)
            = [ptr |-> [h.ptr EXCEPT ![p] = h.ptr[bp]],
               size |-> [h.size EXCEPT ![p] = h.size[p] + h.size[bp]], freep |-> h.freep]
      BY <1>1, <1>2 DEF M!JoinLower
    <3> QED BY <3>1
  <2> HIDE DEF j
  <2>3. /\ j.ptr = [h.ptr EXCEPT ![p] = h.ptr[bp]]
        /\ j.size = [h.size EXCEPT ![p] = h.size[p] + h.size[bp]]
        /\ j.freep = p
    BY <2>1
  <2>4. j \in Heaps
    BY <2>1, <1>1 DEF Heaps
  <2> QED BY <2>3, <2>4, <1>1, <1>2 DEF j, JoinedLower
<1>3. CASE p + h.size[p] # bp
  <2>1. j = [ptr |-> [h.ptr EXCEPT ![p] = bp], size |-> h.size, freep |-> p]
    <3>1. M!JoinLower(h, bp, p)
            = [ptr |-> [h.ptr EXCEPT ![p] = bp], size |-> h.size, freep |-> h.freep]
      BY <1>1, <1>3 DEF M!JoinLower
    <3> QED BY <3>1
  <2> HIDE DEF j
  <2>3. j.ptr = [h.ptr EXCEPT ![p] = bp] /\ j.size = h.size /\ j.freep = p
    BY <2>1
  <2>4. j \in Heaps
    BY <2>1, <1>1 DEF Heaps
  <2> QED BY <2>3, <2>4, <1>1, <1>3 DEF j, JoinedLower
<1> QED BY <1>2, <1>3

\* Only the headers in the ring matter to the ring.
LEMMA SameChain ==
  ASSUME NEW f, NEW F, NEW g, Chain(f, F), \A x \in F : g[x] = f[x]
  PROVE  Chain(g, F)
BY DEF Chain

\* Only the headers of the blocks matter to what they share out.
LEMMA SameShared ==
  ASSUME NEW g, NEW F, NEW U, NEW W, NEW k, Shared(g, F, U, W),
         \A x \in F \cup U : k[x] = g[x]
  PROVE  Shared(k, F, U, W)
<1> DEFINE K == (F \cup U) \ {M!base}
<1>1. UNION {x..x + k[x] - 1 : x \in K} = UNION {x..x + g[x] - 1 : x \in K}
  <2>1. {x..x + k[x] - 1 : x \in K} = {x..x + g[x] - 1 : x \in K}
    <3>1. \A x \in K : x..x + k[x] - 1 = x..x + g[x] - 1
      OBVIOUS
    <3> HIDE DEF K
    <3> QED BY <3>1
  <2> QED BY <2>1
<1>2. k[M!base] = g[M!base]
  BY DEF Shared
<1>3. /\ \A b \in K : k[b] \in Nat \ {0}
      /\ \A b, c \in K : b < c => b + k[b] <= c
  BY DEF Shared
<1> QED BY <1>1, <1>2, <1>3 DEF Shared

\* Half of simple_free is done: the block given back is joined to the one
\* above where they touch, and may still touch the one below.
UpperJoin(h, F, U, W, bp, p, j, G) ==
  /\ p \in G /\ bp \in G /\ G \subseteq F \cup {bp}
  /\ Chain([j.ptr EXCEPT ![p] = bp], G)
  /\ Shared(j.size, G, U, W)
  /\ bp + j.size[bp] \notin G
  /\ \A b \in G \ {M!base, bp, p} : b + j.size[b] \notin G
  /\ p # M!base /\ p + j.size[p] \in G => p + j.size[p] = bp
  /\ j.size[bp] >= h.size[bp]
  /\ \A a \in U : j.size[a] = h.size[a]

\* That is where JoinUpper leaves the ring.
LEMMA UpperJoined ==
  ASSUME M!SimpleMallocAssumption, NEW h \in Heaps, NEW F, NEW U, NEW W,
         NEW bp \in M!Addresses, bp # M!base, bp \notin F,
         Chain(h.ptr, F), Shared(h.size, F \cup {bp}, U, W), Apart(h.size, F),
         NEW p \in F, p < bp, \A q \in F : q < bp => q <= p
  PROVE  \E G : UpperJoin(h, F, U, W, bp, p, M!JoinUpper(h, bp, p), G)
<1> DEFINE n == h.ptr[p]
           s == h.size
           j == M!JoinUpper(h, bp, p)
           ring == F \cup {bp}
           f1 == [h.ptr EXCEPT ![p] = bp, ![bp] = n]
           f2 == [j.ptr EXCEPT ![p] = bp]
<1>a. F \subseteq M!Addresses /\ M!base \in F /\ n \in F
  BY DEF Chain
<1>b. U \subseteq M!Addresses /\ ring \cap U = {} /\ s[M!base] = 0
  BY DEF Shared
<1>c. h.ptr \in [M!Addresses -> M!Addresses] /\ s \in [M!Addresses -> Nat]
  BY DEF Heaps
<1>d. M!base = 0 /\ M!Addresses \subseteq Nat /\ bp \in Nat
  BY DEF M!base, M!Addresses, M!SimpleMallocAssumption
<1>0. /\ F \subseteq M!Addresses /\ U \subseteq M!Addresses /\ M!base \in F
         /\ M!base = 0
      /\ M!Addresses \subseteq Nat /\ p \in M!Addresses /\ bp \in Nat /\ p \in Nat
      /\ n \in F /\ n \in M!Addresses /\ n \in Nat /\ p # bp
      /\ h.ptr \in [M!Addresses -> M!Addresses] /\ s \in [M!Addresses -> Nat]
      /\ ring \cap U = {} /\ s[M!base] = 0
  BY <1>a, <1>b, <1>c, <1>d
<1>1. /\ \A b \in ring \ {M!base} :
           s[b] \in Nat \ {0} /\ b \in Nat /\ b \in M!Addresses
      /\ \A b, c \in ring \ {M!base} : b < c => b + s[b] <= c
      /\ bp \in ring \ {M!base}
  BY <1>0 DEF Shared
<1>2. \A b \in F \ {M!base} : b + s[b] \notin F
  BY DEF Apart
<1>3. ASSUME NEW b \in F \ {M!base}, b + s[b] = bp PROVE b = p
  <2>1. b \in Nat /\ s[b] \in Nat \ {0} /\ b < bp /\ b <= p
    BY <1>0, <1>1, <1>3
  <2>2. CASE b < p
    <3>1. p \in ring \ {M!base}
      BY <2>1, <2>2, <1>0
    <3>2. b + s[b] <= p
      BY <3>1, <2>2, <1>1
    <3> QED BY <3>2, <1>3, <1>0
  <2> QED BY <2>1, <2>2, <1>0
<1>4. /\ f1[p] = bp /\ f1[bp] = n
      /\ \A q \in M!Addresses : q # p /\ q # bp => f1[q] = h.ptr[q]
  BY <1>0
<1>5. Chain(f1, ring) /\ \A q \in F : q > p => bp < n /\ n <= q
  <2>1. \A q \in F : q # p => f1[q] = h.ptr[q]
    BY <1>0, <1>4
  <2> HIDE DEF f1, ring
  <2>2. Chain(f1, F \cup {bp}) /\ (\A q \in F : q > p => bp < n)
    BY <1>4, <2>1, InsertChain
  <2>3. \A q \in F : q > p => n <= q
    BY DEF Chain
  <2> QED BY <2>2, <2>3 DEF ring
<1>6. bp + s[bp] \in F => bp + s[bp] = n
  <2> SUFFICES ASSUME bp + s[bp] \in F PROVE bp + s[bp] = n
    OBVIOUS
  <2>1. s[bp] \in Nat \ {0} /\ bp + s[bp] > p /\ bp + s[bp] \in Nat
    BY <1>0, <1>1
  <2>2. bp < n /\ n <= bp + s[bp]
    BY <2>1, <1>5
  <2>3. n \in ring \ {M!base}
    BY <2>2, <1>0
  <2>4. bp + s[bp] <= n
    BY <2>2, <2>3, <1>1
  <2> QED BY <2>1, <2>2, <2>4, <1>0
<1>7. /\ j \in Heaps
      /\ j.ptr[bp] = IF bp + s[bp] = n THEN h.ptr[n] ELSE n
      /\ j.size[bp] = s[bp] + IF bp + s[bp] = n THEN s[n] ELSE 0
      /\ \A a \in M!Addresses : a # bp => j.ptr[a] = h.ptr[a] /\ j.size[a] = s[a]
  <2>1. p \in M!Addresses
    BY <1>0
  <2>2. JoinedUpper(h, bp, p, j)
    BY <2>1, JoinUpperIs, Zenon
  <2> HIDE DEF j
  <2> QED BY <2>2 DEF JoinedUpper
<1> HIDE DEF j
<1>8. /\ f2[p] = bp /\ f2[bp] = j.ptr[bp]
      /\ \A q \in M!Addresses : q # p /\ q # bp => f2[q] = h.ptr[q]
  <2>1. j.ptr \in [M!Addresses -> M!Addresses]
    BY <1>7 DEF Heaps
  <2> QED BY <2>1, <1>0, <1>7
<1>9. /\ p # M!base => s[p] \in Nat \ {0} /\ j.size[p] = s[p]
      /\ \A a \in U : j.size[a] = s[a]
      /\ \A b \in F : j.size[b] = s[b]
  BY <1>0, <1>1, <1>7
<1> HIDE DEF f1, f2, s
<1>10. CASE bp + s[bp] = n
  <2> DEFINE G == ring \ {n}
  <2>1. n > bp /\ n # M!base /\ n # p /\ s[n] \in Nat \ {0} /\ n \in ring /\ bp # n
    BY <1>0, <1>1, <1>10
  <2>2. Chain(f2, G)
    <3>1. f2[bp] = f1[n]
      BY <1>0, <1>4, <1>7, <1>8, <1>10, <2>1
    <3>2. \A q \in ring : q # bp /\ q # n => f2[q] = f1[q]
      BY <1>0, <1>4, <1>8
    <3>3. bp \in ring /\ f1[bp] = n
      BY <1>4
    <3> HIDE DEF ring, n
    <3> QED BY <1>5, <2>1, <3>1, <3>2, <3>3, UnlinkChain
  <2>3. Shared(j.size, G, U, W)
    <3>1. bp \in ring \ {M!base} /\ n \in ring \ {M!base} /\ Shared(s, ring, U, W)
      BY <1>1, <2>1 DEF s
    <3>2. j.size[bp] = s[bp] + s[n]
          /\ \A x \in M!Addresses : x # bp => j.size[x] = s[x]
      BY <1>7, <1>10
    <3> HIDE DEF ring, n
    <3> QED BY <3>1, <3>2, <1>10, MergeShared
  <2>4. bp + j.size[bp] \notin G
    <3>1. j.size[bp] = s[bp] + s[n] /\ s[bp] \in Nat /\ bp + j.size[bp] = n + s[n]
      BY <1>0, <1>1, <1>7, <1>10, <2>1
    <3>2. n + s[n] \notin F /\ n + s[n] # bp
      BY <1>0, <1>2, <2>1
    <3> QED BY <3>1, <3>2
  <2>5. \A b \in G \ {M!base, bp, p} : b + j.size[b] \notin G
    BY <1>2, <1>3, <1>9
  <2>6. p # M!base /\ p + j.size[p] \in G => p + j.size[p] = bp
    BY <1>2, <1>9
  <2>7. p \in G /\ bp \in G /\ G \subseteq F \cup {bp}
    BY <1>0, <2>1
  <2>8. j.size[bp] >= s[bp]
    BY <1>1, <1>7, <1>10, <2>1
  <2> HIDE DEF G
  <2> QED BY <2>2, <2>3, <2>4, <2>5, <2>6, <2>7, <2>8, <1>9 DEF f2, s, j, UpperJoin
<1>11. CASE bp + s[bp] # n
  <2>2. Chain(f2, ring)
    <3>1. \A q \in F : q # p => f2[q] = h.ptr[q]
      BY <1>0, <1>8
    <3>2. f2[bp] = n /\ f2[p] = bp
      BY <1>7, <1>8, <1>11
    <3> QED BY <3>1, <3>2, InsertChain
  <2>3. Shared(j.size, ring, U, W)
    <3>1. j.size[bp] = s[bp]
      BY <1>1, <1>7, <1>11
    <3>2. \A x \in ring \cup U : j.size[x] = s[x]
      BY <1>9, <3>1
    <3>3. Shared(s, ring, U, W)
      BY DEF s
    <3> HIDE DEF ring
    <3> QED BY <3>2, <3>3, SameShared
  <2>4. bp + j.size[bp] \notin ring /\ j.size[bp] >= s[bp]
    BY <1>0, <1>1, <1>6, <1>7, <1>11
  <2>5. \A b \in ring \ {M!base, bp, p} : b + j.size[b] \notin ring
    BY <1>2, <1>3, <1>9
  <2>6. p # M!base /\ p + j.size[p] \in ring => p + j.size[p] = bp
    BY <1>2, <1>9
  <2>7. p \in ring /\ bp \in ring /\ ring \subseteq F \cup {bp}
    OBVIOUS
  <2> HIDE DEF ring
  <2> QED BY <2>2, <2>3, <2>4, <2>5, <2>6, <2>7, <1>9 DEF f2, s, j, UpperJoin
<1> QED BY <1>10, <1>11

\* Where simple_free leaves the ring: in order, with room for the block
\* given back, and the blocks in use as they were.
Freed(h, U, W, bp, r) ==
  /\ r \in Heaps
  /\ \A a \in U : r.size[a] = h.size[a]
  /\ \E G : /\ r.freep \in G
            /\ Chain(r.ptr, G)
            /\ Shared(r.size, G, U, W)
            /\ Apart(r.size, G)
            /\ \E c \in G : r.size[c] >= h.size[bp]

\* simple_free does that with a block that is in no ring.
LEMMA FreeKeeps ==
  ASSUME M!SimpleMallocAssumption, NEW h \in Heaps, NEW F, NEW U, NEW W,
         NEW bp \in M!Addresses, bp # M!base, bp \notin F, h.freep \in F,
         Chain(h.ptr, F), Shared(h.size, F \cup {bp}, U, W), Apart(h.size, F)
  PROVE  Freed(h, U, W, bp, M!FreeBlock(h, bp))
<1>0. M!Addresses \subseteq Nat /\ M!base = 0 /\ bp \in Nat /\ F \subseteq M!Addresses
      /\ U \subseteq M!Addresses /\ F \cap U = {}
  BY DEF M!Addresses, M!base, M!SimpleMallocAssumption, Chain, Shared
<1>1. PICK p \in F : /\ p < bp /\ \A q \in F : q < bp => q <= p
                     /\ M!FreeBlock(h, bp)
                          = [M!JoinLower(M!JoinUpper(h, bp, p), bp, p) EXCEPT !.freep = p]
  BY <1>0, FreeAfter
<1> DEFINE j == M!JoinUpper(h, bp, p)
           r == M!FreeBlock(h, bp)
           f2 == [j.ptr EXCEPT ![p] = bp]
<1>a. PICK G : UpperJoin(h, F, U, W, bp, p, j, G)
  BY <1>1, UpperJoined, Zenon
<1>2. /\ p \in G /\ bp \in G /\ G \subseteq F \cup {bp}
      /\ Chain(f2, G)
      /\ Shared(j.size, G, U, W)
      /\ bp + j.size[bp] \notin G
      /\ \A b \in G \ {M!base, bp, p} : b + j.size[b] \notin G
      /\ p # M!base /\ p + j.size[p] \in G => p + j.size[p] = bp
      /\ j.size[bp] >= h.size[bp]
      /\ \A a \in U : j.size[a] = h.size[a]
  BY <1>a, Zenon DEF UpperJoin
<1>3. j \in Heaps
  <2>1. p \in M!Addresses
    BY <1>0
  <2>2. JoinedUpper(h, bp, p, j)
    BY <2>1, JoinUpperIs, Zenon
  <2> QED BY <2>2, Zenon DEF JoinedUpper
<1> HIDE DEF j
<1>4. /\ r \in Heaps /\ r.freep = p
      /\ r.ptr[p] = IF p + j.size[p] = bp THEN j.ptr[bp] ELSE bp
      /\ r.size[p] = j.size[p] + IF p + j.size[p] = bp THEN j.size[bp] ELSE 0
      /\ \A a \in M!Addresses : a # p => r.ptr[a] = j.ptr[a] /\ r.size[a] = j.size[a]
  <2>1. p \in M!Addresses
    BY <1>0
  <2>2. JoinedLower(j, bp, p, r)
    BY <2>1, <1>1, <1>3, JoinLowerIs, Zenon DEF j
  <2> HIDE DEF r
  <2> QED BY <2>2 DEF JoinedLower
<1> HIDE DEF r
<1>5. /\ f2[p] = bp /\ \A a \in M!Addresses : a # p => f2[a] = j.ptr[a]
      /\ j.size \in [M!Addresses -> Nat] /\ p # bp /\ h.size[bp] \in Nat
      /\ j.size[p] \in Nat /\ j.size[bp] \in Nat /\ p \in Nat
         /\ G \subseteq M!Addresses
  BY <1>0, <1>1, <1>2, <1>3 DEF Heaps
<1> HIDE DEF f2
<1>6. \A a \in U : r.size[a] = h.size[a]
  BY <1>0, <1>2, <1>4
<1>7. CASE p + j.size[p] = bp
  <2>1. p # M!base /\ p \in G \ {M!base} /\ bp \in G \ {M!base}
    <3>1. j.size[M!base] = 0
      BY <1>2 DEF Shared
    <3> QED BY <3>1, <1>0, <1>2, <1>7
  <2>2. Chain(r.ptr, G \ {bp})
    <3>1. r.ptr[p] = f2[bp] /\ \A q \in G : q # p /\ q # bp => r.ptr[q] = f2[q]
      BY <1>0, <1>4, <1>5, <1>7
    <3>2. p \in G /\ bp \in G /\ Chain(f2, G) /\ f2[p] = bp
      BY <1>2, <1>5
    <3> QED BY <3>1, <3>2, UnlinkChain
  <2>3. Shared(r.size, G \ {bp}, U, W)
    <3>1. /\ r.size[p] = j.size[p] + j.size[bp]
          /\ \A x \in M!Addresses : x # p => r.size[x] = j.size[x]
      BY <1>4, <1>7
    <3> QED BY <3>1, <2>1, <1>2, <1>7, MergeShared
  <2>4. Apart(r.size, G \ {bp})
    <3>1. p + r.size[p] \notin G
      BY <1>2, <1>4, <1>5, <1>7
    <3>2. \A b \in G \ {M!base, bp, p} : r.size[b] = j.size[b]
      BY <1>4, <1>5
    <3> QED BY <3>1, <3>2, <1>2 DEF Apart
  <2>5. p \in G \ {bp} /\ r.size[p] >= h.size[bp]
    BY <1>2, <1>4, <1>5, <1>7
  <2> QED BY <2>2, <2>3, <2>4, <2>5, <1>4, <1>6 DEF r, Freed
<1>8. CASE p + j.size[p] # bp
  <2>1. \A q \in G : r.ptr[q] = f2[q] /\ r.size[q] = j.size[q]
    BY <1>4, <1>5, <1>8
  <2>2. Chain(r.ptr, G)
    BY <2>1, <1>2, SameChain
  <2>3. Shared(r.size, G, U, W)
    <3>1. \A x \in G \cup U : r.size[x] = j.size[x]
      BY <2>1, <1>2, <1>6
    <3> QED BY <3>1, <1>2, SameShared
  <2>4. Apart(r.size, G)
    BY <2>1, <1>2, <1>8 DEF Apart
  <2>5. bp \in G /\ r.size[bp] >= h.size[bp]
    BY <2>1, <1>2
  <2> QED BY <2>2, <2>3, <2>4, <2>5, <1>2, <1>4, <1>6 DEF r, Freed
<1> QED BY <1>7, <1>8

\* The units of a request are room for its bytes and a header.
LEMMA UnitsEnough ==
  ASSUME M!SimpleMallocAssumption, NEW n \in Nat
  PROVE  M!Units(n) \in Nat \ {0} /\ (M!Units(n) - 1) * HeaderBytes >= n
<1> DEFINE d == (n + HeaderBytes - 1) \div HeaderBytes
<1>1. HeaderBytes \in Nat \ {0}
  BY DEF M!SimpleMallocAssumption
<1>2. d \in Int /\ d * HeaderBytes >= n
  BY <1>1
<1>3. d >= 0
  <2>1. \A k \in Int : k <= -1 => k * HeaderBytes <= -HeaderBytes
    BY <1>1
  <2> HIDE DEF d
  <2> QED BY <1>1, <1>2, <2>1
<1>4. M!Units(n) = d + 1
  BY DEF M!Units
<1> HIDE DEF d
<1>5. M!Units(n) \in Nat \ {0} /\ M!Units(n) - 1 = d
  BY <1>2, <1>3, <1>4
<1> QED BY <1>2, <1>5

\* A block is split in two, the second for a client.
LEMMA SplitShared ==
  ASSUME M!SimpleMallocAssumption, NEW g, NEW F, NEW U, NEW W, Shared(g, F, U, W),
         NEW p \in F \ {M!base}, NEW m \in Nat \ {0}, NEW r \in Nat \ {0}, g[p] = r + m,
         p + r \in M!Addresses,
         NEW k, k[p] = r, k[p + r] = m,
         \A x \in M!Addresses : x # p /\ x # p + r => k[x] = g[x]
  PROVE  Shared(k, F, U \cup {p + r}, W) /\ p + r \notin F /\ p + r \notin U
         /\ p + r # M!base
<1> DEFINE q == p + r
           K == (F \cup U) \ {M!base}
           V == U \cup {q}
           L == (F \cup V) \ {M!base}
<1>0. /\ F \subseteq M!Addresses /\ U \subseteq M!Addresses /\ M!base \in F
         /\ F \cap U = {}
      /\ g[M!base] = 0
      /\ W = UNION {x..x + g[x] - 1 : x \in K}
  BY DEF Shared
<1>a. M!Addresses \subseteq Nat /\ M!base \in M!Addresses /\ M!base = 0
  BY DEF M!base, M!Addresses, M!SimpleMallocAssumption
<1>1. /\ \A x \in K : g[x] \in Nat \ {0} /\ x \in Nat /\ x \in M!Addresses
      /\ \A x, y \in K : x < y => x + g[x] <= y
      /\ p \in K /\ p \in Nat
  BY <1>0, <1>a DEF Shared
<1>2. q \in Nat /\ p < q /\ q + m = p + g[p] /\ q # M!base /\ q \in M!Addresses
  BY <1>1, <1>a
<1>3. q \notin K
  <2> SUFFICES ASSUME q \in K PROVE FALSE
    OBVIOUS
  <2>1. p + g[p] <= q
    BY <1>1, <1>2
  <2> QED BY <2>1, <1>1, <1>2
<1>4. /\ \A x \in K : x # p => k[x] = g[x]
      /\ k[q] = m /\ k[p] = r
  BY <1>1, <1>3
<1> HIDE DEF q
<1>5. L = K \cup {q}
  BY <1>2
<1>6. \A x \in L : k[x] \in Nat \ {0} /\ x \in Nat
  BY <1>1, <1>2, <1>4, <1>5
<1>7. ASSUME NEW x \in L, NEW y \in L, x < y PROVE x + k[x] <= y
  <2>1. CASE x = q
    <3>1. y \in K /\ p < y
      BY <1>7, <2>1, <1>1, <1>2, <1>5, <1>6
    <3>2. p + g[p] <= y
      BY <3>1, <1>1
    <3> QED BY <2>1, <3>2, <1>2, <1>4
  <2>2. CASE x = p
    <3>1. CASE y = q
      BY <2>2, <3>1, <1>2, <1>4 DEF q
    <3>2. CASE y # q
      <4>1. p + g[p] <= y /\ y \in Nat
        BY <3>2, <2>2, <1>7, <1>5, <1>1
      <4> QED BY <2>2, <4>1, <1>1, <1>4
    <3> QED BY <3>1, <3>2
  <2>3. CASE x # p /\ x # q
    <3>0. x \in K /\ k[x] = g[x] /\ x \in Nat /\ g[x] \in Nat \ {0}
      BY <2>3, <1>4, <1>5, <1>1
    <3>1. CASE y = q
      <4>1. CASE x < p
        <5>1. x + g[x] <= p
          BY <4>1, <3>0, <1>1
        <5> QED BY <3>0, <3>1, <5>1, <1>1, <1>2
      <4>2. CASE p < x
        <5>1. p + g[p] <= x
          BY <4>2, <3>0, <1>1
        <5> QED BY <3>0, <3>1, <5>1, <1>7, <1>1, <1>2
      <4> QED BY <4>1, <4>2, <3>0, <2>3, <1>1
    <3>2. CASE y # q
      BY <3>0, <3>2, <1>5, <1>7, <1>1
    <3> QED BY <3>1, <3>2
  <2> QED BY <2>1, <2>2, <2>3
<1>8. W = UNION {x..x + k[x] - 1 : x \in L}
  <2>1. ASSUME NEW u \in W PROVE \E x \in L : u \in x..x + k[x] - 1
    <3>1. PICK x \in K : u \in x..x + g[x] - 1
      BY <1>0
    <3>2. CASE x = p
      <4>1. p \in L /\ q \in L
        BY <1>1, <1>5
      <4>2. u \in p..p + k[p] - 1 \/ u \in q..q + k[q] - 1
        BY <3>1, <3>2, <1>1, <1>2, <1>4 DEF q
      <4> HIDE DEF L
      <4> QED BY <4>1, <4>2
    <3>3. CASE x # p
      BY <3>1, <3>3, <1>4, <1>5
    <3> QED BY <3>2, <3>3
  <2>2. ASSUME NEW x \in L, NEW u \in x..x + k[x] - 1 PROVE u \in W
    <3>1. CASE x = p \/ x = q
      <4>1. u \in p..p + g[p] - 1
        BY <2>2, <3>1, <1>1, <1>2, <1>4 DEF q
      <4> QED BY <4>1, <1>0, <1>1
    <3>2. CASE x # p /\ x # q
      BY <2>2, <3>2, <1>0, <1>4, <1>5
    <3> QED BY <3>1, <3>2
  <2> HIDE DEF L
  <2> QED BY <2>1, <2>2
<1>9. k[M!base] = 0
  BY <1>0, <1>a, <1>2 DEF q
<1>10. q \notin F /\ q \notin U /\ V \subseteq M!Addresses /\ F \cap V = {}
  BY <1>0, <1>2, <1>3
<1>11. Shared(k, F, V, W)
  BY <1>0, <1>6, <1>7, <1>8, <1>9, <1>10 DEF Shared
<1> QED BY <1>2, <1>10, <1>11 DEF q

\* A block that fits leaves the ring for a client.
LEMMA HandShared ==
  ASSUME NEW g, NEW F, NEW U, NEW W, Shared(g, F, U, W), NEW p \in F \ {M!base}
  PROVE  Shared(g, F \ {p}, U \cup {p}, W) /\ p \notin U
<1>1. (F \cup U) \ {M!base} = ((F \ {p}) \cup (U \cup {p})) \ {M!base}
  OBVIOUS
<1> QED BY <1>1 DEF Shared

\* The two assignments of an exact fit.
LEMMA LinkSet ==
  ASSUME NEW h \in Heaps, NEW x \in M!Addresses, NEW y \in M!Addresses, NEW z \in Nat
  PROVE  Linked(h, x, y, z)
           = [ptr |-> [h.ptr EXCEPT ![x] = y], size |-> h.size, freep |-> z]
<1> DEFINE k == [h EXCEPT !.ptr[x] = y]
<1>1. k = [ptr |-> [h.ptr EXCEPT ![x] = y], size |-> h.size, freep |-> h.freep]
  BY DEF Heaps
<1>2. Linked(h, x, y, z) = [k EXCEPT !.freep = z]
  BY SMT DEF Linked
<1> HIDE DEF k
<1>3. [k EXCEPT !.freep = z] = [ptr |-> [h.ptr EXCEPT ![x] = y], size |-> h.size, freep |-> z]
  BY <1>1
<1> QED BY <1>2, <1>3

\* The three assignments of a split.
LEMMA SizesSet ==
  ASSUME NEW h \in Heaps, NEW x \in M!Addresses, NEW m \in Nat,
         NEW w \in M!Addresses, NEW z \in Nat
  PROVE  Resized(h, x, w, m, z)
           = [ptr |-> h.ptr,
              size |-> [[h.size EXCEPT ![x] = h.size[x] - m] EXCEPT ![w] = m], freep |-> z]
<1> DEFINE k == [h EXCEPT !.size[x] = @ - m]
           n == [k EXCEPT !.size[w] = m]
           s == [h.size EXCEPT ![x] = h.size[x] - m]
<1>1. k = [ptr |-> h.ptr, size |-> s, freep |-> h.freep]
  BY DEF Heaps
<1>2. Resized(h, x, w, m, z) = [n EXCEPT !.freep = z]
  BY SMT DEF Resized
<1> HIDE DEF k, s
<1>3. n = [ptr |-> h.ptr, size |-> [s EXCEPT ![w] = m], freep |-> h.freep]
  BY <1>1
<1> HIDE DEF n
<1>4. [n EXCEPT !.freep = z] = [ptr |-> h.ptr, size |-> [s EXCEPT ![w] = m], freep |-> z]
  BY <1>3
<1> QED BY <1>2, <1>4 DEF s

\* Where simple_malloc leaves the ring: in order, with one more block in
\* use.
Taken(h, F, U, W, m, t, G) ==
  /\ t.heap \in Heaps
  /\ t.block \in M!Addresses \ {M!base} /\ t.block \notin U
     /\ t.heap.size[t.block] = m
  /\ \A a \in U : t.heap.size[a] = h.size[a]
  /\ t.heap.freep \in G
  /\ Chain(t.heap.ptr, G)
  /\ Shared(t.heap.size, G, U \cup {t.block}, W)
  /\ Apart(t.heap.size, G)

\* Take does that if a block is big enough.
LEMMA TakeKeeps ==
  ASSUME M!SimpleMallocAssumption, NEW h \in Heaps, NEW F, NEW U, NEW W,
         W \subseteq M!Addresses,
         h.freep \in F, Chain(h.ptr, F), Shared(h.size, F, U, W), Apart(h.size, F),
         NEW m \in Nat \ {0}, \E p \in F : h.size[p] >= m
  PROVE  \E G : Taken(h, F, U, W, m, M!Take(h, m), G)
<1>a. h.ptr \in [M!Addresses -> M!Addresses] /\ h.size \in [M!Addresses -> Nat]
      /\ h = [ptr |-> h.ptr, size |-> h.size, freep |-> h.freep]
  BY DEF Heaps
<1>b. /\ F \subseteq M!Addresses /\ U \subseteq M!Addresses /\ M!base \in F
         /\ F \cap U = {}
      /\ h.size[M!base] = 0
  BY DEF Shared
<1>c. M!Addresses \subseteq Nat /\ M!base = 0
  BY DEF M!Addresses, M!base, M!SimpleMallocAssumption
<1>1. PICK prevp \in F, p \in F :
        h.ptr[prevp] = p /\ h.size[p] >= m /\ M!Take(h, m) = TakeAt(h, m, prevp, p)
  BY TakeFrom
<1>2. /\ p # M!base /\ p \in M!Addresses /\ prevp \in M!Addresses /\ p \in Nat
         /\ h.size[p] \in Nat
      /\ prevp \in Nat /\ p \notin U /\ h.ptr[p] \in M!Addresses
  BY <1>a, <1>b, <1>c, <1>1
<1>3. CASE h.size[p] = m
  <2> DEFINE f == [h.ptr EXCEPT ![prevp] = h.ptr[p]]
             t == [heap |-> [ptr |-> f, size |-> h.size, freep |-> prevp], block |-> p]
  <2>1. M!Take(h, m) = t
    <3>1. Linked(h, prevp, h.ptr[p], prevp)
            = [ptr |-> f, size |-> h.size, freep |-> prevp]
      <4> DEFINE y == h.ptr[p]
      <4>1. prevp \in M!Addresses /\ prevp \in Nat /\ y \in M!Addresses
        BY <1>2
      <4>2. f = [h.ptr EXCEPT ![prevp] = y]
        OBVIOUS
      <4> HIDE DEF y, f
      <4>3. Linked(h, prevp, y, prevp)
              = [ptr |-> [h.ptr EXCEPT ![prevp] = y], size |-> h.size, freep |-> prevp]
        BY <4>1, LinkSet, Zenon
      <4> QED BY <4>2, <4>3 DEF y
    <3> QED BY <3>1, <1>1, <1>3, Zenon DEF TakeAt
  <2>2. f \in [M!Addresses -> M!Addresses] /\ f[prevp] = h.ptr[p]
        /\ \A x \in F : x # prevp /\ x # p => f[x] = h.ptr[x]
    BY <1>a, <1>b, <1>2
  <2> HIDE DEF f
  <2>3. Chain(f, F \ {p}) /\ prevp # p
    <3> DEFINE o == h.ptr
    <3>1. Chain(o, F) /\ prevp \in F /\ p \in F /\ o[prevp] = p /\ p # M!base
      BY <1>1, <1>2
    <3>2. f[prevp] = o[p] /\ \A x \in F : x # prevp /\ x # p => f[x] = o[x]
      BY <2>2
    <3> HIDE DEF o
    <3> QED BY <3>1, <3>2, UnlinkChain
  <2>4. Shared(h.size, F \ {p}, U \cup {p}, W)
    BY <1>2, HandShared
  <2>5. Apart(h.size, F \ {p})
    BY DEF Apart
  <2>6. t.heap \in Heaps
    BY <2>2, <1>a, <1>2 DEF Heaps
  <2>7. /\ t.heap.ptr = f /\ t.heap.size = h.size /\ t.heap.freep = prevp
           /\ t.block = p
    OBVIOUS
  <2> HIDE DEF t
  <2>8. Taken(h, F, U, W, m, t, F \ {p})
    BY <2>3, <2>4, <2>5, <2>6, <2>7, <1>2, <1>3 DEF Taken
  <2> QED BY <2>1, <2>8
<1>4. CASE h.size[p] # m
  <2> DEFINE r == h.size[p] - m
             q == p + r
             k == [[h.size EXCEPT ![p] = r] EXCEPT ![q] = m]
             t == [heap |-> [ptr |-> h.ptr, size |-> k, freep |-> prevp], block |-> q]
  <2>1. r \in Nat \ {0} /\ h.size[p] = r + m /\ q \in Nat /\ q # p
        /\ p + h.size[p] - m = q
    BY <1>1, <1>2, <1>4
  <2>2. q \in M!Addresses
    <3>1. p..p + h.size[p] - 1 \subseteq W
      BY <1>1, <1>2 DEF Shared
    <3>2. q \in p..p + h.size[p] - 1
      BY <2>1, <1>2
    <3> QED BY <3>1, <3>2
  <2>3. M!Take(h, m) = t
    <3>1. Resized(h, p, q, m, prevp)
            = [ptr |-> h.ptr, size |-> k, freep |-> prevp]
      <4>0. p \in M!Addresses /\ q \in M!Addresses /\ prevp \in Nat /\ m \in Nat
        BY <1>2, <2>2
      <4>1. k = [[h.size EXCEPT ![p] = h.size[p] - m] EXCEPT ![q] = m]
        OBVIOUS
      <4> HIDE DEF q, r, k
      <4>2. Resized(h, p, q, m, prevp)
              = [ptr |-> h.ptr,
                 size |-> [[h.size EXCEPT ![p] = h.size[p] - m] EXCEPT ![q] = m],
                 freep |-> prevp]
        BY <4>0, SizesSet
      <4> QED BY <4>1, <4>2
    <3> HIDE DEF k
    <3> QED BY <3>1, <2>1, <1>1, <1>4 DEF TakeAt
  <2> HIDE DEF r, q
  <2>4. /\ k[p] = r /\ k[q] = m
        /\ \A x \in M!Addresses : x # p /\ x # q => k[x] = h.size[x]
        /\ k \in [M!Addresses -> Nat]
    BY <2>1, <2>2, <1>a, <1>2
  <2> HIDE DEF k
  <2>5. Shared(k, F, U \cup {q}, W) /\ q \notin F /\ q \notin U /\ q # M!base
    <3>1. q = p + r
      BY DEF q
    <3>2. /\ p \in F \ {M!base} /\ h.size[p] = r + m /\ p + r \in M!Addresses
          /\ k[p] = r /\ k[p + r] = m
          /\ \A x \in M!Addresses : x # p /\ x # p + r => k[x] = h.size[x]
      BY <3>1, <2>1, <2>2, <2>4, <1>2
    <3>3. /\ Shared(k, F, U \cup {p + r}, W)
          /\ p + r \notin F /\ p + r \notin U /\ p + r # M!base
      BY <3>2, <2>1, SplitShared
    <3> QED BY <3>1, <3>3
  <2>6. Apart(k, F)
    <3>1. p + k[p] \notin F
      BY <2>4, <2>5 DEF q
    <3>2. \A b \in F \ {M!base} : b # p => k[b] = h.size[b]
      BY <2>4, <2>5, <1>b
    <3> QED BY <3>1, <3>2 DEF Apart
  <2>7. t.heap \in Heaps
    BY <2>4, <1>a, <1>2 DEF Heaps
  <2>8. /\ t.heap.ptr = h.ptr /\ t.heap.size = k /\ t.heap.freep = prevp
           /\ t.block = q
    OBVIOUS
  <2>9. \A a \in U : k[a] = h.size[a]
    BY <2>4, <2>5, <1>b, <1>2
  <2> HIDE DEF t
  <2>10. Taken(h, F, U, W, m, t, F)
    BY <2>2, <2>4, <2>5, <2>6, <2>7, <2>8, <2>9 DEF Taken
  <2> QED BY <2>3, <2>10
<1> QED BY <1>3, <1>4

\* A request is a number of bytes.
LEMMA RequestCounts == ASSUME M!SimpleMallocAssumption PROVE Requests \subseteq Nat
<1>1. M!INT_MAX \in Int
  BY DEF M!INT_MAX
<1>2. 0..M!INT_MAX \subseteq Nat
  BY <1>1
<1> QED BY <1>2 DEF M!SimpleMallocAssumption

\* A block lies in the memory that is shared out.
LEMMA BlocksInside ==
  ASSUME NEW g, NEW F, NEW U, NEW W, Shared(g, F, U, W),
         NEW b \in (F \cup U) \ {M!base}, b \in Nat
  PROVE  b..b + g[b] - 1 \subseteq W /\ b \in W /\ b + g[b] - 1 \in W
         /\ g[b] \in Nat \ {0}
<1>1. b..b + g[b] - 1 \subseteq W /\ g[b] \in Nat \ {0}
  BY DEF Shared
<1>2. b \in b..b + g[b] - 1 /\ b + g[b] - 1 \in b..b + g[b] - 1
  BY <1>1
<1> QED BY <1>1, <1>2

\* A block in use is one more block that is not.
LEMMA GivenBack ==
  ASSUME NEW g, NEW F, NEW U, NEW W, Shared(g, F, U, W), NEW b \in U
  PROVE  Shared(g, F \cup {b}, U \ {b}, W) /\ b \notin F /\ b # M!base
<1>1. (F \cup U) \ {M!base} = ((F \cup {b}) \cup (U \ {b})) \ {M!base}
  OBVIOUS
<1> QED BY <1>1 DEF Shared

\* The sizes after a block c of n units was added.
Grown(g, F, U, c, n, k) == k[c] = n /\ \A x \in F \cup U : x # c => k[x] = g[x]

\* The memory that sbrk gives is one more block, above the others.
LEMMA AddShared ==
  ASSUME M!SimpleMallocAssumption, NEW g, NEW F, NEW U, NEW W, Shared(g, F, U, W),
         NEW c \in M!Addresses, c # M!base, W \subseteq 1..c - 1, NEW n \in Nat \ {0},
         NEW k, Grown(g, F, U, c, n, k)
  PROVE  Shared(k, F \cup {c}, U, W \cup (c..c + n - 1)) /\ c \notin F /\ c \notin U
<1> DEFINE K == (F \cup U) \ {M!base}
           L == ((F \cup {c}) \cup U) \ {M!base}
<1>0. /\ F \subseteq M!Addresses /\ U \subseteq M!Addresses /\ M!base \in F
         /\ F \cap U = {}
      /\ g[M!base] = 0 /\ W = UNION {x..x + g[x] - 1 : x \in K}
      /\ \A x, y \in K : x < y => x + g[x] <= y
  BY DEF Shared
<1>a. M!Addresses \subseteq Nat /\ M!base = 0 /\ c \in Nat
  BY DEF M!base, M!Addresses, M!SimpleMallocAssumption
<1>1. ASSUME NEW x \in K
      PROVE  x \in Nat /\ g[x] \in Nat \ {0} /\ x + g[x] <= c /\ x < c
  <2>1. x \in Nat
    BY <1>0, <1>a
  <2>2. x \in W /\ x + g[x] - 1 \in W /\ g[x] \in Nat \ {0}
    BY <2>1, BlocksInside
  <2>3. x \in 1..c - 1 /\ x + g[x] - 1 \in 1..c - 1
    BY <2>2
  <2> HIDE DEF K
  <2> QED BY <2>1, <2>2, <2>3, <1>a
<1>2. c \notin K /\ c \notin F /\ c \notin U
  <2>1. c \notin K
    BY <1>1, <1>a
  <2> QED BY <2>1
<1>3. L = K \cup {c} /\ k[c] = n /\ \A x \in K : k[x] = g[x]
  BY <1>2 DEF Grown
<1> HIDE DEF K, L
<1>4. \A x \in L : k[x] \in Nat \ {0}
  BY <1>1, <1>3
<1>5. ASSUME NEW x \in L, NEW y \in L, x < y PROVE x + k[x] <= y
  <2>1. x # c
    BY <1>1, <1>3, <1>5, <1>a
  <2>2. x \in K /\ k[x] = g[x]
    BY <2>1, <1>3
  <2>3. CASE y = c
    BY <2>2, <2>3, <1>1
  <2>4. CASE y # c
    BY <2>2, <2>4, <1>0, <1>3, <1>5
  <2> QED BY <2>3, <2>4
<1>6. W \cup (c..c + n - 1) = UNION {x..x + k[x] - 1 : x \in L}
  <2>1. ASSUME NEW u \in W PROVE \E x \in L : u \in x..x + k[x] - 1
    <3>1. PICK x \in K : u \in x..x + g[x] - 1
      BY <1>0
    <3> QED BY <3>1, <1>3
  <2>2. ASSUME NEW u \in c..c + n - 1 PROVE \E x \in L : u \in x..x + k[x] - 1
    BY <1>3
  <2>3. ASSUME NEW x \in L, NEW u \in x..x + k[x] - 1
        PROVE  u \in W \cup (c..c + n - 1)
    <3>1. CASE x = c
      BY <2>3, <3>1, <1>3
    <3>2. CASE x # c
      BY <2>3, <3>2, <1>0, <1>3
    <3> QED BY <3>1, <3>2
  <2> QED BY <2>1, <2>2, <2>3
<1>7. F \cup {c} \subseteq M!Addresses /\ (F \cup {c}) \cap U = {} /\ k[M!base] = 0
  BY <1>0, <1>2 DEF Grown
<1> QED BY <1>0, <1>2, <1>4, <1>5, <1>6, <1>7 DEF Shared, L

\* Before the first call there is no list; then it holds the marker alone.
LEMMA Listed ==
  ASSUME M!SimpleMallocAssumption, MallocInv
  PROVE  /\ \E F : Ordered(M!WithList(M!Heap), F, DOMAIN asked, acquired)
         /\ \A b \in DOMAIN asked : M!WithList(M!Heap).size[b] = size[b]
<1> DEFINE h == M!WithList(M!Heap)
<1>b. ptr \in [M!Addresses -> M!Addresses] /\ size \in [M!Addresses -> Nat]
  BY DEF MallocInv
<1>c. M!base \in M!Addresses /\ M!Addresses \subseteq Nat /\ M!base = 0
  BY DEF M!Addresses, M!base, M!SimpleMallocAssumption
<1>a. /\ ptr \in [M!Addresses -> M!Addresses] /\ size \in [M!Addresses -> Nat]
      /\ M!base \in M!Addresses /\ M!Addresses \subseteq Nat /\ M!base = 0
  BY <1>b, <1>c
<1>1. CASE freep = M!NULL
  <2>1. DOMAIN asked = {} /\ acquired = {}
    BY <1>1 DEF MallocInv
  <2> DEFINE f == [ptr EXCEPT ![M!base] = M!base]
             g == [size EXCEPT ![M!base] = 0]
  <2>2. h = [ptr |-> f, size |-> g, freep |-> M!base]
    <3> DEFINE k == [ptr |-> ptr, size |-> size, freep |-> freep]
               l == [k EXCEPT !.ptr[M!base] = M!base]
               n == [l EXCEPT !.size[M!base] = 0]
    <3>1. l = [ptr |-> f, size |-> size, freep |-> freep]
      OBVIOUS
    <3>2. h = [n EXCEPT !.freep = M!base]
      <4>1. M!Heap = k /\ k.freep = M!NULL
        BY <1>1 DEF M!Heap
      <4>2. h = [k EXCEPT !.ptr[M!base] = M!base, !.size[M!base] = 0, !.freep = M!base]
        BY <4>1, Zenon DEF M!WithList
      <4> HIDE DEF k
      <4> QED BY <4>2, SMT
    <3> HIDE DEF l, f, g
    <3>3. n = [ptr |-> f, size |-> [size EXCEPT ![M!base] = 0], freep |-> freep]
      BY <3>1
    <3> HIDE DEF n
    <3>4. [n EXCEPT !.freep = M!base]
            = [ptr |-> f, size |-> [size EXCEPT ![M!base] = 0], freep |-> M!base]
      BY <3>3
    <3> QED BY <3>2, <3>4 DEF g
  <2>3. f \in [M!Addresses -> M!Addresses] /\ f[M!base] = M!base
        /\ g \in [M!Addresses -> Nat] /\ g[M!base] = 0
    BY <1>a
  <2> HIDE DEF f, g, h
  <2>4. h.ptr = f /\ h.size = g /\ h.freep = M!base /\ h \in Heaps
    BY <2>2, <2>3, <1>a DEF Heaps
  <2>5. Chain(f, {M!base})
    BY <2>3, <1>a DEF Chain
  <2>6. Shared(g, {M!base}, {}, {})
    BY <2>3, <1>a DEF Shared
  <2>7. Apart(g, {M!base})
    BY DEF Apart
  <2>8. Ordered(h, {M!base}, {}, {})
    BY <2>4, <2>5, <2>6, <2>7 DEF Ordered
  <2> QED BY <2>1, <2>8 DEF h
<1>2. CASE freep # M!NULL
  <2>1. h = M!Heap
    BY <1>2 DEF M!WithList, M!Heap
  <2>2. \E F : Ordered(M!Heap, F, DOMAIN asked, acquired)
    BY <1>2 DEF MallocInv
  <2>3. M!Heap.size = size
    BY DEF M!Heap
  <2> HIDE DEF h
  <2> QED BY <2>1, <2>2, <2>3 DEF h
<1> QED BY <1>1, <1>2

\* The headers that are kept are those that matter, and keep their order.
LEMMA SetKeeps ==
  ASSUME M!SimpleMallocAssumption, NEW h, NEW F, NEW U, NEW W, Ordered(h, F, U, W),
         M!SetHeap(h, U)
  PROVE  /\ ptr' \in [M!Addresses -> M!Addresses] /\ size' \in [M!Addresses -> Nat]
         /\ freep' # M!NULL /\ \A b \in U : size'[b] = h.size[b]
         /\ Ordered([ptr |-> ptr', size |-> size', freep |-> freep'], F, U, W)
         /\ F \in SUBSET M!Addresses
<1>1. /\ h \in Heaps /\ h.freep \in F
      /\ Chain(h.ptr, F) /\ Shared(h.size, F, U, W) /\ Apart(h.size, F)
  BY DEF Ordered
<1>2. M!Ring(h) = F
  BY <1>1, RingIs
<1>3. /\ ptr' = [a \in M!Addresses |-> IF a \in F THEN h.ptr[a] ELSE 0]
      /\ size' = [a \in M!Addresses |-> IF a \in F \cup U THEN h.size[a] ELSE 0]
      /\ freep' = h.freep
  BY <1>2, Zenon DEF M!SetHeap
<1>4. h.ptr \in [M!Addresses -> M!Addresses] /\ h.size \in [M!Addresses -> Nat]
  BY <1>1 DEF Heaps
<1>5. F \subseteq M!Addresses /\ U \subseteq M!Addresses /\ M!base \in F
  BY <1>1 DEF Shared
<1>6. M!Addresses \subseteq Nat /\ M!NULL \notin M!Addresses /\ M!base = 0
  BY DEF M!Addresses, M!base, M!NULL, M!SimpleMallocAssumption
<1>7. ptr' \in [M!Addresses -> M!Addresses] /\ size' \in [M!Addresses -> Nat]
  BY <1>3, <1>4, <1>5, <1>6
<1>8. /\ \A a \in F : ptr'[a] = h.ptr[a]
      /\ \A a \in F \cup U : size'[a] = h.size[a]
  BY <1>3, <1>5
<1>9. freep' \in F /\ freep' # M!NULL /\ freep' \in Nat
  BY <1>1, <1>3, <1>5, <1>6
<1> DEFINE k == [ptr |-> ptr', size |-> size', freep |-> freep']
<1>10. k.ptr = ptr' /\ k.size = size' /\ k.freep = freep' /\ k \in Heaps
  BY <1>7, <1>9 DEF Heaps
<1> HIDE DEF k
<1>11. Chain(ptr', F)
  BY <1>1, <1>8, SameChain
<1>12. Shared(size', F, U, W)
  BY <1>1, <1>8, SameShared
<1>13. Apart(size', F)
  BY <1>1, <1>8 DEF Apart
<1>14. Ordered(k, F, U, W)
  BY <1>9, <1>10, <1>11, <1>12, <1>13 DEF Ordered
<1> QED BY <1>5, <1>7, <1>8, <1>9, <1>14 DEF k

\* What a call that returns a block leaves.
LEMMA TakeGoes ==
  ASSUME M!SimpleMallocAssumption, MallocInv, NEW h, NEW F, NEW W,
         W \subseteq M!Addresses,
         Ordered(h, F, DOMAIN asked, W),
         \A b \in DOMAIN asked : h.size[b] = size[b],
         NEW nbytes \in Nat, \E p \in F : h.size[p] >= M!Units(nbytes),
         M!Return(M!Take(h, M!Units(nbytes)), nbytes)
  PROVE  /\ ptr' \in [M!Addresses -> M!Addresses] /\ size' \in [M!Addresses -> Nat]
         /\ freep' # M!NULL
         /\ \A b \in DOMAIN asked' :
              asked'[b] \in Nat /\ (size'[b] - 1) * HeaderBytes >= asked'[b]
         /\ \E G \in SUBSET M!Addresses :
              Ordered([ptr |-> ptr', size |-> size', freep |-> freep'], G, DOMAIN asked', W)
<1> DEFINE m == M!Units(nbytes)
           U == DOMAIN asked
           t == M!Take(h, m)
<1>1. m \in Nat \ {0} /\ (m - 1) * HeaderBytes >= nbytes
  BY UnitsEnough
<1> HIDE DEF m
<1>2. PICK G : Taken(h, F, U, W, m, t, G)
  <2>1. /\ h \in Heaps /\ h.freep \in F
        /\ Chain(h.ptr, F) /\ Shared(h.size, F, U, W) /\ Apart(h.size, F)
    BY DEF Ordered
  <2>2. \E p \in F : h.size[p] >= m
    BY DEF m
  <2> HIDE DEF U
  <2> QED BY <1>1, <2>1, <2>2, TakeKeeps, Zenon
<1> DEFINE b0 == t.block
           V == U \cup {b0}
<1>3. /\ Ordered(t.heap, G, V, W) /\ b0 \notin U /\ t.heap.size[b0] = m
      /\ \A a \in U : t.heap.size[a] = h.size[a]
  BY <1>2 DEF Ordered, Taken
<1>4. M!SetHeap(t.heap, V)
      /\ asked' = [b \in V |-> IF b = b0 THEN nbytes ELSE asked[b]]
  BY DEF M!Return, m
<1> HIDE DEF t, b0, V
<1>5. /\ ptr' \in [M!Addresses -> M!Addresses] /\ size' \in [M!Addresses -> Nat]
      /\ freep' # M!NULL /\ \A b \in V : size'[b] = t.heap.size[b]
      /\ Ordered([ptr |-> ptr', size |-> size', freep |-> freep'], G, V, W)
      /\ G \in SUBSET M!Addresses
  BY <1>3, <1>4, SetKeeps
<1>6. DOMAIN asked' = V
  BY <1>4
<1>7. ASSUME NEW b \in V
      PROVE  asked'[b] \in Nat /\ (size'[b] - 1) * HeaderBytes >= asked'[b]
  <2>1. CASE b = b0
    <3>1. asked'[b] = nbytes /\ size'[b] = m
      BY <1>3, <1>4, <1>5, <2>1
    <3> QED BY <3>1, <1>1
  <2>2. CASE b # b0
    <3>1. b \in U
      BY <2>2 DEF V
    <3>2. asked'[b] = asked[b] /\ size'[b] = size[b]
      BY <1>3, <1>4, <1>5, <2>2, <3>1
    <3> QED BY <3>1, <3>2 DEF MallocInv
  <2> QED BY <2>1, <2>2
<1> QED BY <1>5, <1>6, <1>7

\* The allocator starts without a list and without memory.
LEMMA MallocStart == ASSUME M!SimpleMallocAssumption PROVE M!Init => MallocInv
<1> SUFFICES ASSUME M!Init PROVE MallocInv
  OBVIOUS
<1>1. M!base \in M!Addresses /\ 1 \in 1..MaxBreak + 1 /\ 0 \in Nat
  BY DEF M!base, M!Addresses, M!SimpleMallocAssumption
<1>2. ptr \in [M!Addresses -> M!Addresses] /\ size \in [M!Addresses -> Nat]
  BY <1>1 DEF M!Init
<1>3. DOMAIN asked = {} /\ acquired = {} /\ brk = 1 /\ freep = M!NULL
  BY DEF M!Init
<1> QED BY <1>1, <1>2, <1>3 DEF MallocInv

\* A call that finds a block big enough keeps the invariant.
LEMMA FitsKeeps ==
  ASSUME M!SimpleMallocAssumption, MallocInv, NEW nbytes \in Nat, M!MallocFits(nbytes)
  PROVE  MallocInv'
<1> DEFINE h == M!WithList(M!Heap)
<1>1. PICK F : Ordered(h, F, DOMAIN asked, acquired)
  BY Listed
<1>2. \A b \in DOMAIN asked : h.size[b] = size[b]
  BY Listed
<1>3. /\ M!Fits(h, M!Units(nbytes)) /\ M!Return(M!Take(h, M!Units(nbytes)), nbytes)
      /\ brk' = brk /\ acquired' = acquired
  BY DEF M!MallocFits
<1> HIDE DEF h
<1>4. \E p \in F : h.size[p] >= M!Units(nbytes)
  <2>1. M!Ring(h) = F
    BY <1>1, RingIs DEF Ordered
  <2> QED BY <2>1, <1>3 DEF M!Fits
<1>5. acquired \subseteq M!Addresses
  BY DEF MallocInv, M!Addresses, M!SimpleMallocAssumption
<1>6. /\ ptr' \in [M!Addresses -> M!Addresses] /\ size' \in [M!Addresses -> Nat]
      /\ freep' # M!NULL
      /\ \A b \in DOMAIN asked' :
           asked'[b] \in Nat /\ (size'[b] - 1) * HeaderBytes >= asked'[b]
      /\ \E G \in SUBSET M!Addresses :
           Ordered([ptr |-> ptr', size |-> size', freep |-> freep'], G, DOMAIN asked', acquired)
  BY <1>1, <1>2, <1>3, <1>4, <1>5, TakeGoes
<1> QED BY <1>3, <1>6 DEF MallocInv, M!Heap, M!NULL

\* So does a call that asks sbrk for more, whatever has moved the break
\* since.
LEMMA MoreKeeps ==
  ASSUME M!SimpleMallocAssumption, MallocInv, NEW nbytes \in Nat, M!MallocMore(nbytes)
  PROVE  MallocInv'
<1> DEFINE h == M!WithList(M!Heap)
           m == M!Units(nbytes)
           n == M!MoreUnits(m)
           k == [h EXCEPT !.size[brk] = n]
           r == M!FreeBlock(k, brk)
           U == DOMAIN asked
           W == acquired \cup (brk..brk + n - 1)
<1>1. PICK F : Ordered(h, F, U, acquired)
  BY Listed
<1>2. \A b \in U : h.size[b] = size[b]
  BY Listed
<1>3. /\ brk + n - 1 <= MaxBreak /\ M!Return(M!Take(r, m), nbytes)
      /\ brk' = brk + n /\ acquired' = W
  BY DEF M!MallocMore, M!WithMore
<1>4. n \in Nat \ {0} /\ m \in Nat /\ n >= m
  BY UnitsEnough DEF M!MoreUnits, M!SimpleMallocAssumption
<1> HIDE DEF n, m, h
<1>5. /\ brk \in Nat \ {0} /\ acquired \subseteq 1..brk - 1 /\ MaxBreak \in Nat
      /\ brk <= MaxBreak
  BY <1>3, <1>4 DEF MallocInv, M!SimpleMallocAssumption
<1>6. /\ brk \in M!Addresses /\ brk # M!base /\ W \subseteq M!Addresses
      /\ brk' \in 1..MaxBreak + 1 /\ acquired' \subseteq 1..brk' - 1
  BY <1>3, <1>4, <1>5 DEF M!base, M!Addresses
<1>7. /\ h \in Heaps /\ h.freep \in F
      /\ Chain(h.ptr, F) /\ Shared(h.size, F, U, acquired) /\ Apart(h.size, F)
  BY <1>1 DEF Ordered
<1>8. F \subseteq M!Addresses /\ U \subseteq M!Addresses
  BY <1>7 DEF Shared
<1>9. /\ k \in Heaps /\ k.ptr = h.ptr /\ k.freep = h.freep /\ k.size[brk] = n
      /\ \A a \in M!Addresses : a # brk => k.size[a] = h.size[a]
  <2>1. k = [ptr |-> h.ptr, size |-> [h.size EXCEPT ![brk] = n], freep |-> h.freep]
    BY <1>7 DEF Heaps
  <2>2. h.ptr \in [M!Addresses -> M!Addresses] /\ h.size \in [M!Addresses -> Nat]
        /\ h.freep \in Nat
    BY <1>7 DEF Heaps
  <2> HIDE DEF k
  <2> QED BY <2>1, <2>2, <1>4, <1>6 DEF Heaps
<1> HIDE DEF k
<1>10. Shared(k.size, F \cup {brk}, U, W) /\ brk \notin F /\ brk \notin U
  <2>1. \A x \in F \cup U : x # brk => k.size[x] = h.size[x]
    BY <1>8, <1>9
  <2>0. PICK g, l, V, j : g = h.size /\ l = k.size /\ V = U /\ j = n
    OBVIOUS
  <2>2. /\ Shared(g, F, V, acquired) /\ Grown(g, F, V, brk, j, l)
        /\ brk \in M!Addresses /\ brk # M!base /\ acquired \subseteq 1..brk - 1
           /\ j \in Nat \ {0}
    BY <2>0, <2>1, <1>4, <1>5, <1>6, <1>7, <1>9 DEF Grown
  <2>3. /\ Shared(l, F \cup {brk}, V, acquired \cup (brk..brk + j - 1))
        /\ brk \notin F /\ brk \notin V
    BY <2>2, AddShared, Zenon
  <2> QED BY <2>0, <2>3
<1> HIDE DEF W
<1>11. Apart(k.size, F)
  BY <1>7, <1>8, <1>9, <1>10 DEF Apart
<1>12. PICK G : /\ r \in Heaps /\ r.freep \in G
                /\ Chain(r.ptr, G) /\ Shared(r.size, G, U, W)
                /\ Apart(r.size, G) /\ \E c \in G : r.size[c] >= n
                /\ \A a \in U : r.size[a] = k.size[a]
  <2> DEFINE o == k.size
  <2>1. /\ Chain(k.ptr, F) /\ k.freep \in F /\ o[brk] = n
    BY <1>7, <1>9
  <2>2. k \in Heaps /\ brk \in M!Addresses /\ brk # M!base /\ brk \notin F
    BY <1>6, <1>9, <1>10
  <2>3. Freed(k, U, W, brk, r)
    BY <2>1, <2>2, <1>10, <1>11, FreeKeeps, Zenon
  <2> HIDE DEF r
  <2> QED BY <2>1, <2>3 DEF Freed
<1> HIDE DEF r
<1>13. Ordered(r, G, U, W)
  BY <1>12 DEF Ordered
<1>14. \A b \in U : r.size[b] = size[b]
  BY <1>2, <1>8, <1>9, <1>10, <1>12
<1>15. \E p \in G : r.size[p] >= M!Units(nbytes)
  <2>1. PICK c \in G : r.size[c] >= n
    BY <1>12
  <2>2. r.size[c] \in Nat
    <3>1. G \subseteq M!Addresses
      BY <1>12 DEF Shared
    <3> QED BY <3>1, <1>12 DEF Heaps
  <2>3. r.size[c] >= m
    BY <2>1, <2>2, <1>4
  <2> QED BY <2>3 DEF m
<1>16. /\ ptr' \in [M!Addresses -> M!Addresses] /\ size' \in [M!Addresses -> Nat]
       /\ freep' # M!NULL
       /\ \A b \in DOMAIN asked' :
            asked'[b] \in Nat /\ (size'[b] - 1) * HeaderBytes >= asked'[b]
       /\ \E X \in SUBSET M!Addresses :
            Ordered([ptr |-> ptr', size |-> size', freep |-> freep'], X, DOMAIN asked', W)
  BY <1>3, <1>6, <1>13, <1>14, <1>15, TakeGoes DEF m
<1> QED BY <1>3, <1>6, <1>16 DEF MallocInv, M!Heap, M!NULL

\* So does a call that sbrk refuses.
LEMMA NullKeeps ==
  ASSUME M!SimpleMallocAssumption, MallocInv, NEW nbytes \in Nat, M!MallocNull(nbytes)
  PROVE  MallocInv'
<1> DEFINE h == M!WithList(M!Heap)
<1>1. PICK F : Ordered(h, F, DOMAIN asked, acquired)
  BY Listed
<1>2. \A b \in DOMAIN asked : h.size[b] = size[b]
  BY Listed
<1>3. M!SetHeap(h, DOMAIN asked) /\ brk' = brk /\ acquired' = acquired
      /\ asked' = asked
  BY DEF M!MallocNull
<1> HIDE DEF h
<1>4. /\ ptr' \in [M!Addresses -> M!Addresses] /\ size' \in [M!Addresses -> Nat]
      /\ freep' # M!NULL /\ \A b \in DOMAIN asked : size'[b] = h.size[b]
      /\ Ordered([ptr |-> ptr', size |-> size', freep |-> freep'], F, DOMAIN asked, acquired)
      /\ F \in SUBSET M!Addresses
  BY <1>1, <1>3, SetKeeps
<1>5. \A b \in DOMAIN asked : size'[b] = size[b]
  BY <1>2, <1>4
<1> QED BY <1>3, <1>4, <1>5 DEF MallocInv, M!Heap, M!NULL

\* So does simple_free of a block in use.
LEMMA FreeGoes ==
  ASSUME M!SimpleMallocAssumption, MallocInv, NEW b \in DOMAIN asked, M!simple_free(b)
  PROVE  MallocInv'
<1> DEFINE U == DOMAIN asked
           r == M!FreeBlock(M!Heap, b)
<1>1. freep # M!NULL
  BY DEF MallocInv
<1>2. PICK F : Ordered(M!Heap, F, U, acquired)
  BY <1>1 DEF MallocInv
<1>3. /\ M!SetHeap(r, U \ {b}) /\ asked' = [c \in U \ {b} |-> asked[c]]
      /\ brk' = brk /\ acquired' = acquired
  BY DEF M!simple_free
<1>4. /\ M!Heap \in Heaps /\ M!Heap.freep \in F
      /\ Chain(M!Heap.ptr, F) /\ Shared(M!Heap.size, F, U, acquired)
         /\ Apart(M!Heap.size, F)
      /\ M!Heap.size = size
  BY <1>2 DEF Ordered, M!Heap
<1>5. b \in M!Addresses
  BY <1>4 DEF Shared
<1>6. Shared(M!Heap.size, F \cup {b}, U \ {b}, acquired) /\ b \notin F /\ b # M!base
  BY <1>4, GivenBack
<1>7. PICK G : /\ r \in Heaps /\ r.freep \in G /\ Chain(r.ptr, G)
               /\ Shared(r.size, G, U \ {b}, acquired)
               /\ Apart(r.size, G) /\ \A a \in U \ {b} : r.size[a] = M!Heap.size[a]
  <2> HIDE DEF U
  <2>1. Freed(M!Heap, U \ {b}, acquired, b, r)
    BY <1>4, <1>5, <1>6, FreeKeeps, Zenon
  <2> HIDE DEF r
  <2> QED BY <2>1 DEF Freed
<1> HIDE DEF r
<1>8. Ordered(r, G, U \ {b}, acquired)
  BY <1>7 DEF Ordered
<1>9. /\ ptr' \in [M!Addresses -> M!Addresses] /\ size' \in [M!Addresses -> Nat]
      /\ freep' # M!NULL /\ \A a \in U \ {b} : size'[a] = r.size[a]
      /\ Ordered([ptr |-> ptr', size |-> size', freep |-> freep'], G, U \ {b}, acquired)
      /\ G \in SUBSET M!Addresses
  BY <1>3, <1>8, SetKeeps
<1>10. DOMAIN asked' = U \ {b}
  BY <1>3
<1>11. ASSUME NEW a \in U \ {b}
       PROVE  asked'[a] \in Nat /\ (size'[a] - 1) * HeaderBytes >= asked'[a]
  <2>1. asked'[a] = asked[a] /\ size'[a] = size[a]
    BY <1>3, <1>4, <1>7, <1>9
  <2> QED BY <2>1 DEF MallocInv
<1> HIDE DEF U
<1> QED BY <1>3, <1>9, <1>10, <1>11 DEF MallocInv, M!Heap, M!NULL

\* Another part of the program takes memory from above.
LEMMA BreakMoves ==
  ASSUME M!SimpleMallocAssumption, MallocInv, M!OtherSbrk
  PROVE  MallocInv'
<1>1. /\ brk' = brk + 1 /\ brk < MaxBreak /\ MaxBreak \in Nat
      /\ UNCHANGED <<ptr, size, freep, acquired, asked>>
  BY DEF M!OtherSbrk, M!SimpleMallocAssumption
<1>2. brk' \in 1..MaxBreak + 1 /\ acquired' \subseteq 1..brk' - 1
  BY <1>1 DEF MallocInv
<1> QED BY <1>1, <1>2 DEF MallocInv, M!Heap, M!NULL

\* Each step keeps the invariant.
LEMMA MallocStep ==
  ASSUME M!SimpleMallocAssumption
  PROVE  MallocInv /\ [M!Next]_(M!vars) => MallocInv'
<1> SUFFICES ASSUME MallocInv, [M!Next]_(M!vars) PROVE MallocInv'
  OBVIOUS
<1>1. ASSUME NEW nbytes \in Requests, M!simple_malloc(nbytes) PROVE MallocInv'
  <2>1. nbytes \in Nat
    BY RequestCounts
  <2> QED BY <2>1, <1>1, FitsKeeps, MoreKeeps, NullKeeps DEF M!simple_malloc
<1>2. ASSUME NEW b \in DOMAIN asked, M!simple_free(b) PROVE MallocInv'
  BY <1>2, FreeGoes
<1>3. CASE UNCHANGED M!vars
  BY <1>3 DEF M!vars, MallocInv, M!Heap
<1> QED BY <1>1, <1>2, <1>3, BreakMoves DEF M!Next

\* The invariant of the allocator holds throughout.
THEOREM MallocInvariant == ASSUME M!SimpleMallocAssumption PROVE M!Spec => []MallocInv
BY MallocStart, MallocStep, PTL DEF M!Spec

\* The invariant says what the allocator promises.
LEMMA MallocPromise == ASSUME M!SimpleMallocAssumption PROVE MallocInv => M!HeapShared
<1> SUFFICES ASSUME MallocInv PROVE M!HeapShared
  OBVIOUS
<1> DEFINE U == DOMAIN asked
<1>1. CASE freep = M!NULL
  <2>1. M!FreeBlocks = {} /\ DOMAIN asked = {} /\ acquired = {}
    BY <1>1 DEF MallocInv, M!FreeBlocks
  <2> QED BY <2>1 DEF M!HeapShared
<1>2. CASE freep # M!NULL
  <2>1. PICK F : Ordered(M!Heap, F, U, acquired)
    BY <1>2 DEF MallocInv
  <2>2. /\ Chain(ptr, F) /\ freep \in F /\ Shared(size, F, U, acquired)
           /\ Apart(size, F)
    BY <2>1 DEF Ordered, M!Heap
  <2>3. M!Ring(M!Heap) = F
    BY <2>1, RingIs DEF Ordered
  <2>4. M!FreeBlocks = F \ {M!base}
    BY <2>3, <1>2 DEF M!FreeBlocks
  <2> DEFINE K == M!FreeBlocks \cup U
  <2>5. /\ F \cap U = {} /\ M!base \in F /\ F \subseteq M!Addresses
           /\ U \subseteq M!Addresses
        /\ K = (F \cup U) \ {M!base}
    BY <2>2, <2>4 DEF Shared
  <2>6. /\ \A b \in K : size[b] \in Nat \ {0}
        /\ \A b, c \in K : b < c => b + size[b] <= c
        /\ acquired = UNION {b..b + size[b] - 1 : b \in K}
    BY <2>2, <2>5 DEF Shared
  <2>7. \A b \in K : b \in Nat
    <3>1. M!Addresses \subseteq Nat
      BY DEF M!Addresses, M!SimpleMallocAssumption
    <3> QED BY <3>1, <2>5
  <2>8. \A b \in M!FreeBlocks : b \in K
    OBVIOUS
  <2> HIDE DEF K
  <2>9. ASSUME NEW b \in K, NEW c \in K, b # c PROVE M!Extent(b) \cap M!Extent(c) = {}
    <3>1. b < c \/ c < b
      BY <2>7, <2>9
    <3>2. b + size[b] <= c \/ c + size[c] <= b
      BY <3>1, <2>6
    <3> QED BY <3>2, <2>6, <2>7 DEF M!Extent
  <2>10. UNION {M!Extent(b) : b \in K} = acquired
    BY <2>6 DEF M!Extent
  <2>11. \A b \in DOMAIN asked : (size[b] - 1) * HeaderBytes >= asked[b]
    BY DEF MallocInv
  <2>12. \A b \in M!FreeBlocks : size[b] > 0 /\ b + size[b] \notin M!FreeBlocks
    BY <2>2, <2>4, <2>6, <2>8 DEF Apart
  <2> QED BY <2>4, <2>5, <2>9, <2>10, <2>11, <2>12 DEF M!HeapShared, K
<1> QED BY <1>1, <1>2

\* HeapShared, for any memory, header, requests and chunk for sbrk: the free
\* blocks and the blocks in use share out the memory that sbrk gave, each
\* block in use has room for what was asked for, and no two free blocks lie
\* side by side.
THEOREM MallocSharesHeap ==
  ASSUME M!SimpleMallocAssumption
  PROVE  M!Spec => []M!HeapShared
BY MallocInvariant, MallocPromise, PTL

------------------------------------------------------------------------------
(* The checkpoint.                                                         *)
(*                                                                         *)
(* thread_count is decremented under mutex1 and incremented under mutex2,  *)
(* each in two steps, so that neither mutex protects it.  CheckpointInv    *)
(* says why no update is lost: while `saved' is false nobody increments,   *)
(* and while it is true every thread is on its way from its decrement to   *)
(* the end of the round, and nobody decrements.                            *)

Places ==
  {"none", "run", "wait1", "load1", "store1", "post1",
   "wait2", "test2", "spin2", "save", "load2", "store2", "post2",
   "wait3", "test3", "spin3", "post3"}

TypeOK ==
  /\ mutex1 \in {0, 1} /\ mutex2 \in {0, 1} /\ mutex3 \in {0, 1}
  /\ thread_count \in Int
  /\ saved \in BOOLEAN
  /\ loaded \in [Threads -> Int]
  /\ main \in {"init", "create", "join"}
  /\ created \in 1..numThreads
  /\ saves \in 0..2
  /\ seen \in [Threads -> 0..2]
  /\ pc \in [Threads -> Places]

\* Before main has set the semaphores only main runs, or waits for mutex1.
Beginning ==
  /\ \A t \in Threads : pc[t] = "none" <=> t >= created
  /\ main = "init" =>
       /\ mutex1 = 0 /\ mutex2 = 0 /\ mutex3 = 0 /\ ~saved
       /\ \A t \in Threads : pc[t] \in {"none", "run", "wait1"}

\* The threads at `places' are those that hold the semaphore `semaphore'.
Protects(semaphore, places) ==
  \A t \in Threads : pc[t] \in places =>
    semaphore = 0 /\ \A u \in Threads : pc[u] \in places => u = t

Mutexes ==
  /\ Protects(mutex1, {"load1", "store1", "post1"})
  /\ Protects(mutex2, {"test2", "spin2", "save", "load2", "store2", "post2"})
  /\ Protects(mutex3, {"test3", "spin3", "post3"})

\* A thread in the middle of an update has the value that is still there.
Loaded == \A t \in Threads : pc[t] \in {"store1", "store2"} =>
  loaded[t] = thread_count

Count == main # "init" => thread_count = numThreads - Cardinality(Stopped)

\* Until the save, threads come in, and those of the last round leave.
Collecting ==
  ~saved =>
    \A t \in Threads :
      /\ pc[t] \notin {"load2", "store2", "spin3"}
      /\ pc[t] = "save" => Stopped = Threads
      /\ pc[t] \in {"wait1", "load1", "store1", "post1", "wait2", "test2", "spin2", "save"} =>
           saves = seen[t]
      /\ pc[t] \in {"post2", "wait3", "test3", "post3"} => saves = (seen[t] + 1) % 3

\* After the save no thread leaves before all of them are counted again.
Releasing ==
  saved =>
    \A t \in Threads :
      /\ pc[t] \in {"post1", "wait2", "test2", "load2", "store2", "post2",
                    "wait3", "test3", "spin3"}
      /\ saves = (seen[t] + 1) % 3

CheckpointInv ==
  TypeOK /\ Beginning /\ Mutexes /\ Loaded /\ Count /\ Collecting /\ Releasing

------------------------------------------------------------------------------
USE CheckpointAssumption

LEMMA ThreadsFinite == IsFiniteSet(Threads) /\ Cardinality(Threads) = numThreads
BY FS_Interval DEF Threads

\* What the cardinality of a set of threads says about the set.
LEMMA CountThreads ==
  ASSUME NEW X \in SUBSET Threads
  PROVE  /\ Cardinality(X) \in 0..numThreads
         /\ Cardinality(X) = 0 => X = {}
         /\ Cardinality(X) = numThreads => X = Threads
         /\ \A t \in Threads \ X : Cardinality(X \cup {t}) = Cardinality(X) + 1
         /\ \A t \in X : Cardinality(X \ {t}) = Cardinality(X) - 1
<1>1. IsFiniteSet(X) /\ Cardinality(X) <= numThreads /\ Cardinality(X) \in Nat
  BY ThreadsFinite, FS_Subset, FS_CardinalityType
<1>2. Cardinality(X) = 0 => X = {}
  BY <1>1, FS_EmptySet
<1>3. Cardinality(X) = numThreads => X = Threads
  BY <1>1, ThreadsFinite, FS_Subset
<1>4. \A t \in Threads \ X : Cardinality(X \cup {t}) = Cardinality(X) + 1
  BY <1>1, FS_AddElement
<1>5. \A t \in X : Cardinality(X \ {t}) = Cardinality(X) - 1
  BY <1>1, FS_RemoveElement
<1> QED
  BY <1>1, <1>2, <1>3, <1>4, <1>5

LEMMA StoppedThreads == Stopped \in SUBSET Threads
BY DEF Stopped, At

LEMMA InitCheckpoint == Init => CheckpointInv
<1> SUFFICES ASSUME Init PROVE CheckpointInv
  OBVIOUS
<1>1. TypeOK
  <2>1. created \in 1..numThreads /\ pc \in [Threads -> Places]
    BY DEF Init, Places
  <2>2. loaded \in [Threads -> Int] /\ seen \in [Threads -> 0..2]
    BY DEF Init
  <2>3. /\ mutex1 \in {0, 1} /\ mutex2 \in {0, 1} /\ mutex3 \in {0, 1}
        /\ thread_count \in Int /\ saves \in 0..2
        /\ main \in {"init", "create", "join"}
    BY DEF Init
  <2>4. saved \in BOOLEAN
    BY Zenon DEF Init
  <2> QED
    BY <2>1, <2>2, <2>3, <2>4 DEF TypeOK
<1>2. Beginning
  BY DEF Init, Beginning, Threads
<1>3. Mutexes /\ Loaded /\ Count /\ Collecting /\ Releasing
  BY DEF Init, Mutexes, Protects, Loaded, Count, Collecting, Releasing
<1> QED
  BY <1>1, <1>2, <1>3 DEF CheckpointInv

\* Phase 1, which no thread is in while `saved' is true, up to the decrement.
LEMMA Phase1Step ==
  ASSUME CheckpointInv, NEW t \in Threads, phase1(t)
  PROVE  CheckpointInv'
<1> USE DEF CheckpointInv, Goto, sems
<1>1. CASE Wait1(t)
  <2> USE <1>1 DEF Wait1
  <2>1. TypeOK' /\ Beginning' /\ Mutexes' /\ Loaded'
    BY DEF TypeOK, Beginning, Mutexes, Protects, Loaded, Places
  <2>2. Stopped' = Stopped
    BY DEF Stopped, At, TypeOK
  <2>3. Count' /\ Collecting' /\ Releasing'
    BY <2>2 DEF Count, Collecting, Releasing, TypeOK
  <2> QED
    BY <2>1, <2>3
<1>2. CASE Load1(t)
  <2> USE <1>2 DEF Load1
  <2>1. TypeOK' /\ Beginning' /\ Mutexes' /\ Loaded'
    <3>1. TypeOK'
      BY DEF TypeOK, Places
    <3>2. Beginning'
      BY DEF TypeOK, Beginning
    <3>3. Mutexes'
      BY DEF TypeOK, Mutexes, Protects
    <3>4. Loaded'
      BY DEF TypeOK, Loaded, Mutexes, Protects
    <3> QED
      BY <3>1, <3>2, <3>3, <3>4
  <2>2. Stopped' = Stopped
    BY DEF Stopped, At, TypeOK
  <2>3. Count' /\ Collecting' /\ Releasing'
    BY <2>2 DEF Count, Collecting, Releasing, TypeOK
  <2> QED
    BY <2>1, <2>3
<1>3. CASE Store1(t)
  <2> USE <1>3 DEF Store1
  <2>1. ~saved /\ main # "init" /\ thread_count' = thread_count - 1
    BY DEF Releasing, Beginning, Loaded
  <2>2. TypeOK' /\ Beginning' /\ Mutexes'
    <3>1. TypeOK'
      BY DEF TypeOK, Places
    <3>2. Beginning'
      BY DEF TypeOK, Beginning
    <3>3. Mutexes'
      BY DEF TypeOK, Mutexes, Protects
    <3> QED
      BY <3>1, <3>2, <3>3
  <2>3. Loaded'
    BY <2>1 DEF TypeOK, Loaded, Mutexes, Protects, Collecting
  <2>4. t \notin Stopped /\ Stopped' = Stopped \cup {t}
    BY DEF Stopped, At, TypeOK
  <2>5. Cardinality(Stopped) \in Int
        /\ Cardinality(Stopped') = Cardinality(Stopped) + 1
    BY <2>4, StoppedThreads, CountThreads
  <2>6. Count'
    BY <2>1, <2>5 DEF Count, TypeOK
  <2>7. Collecting' /\ Releasing'
    BY <2>1, <2>4 DEF Collecting, Releasing, TypeOK
  <2> QED
    BY <2>2, <2>3, <2>6, <2>7
<1>4. CASE Post1(t)
  <2> USE <1>4 DEF Post1
  <2>1. TypeOK' /\ Beginning' /\ Mutexes' /\ Loaded'
    BY DEF TypeOK, Beginning, Mutexes, Protects, Loaded, Places
  <2>2. Stopped' = Stopped
    BY DEF Stopped, At, TypeOK
  <2>3. Count' /\ Collecting' /\ Releasing'
    BY <2>2 DEF Count, Collecting, Releasing, TypeOK
  <2> QED
    BY <2>1, <2>3
<1> QED
  BY <1>1, <1>2, <1>3, <1>4 DEF phase1

\* Phase 2, whose first thread saves when all of them are stopped.
LEMMA Phase2Step ==
  ASSUME CheckpointInv, NEW t \in Threads, phase2(t)
  PROVE  CheckpointInv'
<1> USE DEF CheckpointInv, Goto, sems
<1>1. CASE Wait2(t)
  <2> USE <1>1 DEF Wait2
  <2>1. TypeOK' /\ Beginning' /\ Mutexes' /\ Loaded'
    BY DEF TypeOK, Beginning, Mutexes, Protects, Loaded, Places
  <2>2. Stopped' = Stopped
    BY DEF Stopped, At, TypeOK
  <2>3. Count' /\ Collecting' /\ Releasing'
    BY <2>2 DEF Count, Collecting, Releasing, TypeOK
  <2> QED
    BY <2>1, <2>3
<1>2. CASE Test2(t)
  <2> USE <1>2 DEF Test2
  <2>1. TypeOK' /\ Beginning' /\ Mutexes' /\ Loaded'
    <3>1. TypeOK'
      BY DEF TypeOK, Places
    <3>2. Beginning'
      BY DEF TypeOK, Beginning
    <3>3. Mutexes'
      BY DEF TypeOK, Mutexes, Protects
    <3>4. Loaded'
      BY DEF TypeOK, Loaded, Mutexes, Protects
    <3> QED
      BY <3>1, <3>2, <3>3, <3>4
  <2>2. Stopped' = Stopped
    BY DEF Stopped, At, TypeOK
  <2>3. Count' /\ Collecting' /\ Releasing'
    BY <2>2 DEF Count, Collecting, Releasing, TypeOK
  <2> QED
    BY <2>1, <2>3
<1>3. CASE Spin2(t)
  <2> USE <1>3 DEF Spin2
  <2>1. TypeOK' /\ Beginning' /\ Mutexes' /\ Loaded'
    <3>1. TypeOK'
      BY DEF TypeOK, Places
    <3>2. Beginning'
      BY DEF TypeOK, Beginning
    <3>3. Mutexes'
      BY DEF TypeOK, Mutexes, Protects
    <3>4. Loaded'
      BY DEF TypeOK, Loaded, Mutexes, Protects
    <3> QED
      BY <3>1, <3>2, <3>3, <3>4
  <2>2. Stopped' = Stopped
    BY DEF Stopped, At, TypeOK
  <2>3. Cardinality(Stopped) = numThreads
    BY StoppedThreads, CountThreads DEF Count, Beginning, TypeOK
  <2>4. Stopped = Threads
    BY <2>3, StoppedThreads, CountThreads
  <2>5. Count' /\ Collecting' /\ Releasing'
    BY <2>2, <2>4 DEF Count, Collecting, Releasing, TypeOK
  <2> QED
    BY <2>1, <2>5
<1>4. CASE Save(t)
  <2> USE <1>4 DEF Save
  <2>1. saves' \in 0..2
    BY DEF TypeOK
  <2>2. TypeOK' /\ Beginning' /\ Mutexes' /\ Loaded'
    <3>1. TypeOK'
      BY <2>1 DEF TypeOK, Places
    <3>2. Beginning'
      BY <2>1 DEF TypeOK, Beginning
    <3>3. Mutexes'
      BY <2>1 DEF TypeOK, Mutexes, Protects
    <3>4. Loaded'
      BY <2>1 DEF TypeOK, Loaded, Mutexes, Protects
    <3> QED
      BY <3>1, <3>2, <3>3, <3>4
  <2>3. Stopped' = Stopped
    BY DEF Stopped, At, TypeOK
  <2>4. ~saved /\ Stopped = Threads
    BY DEF Collecting, Releasing
  <2>5. ASSUME NEW u \in Threads
        PROVE  /\ pc'[u] \in {"post1", "wait2", "load2"}
               /\ saves = seen[u]
    <3>1. pc[u] \in {"post1", "wait2", "test2", "spin2", "save"} /\ saves = seen[u]
      BY <2>4 DEF Stopped, At, Collecting
    <3>2. pc[u] \in {"test2", "spin2", "save"} => u = t
      BY DEF Mutexes, Protects
    <3> QED
      BY <3>1, <3>2 DEF TypeOK
  <2>6. Count' /\ Collecting'
    BY <2>3 DEF Count, Collecting
  <2>7. Releasing'
    BY <2>5 DEF Releasing
  <2> QED
    BY <2>2, <2>6, <2>7
<1>5. CASE Load2(t)
  <2> USE <1>5 DEF Load2
  <2>1. TypeOK' /\ Beginning' /\ Mutexes' /\ Loaded'
    <3>1. TypeOK'
      BY DEF TypeOK, Places
    <3>2. Beginning'
      BY DEF TypeOK, Beginning
    <3>3. Mutexes'
      BY DEF TypeOK, Mutexes, Protects
    <3>4. Loaded'
      BY DEF TypeOK, Loaded, Mutexes, Protects
    <3> QED
      BY <3>1, <3>2, <3>3, <3>4
  <2>2. Stopped' = Stopped
    BY DEF Stopped, At, TypeOK
  <2>3. Count' /\ Collecting' /\ Releasing'
    BY <2>2 DEF Count, Collecting, Releasing, TypeOK
  <2> QED
    BY <2>1, <2>3
<1>6. CASE Store2(t)
  <2> USE <1>6 DEF Store2
  <2>1. saved /\ main # "init" /\ thread_count' = thread_count + 1
    BY DEF Collecting, Beginning, Loaded
  <2>2. TypeOK' /\ Beginning' /\ Mutexes'
    <3>1. TypeOK'
      BY DEF TypeOK, Places
    <3>2. Beginning'
      BY DEF TypeOK, Beginning
    <3>3. Mutexes'
      BY DEF TypeOK, Mutexes, Protects
    <3> QED
      BY <3>1, <3>2, <3>3
  <2>3. Loaded'
    BY <2>1 DEF TypeOK, Loaded, Mutexes, Protects, Releasing
  <2>4. t \in Stopped /\ Stopped' = Stopped \ {t}
    BY DEF Stopped, At, TypeOK
  <2>5. Cardinality(Stopped) \in Int
        /\ Cardinality(Stopped') = Cardinality(Stopped) - 1
    BY <2>4, StoppedThreads, CountThreads
  <2>6. Count'
    BY <2>1, <2>5 DEF Count, TypeOK
  <2>7. Collecting' /\ Releasing'
    BY <2>1 DEF Collecting, Releasing, TypeOK
  <2> QED
    BY <2>2, <2>3, <2>6, <2>7
<1>7. CASE Post2(t)
  <2> USE <1>7 DEF Post2
  <2>1. TypeOK' /\ Beginning' /\ Mutexes' /\ Loaded'
    BY DEF TypeOK, Beginning, Mutexes, Protects, Loaded, Places
  <2>2. Stopped' = Stopped
    BY DEF Stopped, At, TypeOK
  <2>3. Count' /\ Collecting' /\ Releasing'
    BY <2>2 DEF Count, Collecting, Releasing, TypeOK
  <2> QED
    BY <2>1, <2>3
<1> QED
  BY <1>1, <1>2, <1>3, <1>4, <1>5, <1>6, <1>7 DEF phase2

\* Phase 3, whose first thread ends the round when all of them are counted.
LEMMA Phase3Step ==
  ASSUME CheckpointInv, NEW t \in Threads, phase3(t)
  PROVE  CheckpointInv'
<1> USE DEF CheckpointInv, Goto, sems
<1>1. CASE Wait3(t)
  <2> USE <1>1 DEF Wait3
  <2>1. TypeOK' /\ Beginning' /\ Mutexes' /\ Loaded'
    BY DEF TypeOK, Beginning, Mutexes, Protects, Loaded, Places
  <2>2. Stopped' = Stopped
    BY DEF Stopped, At, TypeOK
  <2>3. Count' /\ Collecting' /\ Releasing'
    BY <2>2 DEF Count, Collecting, Releasing, TypeOK
  <2> QED
    BY <2>1, <2>3
<1>2. CASE Test3(t)
  <2> USE <1>2 DEF Test3
  <2>1. TypeOK' /\ Beginning' /\ Mutexes' /\ Loaded'
    <3>1. TypeOK'
      BY DEF TypeOK, Places
    <3>2. Beginning'
      BY DEF TypeOK, Beginning
    <3>3. Mutexes'
      BY DEF TypeOK, Mutexes, Protects
    <3>4. Loaded'
      BY DEF TypeOK, Loaded, Mutexes, Protects
    <3> QED
      BY <3>1, <3>2, <3>3, <3>4
  <2>2. Stopped' = Stopped
    BY DEF Stopped, At, TypeOK
  <2>3. Count' /\ Collecting' /\ Releasing'
    BY <2>2 DEF Count, Collecting, Releasing, TypeOK
  <2> QED
    BY <2>1, <2>3
<1>3. CASE Spin3(t)
  <2> USE <1>3 DEF Spin3
  <2>1. TypeOK' /\ Beginning' /\ Mutexes' /\ Loaded'
    <3>1. TypeOK'
      BY DEF TypeOK, Places
    <3>2. Beginning'
      BY DEF TypeOK, Beginning
    <3>3. Mutexes'
      BY DEF TypeOK, Mutexes, Protects
    <3>4. Loaded'
      BY DEF TypeOK, Loaded, Mutexes, Protects
    <3> QED
      BY <3>1, <3>2, <3>3, <3>4
  <2>2. Stopped' = Stopped
    BY DEF Stopped, At, TypeOK
  <2>3. saved /\ Cardinality(Stopped) = 0
    BY StoppedThreads, CountThreads DEF Count, Collecting, Beginning, TypeOK
  <2>4. Stopped = {}
    BY <2>3, StoppedThreads, CountThreads
  <2>5. ASSUME NEW u \in Threads
        PROVE  /\ pc'[u] \in {"post2", "wait3", "test3", "post3"}
               /\ saves = (seen[u] + 1) % 3
    <3>1. /\ pc[u] \in {"post2", "wait3", "test3", "spin3"}
          /\ saves = (seen[u] + 1) % 3
      BY <2>3, <2>4 DEF Stopped, At, Releasing
    <3>2. pc[u] = "spin3" => u = t
      BY DEF Mutexes, Protects
    <3> QED
      BY <3>1, <3>2 DEF TypeOK
  <2>6. Count' /\ Releasing'
    BY <2>2 DEF Count, Releasing
  <2>7. Collecting'
    BY <2>5 DEF Collecting
  <2> QED
    BY <2>1, <2>6, <2>7
<1>4. CASE Post3(t)
  <2> USE <1>4 DEF Post3
  <2>1. TypeOK' /\ Beginning' /\ Mutexes' /\ Loaded'
    BY DEF TypeOK, Beginning, Mutexes, Protects, Loaded, Places
  <2>2. Stopped' = Stopped
    BY DEF Stopped, At, TypeOK
  <2>3. Count' /\ Collecting' /\ Releasing'
    BY <2>2 DEF Count, Collecting, Releasing, TypeOK
  <2> QED
    BY <2>1, <2>3
<1> QED
  BY <1>1, <1>2, <1>3, <1>4 DEF phase3

\* main and the alarm: a new thread, and one that enters the handler, are
\* outside of the round, and there is no round until the semaphores are set.
LEMMA OutsideStep ==
  ASSUME CheckpointInv, mainStep \/ alarmStep
  PROVE  CheckpointInv'
<1> USE DEF CheckpointInv, Goto, sems
<1>1. CASE InitState
  <2> USE <1>1 DEF InitState
  <2>1. TypeOK' /\ Beginning' /\ Mutexes' /\ Loaded'
    BY DEF TypeOK, Beginning, Mutexes, Protects, Loaded
  <2>2. Stopped' = {} /\ Cardinality(Stopped') = 0
    <3>1. Stopped' = {}
      BY DEF Stopped, At, Beginning
    <3> QED
      BY <3>1, FS_EmptySet
  <2>3. Count' /\ Collecting' /\ Releasing'
    BY <2>2 DEF Count, Collecting, Releasing, Beginning
  <2> QED
    BY <2>1, <2>3
<1>2. CASE CreateThread
  <2> USE <1>2 DEF CreateThread
  <2>1. created < numThreads => created \in Threads /\ pc[created] = "none"
    BY DEF TypeOK, Beginning, Threads
  <2>2. TypeOK'
    BY <2>1 DEF TypeOK, Places
  <2>3. Beginning'
    BY <2>1 DEF TypeOK, Beginning, Threads
  <2>4. Mutexes' /\ Loaded'
    <3>1. Mutexes'
      BY <2>1 DEF Mutexes, Protects, TypeOK
    <3> QED
      BY <2>1, <3>1 DEF Loaded, TypeOK
  <2>5. Stopped' = Stopped
    BY <2>1 DEF Stopped, At, TypeOK
  <2>6. Count' /\ Collecting' /\ Releasing'
    BY <2>1, <2>5 DEF Count, Collecting, Releasing, TypeOK
  <2> QED
    BY <2>2, <2>3, <2>4, <2>6
<1>3. CASE RunDown
  <2> USE <1>3 DEF RunDown
  <2>1. TypeOK' /\ Beginning' /\ Mutexes' /\ Loaded'
    <3>1. TypeOK'
      BY DEF TypeOK, Places
    <3>2. Beginning'
      BY DEF TypeOK, Beginning
    <3>3. Mutexes'
      BY DEF TypeOK, Mutexes, Protects
    <3>4. Loaded'
      BY DEF TypeOK, Loaded, Mutexes, Protects
    <3> QED
      BY <3>1, <3>2, <3>3, <3>4
  <2>2. Count' /\ Collecting' /\ Releasing'
    BY DEF Count, Collecting, Releasing, Stopped, At
  <2> QED
    BY <2>1, <2>2
<1>4. ASSUME NEW t \in Threads, Deliver(t) PROVE CheckpointInv'
  <2> USE <1>4 DEF Deliver
  <2>1. TypeOK' /\ Beginning' /\ Mutexes' /\ Loaded'
    <3>1. TypeOK'
      BY DEF TypeOK, Places
    <3>2. Beginning'
      BY DEF TypeOK, Beginning
    <3>3. Mutexes'
      BY DEF TypeOK, Mutexes, Protects
    <3>4. Loaded'
      BY DEF TypeOK, Loaded, Mutexes, Protects
    <3> QED
      BY <3>1, <3>2, <3>3, <3>4
  <2>2. Stopped' = Stopped
    BY DEF Stopped, At, TypeOK
  <2>3. Count' /\ Collecting' /\ Releasing'
    BY <2>2 DEF Count, Collecting, Releasing, TypeOK
  <2> QED
    BY <2>1, <2>3
<1> QED
  BY <1>1, <1>2, <1>3, <1>4 DEF mainStep, alarmStep

LEMMA StutterStep ==
  ASSUME CheckpointInv, UNCHANGED vars
  PROVE  CheckpointInv'
<1> USE DEF CheckpointInv, vars, sems, alarms
<1>1. TypeOK' /\ Beginning' /\ Mutexes' /\ Loaded'
  BY DEF TypeOK, Beginning, Mutexes, Protects, Loaded
<1>2. Count' /\ Collecting' /\ Releasing'
  BY DEF Count, Collecting, Releasing, Stopped, At
<1> QED
  BY <1>1, <1>2

\* The invariant on which the theorems rest.
THEOREM CheckpointInvariant == Spec => []CheckpointInv
<1>1. CheckpointInv /\ [Next]_vars => CheckpointInv'
  BY Phase1Step, Phase2Step, Phase3Step, OutsideStep, StutterStep DEF Next, sighandler
<1> QED
  BY InitCheckpoint, <1>1, PTL DEF Spec

------------------------------------------------------------------------------
\* The semaphores of checkpoint.c stay 0 or 1, and its variables have their
\* types.
THEOREM CheckpointTypeCorrect == Spec => []TypeOK
<1>1. CheckpointInv => TypeOK
  BY DEF CheckpointInv
<1> QED
  BY CheckpointInvariant, <1>1, PTL

\* checkpoint.c saves the state only while every thread is stopped in its
\* handler, and no update of thread_count is lost, for any number of threads.
THEOREM SavedWhileStoppedAlways == Spec => []SavedWhileStopped
<1>1. CheckpointInv => SavedWhileStopped
  BY DEF CheckpointInv, SavedWhileStopped, Count, Collecting, Releasing, At
<1> QED
  BY CheckpointInvariant, <1>1, PTL

\* Each call of the handler of checkpoint.c takes part in one save, however
\* late the threads leave the round before, for any number of threads.
THEOREM OneSavePerCallAlways == Spec => []OneSavePerCall
<1>1. CheckpointInv => OneSavePerCall
  BY DEF CheckpointInv, OneSavePerCall, Collecting, Releasing, TypeOK
<1> QED
  BY CheckpointInvariant, <1>1, PTL

------------------------------------------------------------------------------
(* The programs together.  The others stay where they are while one of     *)
(* them runs, so that each of them runs by its own specification.          *)

\* Each of the programs starts as its specification says.
LEMMA ProgramsStart ==
  MCInit => /\ Init /\ A!Init /\ S!Init /\ C!Init /\ R!Init /\ D!Init
            /\ E!Init /\ H!Init /\ B!Init /\ M!Init
BY DEF MCInit

\* A step of the whole is a step of one program and no step of the others.
LEMMA ProgramsStep ==
  ASSUME [MCNext]_allVars
  PROVE  /\ [Next]_vars /\ [A!Next]_(A!vars)
         /\ [S!Next]_(S!vars) /\ [C!Next]_(C!vars) /\ [R!Next]_(R!vars)
         /\ [D!Next]_(D!vars) /\ [E!Next]_(E!vars) /\ [H!Next]_(H!vars)
         /\ [B!Next]_(B!vars) /\ [M!Next]_(M!vars)
<1>1. S!Next \/ UNCHANGED semdemoVars
  BY DEF MCNext, allVars, Others
<1>2. C!Next \/ UNCHANGED counterVars
  BY DEF MCNext, allVars, Others
<1>3. R!Next \/ UNCHANGED rangeVars
  BY DEF MCNext, allVars, Others
<1>4. D!Next \/ UNCHANGED deviceVars
  BY DEF MCNext, allVars, Others
<1>5. E!Next \/ UNCHANGED echoVars
  BY DEF MCNext, allVars, Others
<1>6. H!Next \/ UNCHANGED shellVars
  BY DEF MCNext, allVars, Others
<1>7. B!Next \/ UNCHANGED buddyVars
  BY DEF MCNext, allVars, Others
<1>8. M!Next \/ UNCHANGED mallocVars
  BY DEF MCNext, allVars, Others
<1>8a. Next \/ UNCHANGED vars
  BY DEF MCNext, allVars, Others
<1>8b. A!Next \/ UNCHANGED alarmVars
  BY DEF MCNext, allVars, Others
<1>8c. UNCHANGED alarmVars => UNCHANGED A!vars
  BY DEF alarmVars, A!vars
<1>9. UNCHANGED semdemoVars => UNCHANGED S!vars
  BY DEF semdemoVars, S!vars
<1>10. UNCHANGED counterVars => UNCHANGED C!vars
  BY DEF counterVars, C!vars
<1>11. UNCHANGED rangeVars => UNCHANGED R!vars
  BY DEF rangeVars, R!vars, R!semaphores
<1>12. UNCHANGED deviceVars => UNCHANGED D!vars
  BY DEF deviceVars, D!vars
<1>13. UNCHANGED echoVars => UNCHANGED E!vars
  BY DEF echoVars, E!vars, E!clientVars, E!dataVars
<1>14. UNCHANGED shellVars => UNCHANGED H!vars
  BY DEF shellVars, H!vars, H!treeVars, H!runVars, H!cdVars, H!outVars
<1>15. UNCHANGED buddyVars => UNCHANGED B!vars
  BY DEF buddyVars, B!vars
<1>16. UNCHANGED mallocVars => UNCHANGED M!vars
  BY DEF mallocVars, M!vars
<1> QED
  BY <1>1, <1>2, <1>3, <1>4, <1>5, <1>6, <1>7, <1>8, <1>8a, <1>8b, <1>8c, <1>9,
     <1>10, <1>11, <1>12, <1>13, <1>14, <1>15, <1>16

\* A behaviour of the whole is a behaviour of each of its ten programs, so
\* that what is proved of one of them holds in the runs.
THEOREM ProgramsAreApart ==
  MCSpec => /\ Spec /\ A!Spec /\ S!Spec /\ C!Spec /\ R!Spec /\ D!Spec
            /\ E!Spec /\ H!Spec /\ B!Spec /\ M!Spec
<1>1. MCInit => /\ Init /\ A!Init /\ S!Init /\ C!Init /\ R!Init /\ D!Init
                /\ E!Init /\ H!Init /\ B!Init /\ M!Init
  BY ProgramsStart
<1>2. [MCNext]_allVars =>
        /\ [Next]_vars /\ [A!Next]_(A!vars)
        /\ [S!Next]_(S!vars) /\ [C!Next]_(C!vars) /\ [R!Next]_(R!vars)
        /\ [D!Next]_(D!vars) /\ [E!Next]_(E!vars) /\ [H!Next]_(H!vars)
        /\ [B!Next]_(B!vars) /\ [M!Next]_(M!vars)
  BY ProgramsStep
<1> QED
  BY <1>1, <1>2, PTL DEF MCSpec, Spec, A!Spec, S!Spec, C!Spec, R!Spec, D!Spec,
                         E!Spec, H!Spec, B!Spec, M!Spec

\* SavedWhileStopped and OneSavePerCall, as the runs have them: the checkpoint
\* saves while every thread is in the handler, and once for each call of it.
THEOREM SystemSavesRight == MCSpec => [](SavedWhileStopped /\ OneSavePerCall)
BY ProgramsAreApart, SavedWhileStoppedAlways, OneSavePerCallAlways, PTL

\* What the alarm clock of the runs may stop for: nobody sleeps past a
\* deadline, only a handler that waits for the thread it interrupted stops
\* the clock, and then for good.
THEOREM SystemClockStops ==
  MCSpec => [](A!NobodyOversleeps /\ A!OnlyTheHandlerBlocks) /\ A!StopsForGood
BY ProgramsAreApart, ClockStopsInHandler, ClockStopsForGood, ProgramsAssumption, PTL
   DEF ProgramsAssumption

\* OnePermitPerSet, as the runs have it: a set of semdemo.c has one permit.
THEOREM SystemHasOnePermit == MCSpec => []OnePermitPerSet
BY ProgramsAreApart, OnePermit, ProgramsAssumption, PTL
   DEF OnePermitPerSet, ProgramsAssumption

\* CountsRight, as the runs have it: what the counters, the bounded counter
\* and the counting device count.
THEOREM SystemCountsRight == MCSpec => []CountsRight
BY ProgramsAreApart, CountersCountRight, RangeKept, DeviceStatsAgree,
   ProgramsAssumption, PTL
   DEF CountsRight, ProgramsAssumption

\* OutputRight, as the runs have it: the clients of the echo server read their
\* answers, and the shell writes what it prints, and prints where it is.
THEOREM SystemOutputRight == MCSpec => []OutputRight
BY ProgramsAreApart, EchoSessionsRight, ShellWritesOnce, ShellKnowsWhereItIs,
   ProgramsAssumption, PTL
   DEF OutputRight, ProgramsAssumption

\* MemoryOwned, as the runs have it: the blocks of the allocator share out its
\* memory, each pipeline of the shell is in one place, and a block of the buddy
\* system finds the bit that it and its buddy were given.
THEOREM SystemMemoryOwned == MCSpec => []MemoryOwned
BY ProgramsAreApart, MallocSharesHeap, ShellKeepsPipelines, BuddiesShareBits,
   ProgramsAssumption, PTL DEF MemoryOwned, ProgramsAssumption
==============================================================================
