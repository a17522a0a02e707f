---------------------------- MODULE SemaphoreProofs ----------------------------
(***************************************************************************)
(* The homemade semaphore is a counting semaphore, for every set of        *)
(* threads, initial value and number of calls.  When atomic_lock leaves no *)
(* trace of a failed attempt in the word the hand-off by hold is exact; in *)
(* the exchange-and-add build it can go wrong, but gives no permit away.   *)
(***************************************************************************)
EXTENDS Semaphore, FiniteSetTheorems, TLAPS

\* The number of blocked waits is a natural number.
LEMMA BlockedIsFinite ==
  /\ IsFiniteSet(Blocked)
  /\ Cardinality(Blocked) \in Nat
<1>1. Blocked \in SUBSET Threads
  BY DEF Blocked
<1>2. IsFiniteSet(Blocked)
  BY <1>1, FS_Subset, SemaphoreAssumption
<1>. QED
  BY <1>2, FS_CardinalityType

\* A step of thread t changes it by at most one, according to t alone.
LEMMA BlockedStep ==
  ASSUME NEW t \in Threads,
         \A u \in Threads \ {t} : pc'[u] = pc[u]
  PROVE  Cardinality(Blocked') =
           IF pc'[t] \in BlockedPC
             THEN IF pc[t] \in BlockedPC THEN Cardinality(Blocked)
                                         ELSE Cardinality(Blocked) + 1
             ELSE IF pc[t] \in BlockedPC THEN Cardinality(Blocked) - 1
                                         ELSE Cardinality(Blocked)
<1>1. CASE pc'[t] \in BlockedPC
  <2>1. Blocked' = Blocked \cup {t}
    BY <1>1 DEF Blocked
  <2>. QED
    BY <2>1, <1>1, BlockedIsFinite, FS_AddElement DEF Blocked
<1>2. CASE pc'[t] \notin BlockedPC
  <2>1. Blocked' = Blocked \ {t}
    BY <1>2 DEF Blocked
  <2>. QED
    BY <2>1, <1>2, BlockedIsFinite, FS_RemoveElement DEF Blocked
<1>. QED
  BY <1>1, <1>2

\* The initial states satisfy the inductive invariant: nobody waits.
LEMMA InitInv == Init => SemaphoreInv
<1>. SUFFICES ASSUME Init PROVE SemaphoreInv
  OBVIOUS
<1>1. TypeOK
  BY SemaphoreAssumption DEF Init, TypeOK
<1>2. Blocked = {}
  BY DEF Init, Blocked, BlockedPC
<1>3. Accounting
  BY <1>2, FS_EmptySet, SemaphoreAssumption DEF Init, Accounting, Handing
<1>4. MutexExclusion /\ WordsInv
  BY DEF Init, MutexExclusion, WordsInv, UnderMutex
<1>. QED
  BY <1>1, <1>3, <1>4 DEF SemaphoreInv

\* Locking and unlocking a word outside the exchange-and-add build.
LEMMA Words ==
  ASSUME ~Xadd, NEW w, NEW a, NEW b, NEW c
  PROVE  /\ Locked(w) = 1
         /\ Unlocked(w) = 0
         /\ Attempt(w, a, b, c) = IF w = 0 THEN a ELSE c
  BY DEF Locked, Unlocked, Attempt

\* Steps that touch neither hold nor value and block or free nobody.

\* A call of sem_wait begins.
LEMMA CallWaitInv ==
  ASSUME ~Xadd, SemaphoreInv, NEW t \in Threads, CallWait(t)
  PROVE  SemaphoreInv'
<1>. USE Words DEF SemaphoreInv, CallWait, Goto
<1>1. TypeOK'
  BY SemaphoreAssumption DEF TypeOK, UnderMutex
<1>2. MutexExclusion'
  BY DEF TypeOK, MutexExclusion, WordsInv, UnderMutex
<1>3. WordsInv'
  BY DEF TypeOK, MutexExclusion, WordsInv, UnderMutex
<1>4. Accounting'
  <2>1. Cardinality(Blocked') = Cardinality(Blocked)
    BY BlockedStep DEF BlockedPC, TypeOK
  <2>2. Handing' <=> Handing
    BY DEF Handing, TypeOK, MutexExclusion, WordsInv, UnderMutex
  <2>. QED
    BY <2>1, <2>2 DEF Accounting, TypeOK
<1>. QED
  BY <1>1, <1>2, <1>3, <1>4

\* A call of sem_post begins.
LEMMA CallPostInv ==
  ASSUME ~Xadd, SemaphoreInv, NEW t \in Threads, CallPost(t)
  PROVE  SemaphoreInv'
<1>. USE Words DEF SemaphoreInv, CallPost, Goto
<1>1. TypeOK'
  BY SemaphoreAssumption DEF TypeOK, UnderMutex
<1>2. MutexExclusion'
  BY DEF TypeOK, MutexExclusion, WordsInv, UnderMutex
<1>3. WordsInv'
  BY DEF TypeOK, MutexExclusion, WordsInv, UnderMutex
<1>4. Accounting'
  <2>1. Cardinality(Blocked') = Cardinality(Blocked)
    BY BlockedStep DEF BlockedPC, TypeOK
  <2>2. Handing' <=> Handing
    BY DEF Handing, TypeOK, MutexExclusion, WordsInv, UnderMutex
  <2>. QED
    BY <2>1, <2>2 DEF Accounting, TypeOK
<1>. QED
  BY <1>1, <1>2, <1>3, <1>4

\* A wait that was let go returns.
LEMMA WaitReturnInv ==
  ASSUME ~Xadd, SemaphoreInv, NEW t \in Threads, WaitReturn(t)
  PROVE  SemaphoreInv'
<1>. USE Words DEF SemaphoreInv, WaitReturn, Goto
<1>1. TypeOK'
  BY DEF TypeOK, UnderMutex
<1>2. MutexExclusion'
  BY DEF TypeOK, MutexExclusion, WordsInv, UnderMutex
<1>3. WordsInv'
  BY DEF TypeOK, MutexExclusion, WordsInv, UnderMutex
<1>4. Accounting'
  <2>1. Cardinality(Blocked') = Cardinality(Blocked)
    BY BlockedStep DEF BlockedPC, TypeOK
  <2>2. Handing' <=> Handing
    BY DEF Handing, TypeOK, MutexExclusion, WordsInv, UnderMutex
  <2>. QED
    BY <2>1, <2>2 DEF Accounting, TypeOK
<1>. QED
  BY <1>1, <1>2, <1>3, <1>4

\* sem_wait tries mutex.
LEMMA WaitMutexInv ==
  ASSUME ~Xadd, SemaphoreInv, NEW t \in Threads, WaitMutex(t)
  PROVE  SemaphoreInv'
<1>. USE Words DEF SemaphoreInv, WaitMutex, Goto
<1>1. TypeOK'
  BY DEF TypeOK, UnderMutex
<1>2. MutexExclusion'
  BY DEF TypeOK, MutexExclusion, WordsInv, UnderMutex
<1>3. WordsInv'
  BY DEF TypeOK, MutexExclusion, WordsInv, UnderMutex
<1>4. Accounting'
  <2>1. Cardinality(Blocked') = Cardinality(Blocked)
    BY BlockedStep DEF BlockedPC, TypeOK
  <2>2. Handing' <=> Handing
    BY DEF Handing, TypeOK, MutexExclusion, WordsInv, UnderMutex
  <2>. QED
    BY <2>1, <2>2 DEF Accounting, TypeOK
<1>. QED
  BY <1>1, <1>2, <1>3, <1>4

\* sem_post tries mutex.
LEMMA PostMutexInv ==
  ASSUME ~Xadd, SemaphoreInv, NEW t \in Threads, PostMutex(t)
  PROVE  SemaphoreInv'
<1>. USE Words DEF SemaphoreInv, PostMutex, Goto
<1>1. TypeOK'
  BY DEF TypeOK, UnderMutex
<1>2. MutexExclusion'
  BY DEF TypeOK, MutexExclusion, WordsInv, UnderMutex
<1>3. WordsInv'
  BY DEF TypeOK, MutexExclusion, WordsInv, UnderMutex
<1>4. Accounting'
  <2>1. Cardinality(Blocked') = Cardinality(Blocked)
    BY BlockedStep DEF BlockedPC, TypeOK
  <2>2. Handing' <=> Handing
    BY DEF Handing, TypeOK, MutexExclusion, WordsInv, UnderMutex
  <2>. QED
    BY <2>1, <2>2 DEF Accounting, TypeOK
<1>. QED
  BY <1>1, <1>2, <1>3, <1>4

\* sem_wait unlocks mutex.
LEMMA WaitUnlockInv ==
  ASSUME ~Xadd, SemaphoreInv, NEW t \in Threads, WaitUnlock(t)
  PROVE  SemaphoreInv'
<1>. USE Words DEF SemaphoreInv, WaitUnlock, Goto
<1>1. TypeOK'
  BY DEF TypeOK, UnderMutex
<1>2. MutexExclusion'
  BY DEF TypeOK, MutexExclusion, WordsInv, UnderMutex
<1>3. WordsInv'
  BY DEF TypeOK, MutexExclusion, WordsInv, UnderMutex
<1>4. Accounting'
  <2>1. Cardinality(Blocked') = Cardinality(Blocked)
    BY BlockedStep DEF BlockedPC, TypeOK
  <2>2. Handing' <=> Handing
    BY DEF Handing, TypeOK, MutexExclusion, WordsInv, UnderMutex
  <2>. QED
    BY <2>1, <2>2 DEF Accounting, TypeOK
<1>. QED
  BY <1>1, <1>2, <1>3, <1>4

\* sem_post unlocks mutex.
LEMMA PostUnlockInv ==
  ASSUME ~Xadd, SemaphoreInv, NEW t \in Threads, PostUnlock(t)
  PROVE  SemaphoreInv'
<1>. USE Words DEF SemaphoreInv, PostUnlock, Goto
<1>1. TypeOK'
  BY DEF TypeOK, UnderMutex
<1>2. MutexExclusion'
  BY DEF TypeOK, MutexExclusion, WordsInv, UnderMutex
<1>3. WordsInv'
  BY DEF TypeOK, MutexExclusion, WordsInv, UnderMutex
<1>4. Accounting'
  <2>1. Cardinality(Blocked') = Cardinality(Blocked)
    BY BlockedStep DEF BlockedPC, TypeOK
  <2>2. Handing' <=> Handing
    BY DEF Handing, TypeOK, MutexExclusion, WordsInv, UnderMutex
  <2>. QED
    BY <2>1, <2>2 DEF Accounting, TypeOK
<1>. QED
  BY <1>1, <1>2, <1>3, <1>4

\* sem_post tests hold.
LEMMA TestHoldInv ==
  ASSUME ~Xadd, SemaphoreInv, NEW t \in Threads, TestHold(t)
  PROVE  SemaphoreInv'
<1>. USE Words DEF SemaphoreInv, TestHold, Goto
<1>1. TypeOK'
  BY DEF TypeOK, UnderMutex
<1>2. MutexExclusion'
  BY DEF TypeOK, MutexExclusion, WordsInv, UnderMutex
<1>3. WordsInv'
  BY DEF TypeOK, MutexExclusion, WordsInv, UnderMutex
<1>4. Accounting'
  <2>1. Cardinality(Blocked') = Cardinality(Blocked)
    BY BlockedStep DEF BlockedPC, TypeOK
  <2>2. Handing' <=> Handing
    BY DEF Handing, TypeOK, MutexExclusion, WordsInv, UnderMutex
  <2>. QED
    BY <2>1, <2>2 DEF Accounting, TypeOK
<1>. QED
  BY <1>1, <1>2, <1>3, <1>4

\* A wait counts itself in value, and blocks if that makes it negative.
LEMMA DecrementInv ==
  ASSUME ~Xadd, SemaphoreInv, NEW t \in Threads, Decrement(t)
  PROVE  SemaphoreInv'
<1>. USE Words DEF SemaphoreInv, Decrement, Goto
<1>1. TypeOK'
  BY DEF TypeOK, UnderMutex
<1>2. MutexExclusion'
  BY DEF TypeOK, MutexExclusion, WordsInv, UnderMutex
<1>3. WordsInv'
  BY DEF TypeOK, MutexExclusion, WordsInv, UnderMutex
<1>4. Accounting'
  <2>1. Cardinality(Blocked') = IF value - 1 < 0 THEN Cardinality(Blocked) + 1
                                               ELSE Cardinality(Blocked)
    BY BlockedStep DEF BlockedPC, TypeOK
  <2>2. Handing' <=> Handing
    BY DEF Handing, TypeOK, MutexExclusion, WordsInv, UnderMutex
  <2>. QED
    BY <2>1, <2>2 DEF Accounting, TypeOK
<1>. QED
  BY <1>1, <1>2, <1>3, <1>4

\* A post counts itself in value, and will unlock hold if a wait is counted
\* there; no other post does, because mutex is held.
LEMMA IncrementInv ==
  ASSUME ~Xadd, SemaphoreInv, NEW t \in Threads, Increment(t)
  PROVE  SemaphoreInv'
<1>. USE Words DEF SemaphoreInv, Increment, Goto
<1>0. ~Handing
  BY DEF Handing, MutexExclusion, UnderMutex
<1>1. TypeOK'
  BY DEF TypeOK, UnderMutex
<1>2. MutexExclusion'
  BY DEF TypeOK, MutexExclusion, WordsInv, UnderMutex
<1>3. WordsInv'
  BY DEF TypeOK, MutexExclusion, WordsInv, UnderMutex
<1>4. Accounting'
  <2>1. Cardinality(Blocked') = Cardinality(Blocked)
    BY BlockedStep DEF BlockedPC, TypeOK
  <2>2. Handing' <=> value + 1 <= 0
    BY DEF Handing, TypeOK, MutexExclusion, WordsInv, UnderMutex
  <2>. QED
    BY <1>0, <2>1, <2>2 DEF Accounting, TypeOK
<1>. QED
  BY <1>1, <1>2, <1>3, <1>4

\* A wait locks hold if it finds it unlocked, and is let go.
LEMMA WaitHoldInv ==
  ASSUME ~Xadd, SemaphoreInv, NEW t \in Threads, WaitHold(t)
  PROVE  SemaphoreInv'
<1>. USE Words DEF SemaphoreInv, WaitHold, Goto
<1>1. TypeOK'
  BY DEF TypeOK, UnderMutex
<1>2. MutexExclusion'
  BY DEF TypeOK, MutexExclusion, WordsInv, UnderMutex
<1>3. WordsInv'
  BY DEF TypeOK, MutexExclusion, WordsInv, UnderMutex
<1>4. Accounting'
  <2>1. Cardinality(Blocked') = IF hold = 0 THEN Cardinality(Blocked) - 1
                                       ELSE Cardinality(Blocked)
    BY BlockedStep DEF BlockedPC, TypeOK
  <2>2. Handing' <=> Handing
    BY DEF Handing, TypeOK, MutexExclusion, WordsInv, UnderMutex
  <2>. QED
    BY <2>1, <2>2 DEF Accounting, TypeOK
<1>. QED
  BY <1>1, <1>2, <1>3, <1>4

\* A post unlocks hold, which it found locked.
LEMMA ReleaseHoldInv ==
  ASSUME ~Xadd, SemaphoreInv, NEW t \in Threads, ReleaseHold(t)
  PROVE  SemaphoreInv'
<1>. USE Words DEF SemaphoreInv, ReleaseHold, Goto
<1>0. Handing /\ hold = 1
  BY DEF Handing, WordsInv
<1>1. TypeOK'
  BY DEF TypeOK, UnderMutex
<1>2. MutexExclusion'
  BY DEF TypeOK, MutexExclusion, WordsInv, UnderMutex
<1>3. WordsInv'
  BY DEF TypeOK, MutexExclusion, WordsInv, UnderMutex
<1>4. Accounting'
  <2>1. Cardinality(Blocked') = Cardinality(Blocked)
    BY BlockedStep DEF BlockedPC, TypeOK
  <2>2. Handing' <=> FALSE
    BY DEF Handing, TypeOK, MutexExclusion, WordsInv, UnderMutex
  <2>. QED
    BY <1>0, <2>1, <2>2 DEF Accounting, TypeOK
<1>. QED
  BY <1>1, <1>2, <1>3, <1>4

\* No step changes the variant of the lock.
LEMMA SameBuild == [Next]_vars => (Xadd' <=> Xadd)
BY DEF Next, Step, vars, Xadd, WaitMutex, WaitMutexUndo, Decrement, WaitUnlock, WaitHold,
   WaitHoldUndo, WaitReturn, PostMutex, PostMutexUndo, Increment, TestHold,
   ReleaseHold, PostUnlock, CallWait, CallPost

\* Every step keeps the inductive invariant; the decw steps cannot be taken.
LEMMA NextInv == ~Xadd /\ SemaphoreInv /\ [Next]_vars => SemaphoreInv'
<1>. SUFFICES ASSUME ~Xadd, SemaphoreInv, [Next]_vars PROVE SemaphoreInv'
  OBVIOUS
<1>1. ASSUME NEW t \in Threads, Step(t) PROVE SemaphoreInv'
  <2>1. ~WaitMutexUndo(t) /\ ~WaitHoldUndo(t) /\ ~PostMutexUndo(t)
    BY DEF SemaphoreInv, WordsInv, WaitMutexUndo, WaitHoldUndo, PostMutexUndo, Goto
  <2>. QED
    BY <1>1, <2>1, WaitMutexInv, DecrementInv, WaitUnlockInv, WaitHoldInv, WaitReturnInv,
       PostMutexInv, IncrementInv, TestHoldInv, ReleaseHoldInv, PostUnlockInv
    DEF Step
<1>2. ASSUME NEW t \in Threads, CallWait(t) \/ CallPost(t) PROVE SemaphoreInv'
  BY <1>2, CallWaitInv, CallPostInv
<1>3. CASE UNCHANGED vars
  BY <1>3 DEF vars, SemaphoreInv, TypeOK, MutexExclusion, WordsInv, Accounting,
     Blocked, Handing
<1>. QED
  BY <1>1, <1>2, <1>3 DEF Next

\* Every reachable state of these builds satisfies the inductive invariant.
THEOREM SemaphoreInvariant == Spec => [](~Xadd => SemaphoreInv)
<1>1. Init => (~Xadd => SemaphoreInv)
  BY InitInv
<1>2. (~Xadd => SemaphoreInv) /\ [Next]_vars => (~Xadd => SemaphoreInv)'
  BY SameBuild, NextInv
<1>. QED
  BY <1>1, <1>2, PTL DEF Spec

------------------------------------------------------------------------------
(* The remainders of the exchange-and-add build                            *)

\* A number is a multiple and its remainder.
LEMMA Rest ==
  ASSUME NEW H \in Nat \ {0}, NEW a \in Nat
  PROVE  \E q \in Int : a = H * q + (a % H) /\ (a % H) \in 0..H-1
<1>1. (a % H) \in 0..H-1
  OBVIOUS
<1>2. a \div H \in Int
  OBVIOUS
<1>3. a = H * (a \div H) + (a % H)
  OBVIOUS
<1> QED BY <1>1, <1>2, <1>3, Zenon

\* In one way only.
LEMMA Same ==
  ASSUME NEW H \in Nat \ {0}, NEW a \in Int, NEW b \in Int,
         NEW r \in 0..H-1, NEW s \in 0..H-1, H * a + r = H * b + s
  PROVE  a = b /\ r = s
<1>1. H * a = H * b + (s - r)
  OBVIOUS
<1>2. ~(a > b)
  <2> SUFFICES ASSUME a >= b + 1 PROVE FALSE OBVIOUS
  <2>1. H * (b + 1) <= H * a
    OBVIOUS
  <2>2. H * (b + 1) = H * b + H
    OBVIOUS
  <2> QED BY <2>1, <2>2
<1>3. ~(b > a)
  <2> SUFFICES ASSUME b >= a + 1 PROVE FALSE OBVIOUS
  <2>1. H * (a + 1) <= H * b
    OBVIOUS
  <2>2. H * (a + 1) = H * a + H
    OBVIOUS
  <2> QED BY <2>1, <2>2
<1> QED BY <1>2, <1>3

\* Numbers have the same remainder if they are a multiple apart.
LEMMA SameRest ==
  ASSUME NEW H \in Nat \ {0}, NEW a \in Nat, NEW b \in Nat
  PROVE  (a % H) = (b % H) <=> \E k \in Int : a = b + H * k
<1>1. PICK p \in Int : a = H * p + (a % H) /\ (a % H) \in 0..H-1
  BY Rest
<1>2. PICK q \in Int : b = H * q + (b % H) /\ (b % H) \in 0..H-1
  BY Rest
<1>3. ASSUME (a % H) = (b % H) PROVE \E k \in Int : a = b + H * k
  <2>1. H * (p - q) = H * p - H * q /\ p - q \in Int
    OBVIOUS
  <2>2. a = b + H * (p - q)
    <3> DEFINE r == a % H
    <3>1. r \in Int /\ a = H * p + r /\ b = H * q + r
      BY <1>1, <1>2, <1>3
    <3>2. H * p \in Int /\ H * q \in Int
      OBVIOUS
    <3> HIDE DEF r
    <3> QED BY <2>1, <3>1, <3>2
  <2> QED BY <2>1, <2>2
<1>4. ASSUME NEW k \in Int, a = b + H * k PROVE (a % H) = (b % H)
  <2>1. H * (q + k) = H * q + H * k /\ q + k \in Int
    OBVIOUS
  <2>2. H * p + (a % H) = H * (q + k) + (b % H)
    <3> DEFINE r == a % H
               s == b % H
    <3>1. r \in Int /\ a = H * p + r /\ s \in Int /\ b = H * q + s
      BY <1>1, <1>2
    <3>2. H * p \in Int /\ H * q \in Int /\ H * k \in Int
      OBVIOUS
    <3> HIDE DEF r, s
    <3>3. H * p + r = H * (q + k) + s
      BY <2>1, <3>1, <3>2, <1>4
    <3> QED BY <3>3 DEF r, s
  <2>3. PICK n \in Int : H * p + (a % H) = H * n + (b % H)
    BY <2>1, <2>2, Zenon
  <2>4. (a % H) \in 0..H-1 /\ (b % H) \in 0..H-1
    BY <1>1, <1>2, Zenon
  <2> QED BY <1>1, <2>3, <2>4, Same, Zenon
<1> QED BY <1>3, <1>4

\* Numbers with the same remainder keep it, and had it, one further.
LEMMA OneFurther ==
  ASSUME NEW H \in Nat \ {0}, NEW a \in Nat, NEW b \in Nat
  PROVE  ((a + 1) % H) = ((b + 1) % H) <=> (a % H) = (b % H)
<1>1. ((a + 1) % H) = ((b + 1) % H) <=> \E k \in Int : a + 1 = b + 1 + H * k
  <2>1. a + 1 \in Nat /\ b + 1 \in Nat
    OBVIOUS
  <2> QED BY <2>1, SameRest, Zenon
<1>2. (a % H) = (b % H) <=> \E k \in Int : a = b + H * k
  BY SameRest
<1>3. \A k \in Int : a + 1 = b + 1 + H * k <=> a = b + H * k
  <2> SUFFICES ASSUME NEW k \in Int PROVE a + 1 = b + 1 + H * k <=> a = b + H * k
    OBVIOUS
  <2>1. H * k \in Int
    OBVIOUS
  <2> QED BY <2>1
<1> QED BY <1>1, <1>2, <1>3, Zenon

\* decw takes one from the low half, whether it wraps or not.
LEMMA LowHalfLess ==
  ASSUME NEW w \in Nat, NEW n \in Nat
  PROVE  /\ DecLow(w) \in Nat
         /\ ((DecLow(w) + 1 + n) % Half) = ((w + n) % Half)
<1>1. Half \in Nat \ {0}
  BY SemaphoreAssumption
<1>2. CASE (w % Half) = 0
  <2>1. DecLow(w) = w + Half - 1 /\ w + Half - 1 \in Nat
    BY <1>1, <1>2 DEF DecLow
  <2>2. w + Half - 1 + 1 + n = (w + n) + Half * 1 /\ w + Half - 1 + 1 + n \in Nat /\ w + n \in Nat
    BY <1>1
  <2>3. ((w + Half - 1 + 1 + n) % Half) = ((w + n) % Half)
    <3>1. \E k \in Int : w + Half - 1 + 1 + n = (w + n) + Half * k
      BY <2>2
    <3> QED BY <1>1, <2>2, <3>1, SameRest, Zenon
  <2> QED BY <2>1, <2>3
<1>3. CASE (w % Half) # 0
  <2>1. w # 0
    BY <1>1, <1>3
  <2> QED BY <1>3, <2>1 DEF DecLow
<1> QED BY <1>2, <1>3

\* A whole word that wraps does not change what its low half counts.
LEMMA WordWraps ==
  ASSUME NEW w \in Nat, NEW n \in Nat
  PROVE  /\ (w % (Half * Half)) \in Nat
         /\ (((w % (Half * Half)) + n) % Half) = ((w + n) % Half)
<1>1. Half \in Nat \ {0} /\ Half * Half \in Nat \ {0}
  BY SemaphoreAssumption
<1>2. PICK q \in Int : /\ w = (Half * Half) * q + (w % (Half * Half))
                       /\ (w % (Half * Half)) \in 0..Half * Half - 1
  BY <1>1, Rest
<1> DEFINE r == w % (Half * Half)
<1>3. r \in Nat /\ w = (Half * Half) * q + r
  BY <1>1, <1>2
<1>4. (Half * Half) * q = Half * (Half * q) /\ Half * q \in Int /\ Half * (Half * q) \in Int
  BY <1>1
<1> HIDE DEF r
<1>5. w + n = (r + n) + Half * (Half * q) /\ w + n \in Nat /\ r + n \in Nat
  BY <1>3, <1>4
<1>6. ((w + n) % Half) = ((r + n) % Half)
  BY <1>1, <1>4, <1>5, SameRest
<1> QED BY <1>3, <1>6 DEF r

------------------------------------------------------------------------------
(* The exchange-and-add build                                              *)

\* What the step of one thread changes of a count of threads.
LEMMA CountStep ==
  ASSUME NEW t \in Threads, NEW S, NEW R, S \subseteq Threads, R \subseteq Threads,
         \A u \in Threads \ {t} : u \in R <=> u \in S
  PROVE  /\ IsFiniteSet(S) /\ Cardinality(S) \in Nat /\ Cardinality(R) \in Nat
         /\ Cardinality(S) <= Cardinality(Threads) /\ Cardinality(Threads) \in Nat
         /\ t \notin S => Cardinality(S) < Cardinality(Threads)
         /\ (t \in R <=> t \in S) => Cardinality(R) = Cardinality(S)
         /\ t \in R /\ t \notin S => Cardinality(R) = Cardinality(S) + 1
         /\ t \notin R /\ t \in S => Cardinality(R) = Cardinality(S) - 1
<1>1. IsFiniteSet(Threads) /\ IsFiniteSet(S) /\ IsFiniteSet(R)
  BY SemaphoreAssumption, FS_Subset
<1>2. Cardinality(S) \in Nat /\ Cardinality(R) \in Nat /\ Cardinality(Threads) \in Nat
  BY <1>1, FS_CardinalityType
<1>3. Cardinality(S) <= Cardinality(Threads)
  BY <1>1, FS_Subset
<1>4. t \notin S => Cardinality(S) < Cardinality(Threads)
  <2> SUFFICES ASSUME t \notin S PROVE Cardinality(S) < Cardinality(Threads)
    OBVIOUS
  <2>1. S \cup {t} \subseteq Threads
    OBVIOUS
  <2>2. Cardinality(S \cup {t}) = Cardinality(S) + 1
    BY <1>1, FS_AddElement
  <2>3. Cardinality(S \cup {t}) <= Cardinality(Threads)
    BY <1>1, <2>1, FS_Subset
  <2> QED BY <1>2, <2>2, <2>3
<1>5. (t \in R <=> t \in S) => Cardinality(R) = Cardinality(S)
  <2> SUFFICES ASSUME t \in R <=> t \in S PROVE R = S
    OBVIOUS
  <2> QED OBVIOUS
<1>6. t \in R /\ t \notin S => Cardinality(R) = Cardinality(S) + 1
  <2> SUFFICES ASSUME t \in R, t \notin S PROVE Cardinality(R) = Cardinality(S) + 1
    OBVIOUS
  <2>1. R = S \cup {t}
    OBVIOUS
  <2> QED BY <1>1, <2>1, FS_AddElement
<1>7. t \notin R /\ t \in S => Cardinality(R) = Cardinality(S) - 1
  <2> SUFFICES ASSUME t \notin R, t \in S PROVE Cardinality(R) = Cardinality(S) - 1
    OBVIOUS
  <2>1. R = S \ {t}
    OBVIOUS
  <2> QED BY <1>1, <2>1, FS_RemoveElement
<1> QED BY <1>1, <1>2, <1>3, <1>4, <1>5, <1>6, <1>7

\* Of the threads only the one that takes a step moves, and the words stay
\* words.
LEMMA OneMoves ==
  ASSUME TypeOK, NEW t \in Threads, Step(t) \/ CallWait(t) \/ CallPost(t)
  PROVE  /\ pc' = [pc EXCEPT ![t] = pc'[t]]
         /\ \A u \in Threads \ {t} : pc'[u] = pc[u]
         /\ atomic' = atomic
BY DEF TypeOK, Step, WaitMutex, WaitMutexUndo, Decrement, WaitUnlock, WaitHold,
   WaitHoldUndo, WaitReturn, PostMutex, PostMutexUndo, Increment, TestHold,
   ReleaseHold, PostUnlock, CallWait, CallPost, Goto

\* A word stays a natural number.
LEMMA WordTypes ==
  ASSUME NEW w \in Nat
  PROVE  Locked(w) \in Nat /\ Unlocked(w) \in Nat /\ DecLow(w) \in Nat
<1>1. DecLow(w) \in Nat
  BY LowHalfLess
<1>2. ((w + 1) % (Half * Half)) \in Nat
  BY WordWraps
<1> QED BY <1>1, <1>2 DEF Locked, Unlocked

\* The types, in every build.
LEMMA TypeStep ==
  ASSUME TypeOK, NEW t \in Threads, Step(t) \/ CallWait(t) \/ CallPost(t)
  PROVE  TypeOK'
<1>1. /\ value' \in Int /\ mutex' \in Nat /\ hold' \in Nat /\ atomic' \in Atomics
      /\ calls' \in [Threads -> 0..MaxCalls]
  BY WordTypes, SemaphoreAssumption
  DEF TypeOK, Step, WaitMutex, WaitMutexUndo, Decrement, WaitUnlock, WaitHold,
      WaitHoldUndo, WaitReturn, PostMutex, PostMutexUndo, Increment, TestHold,
      ReleaseHold, PostUnlock, CallWait, CallPost
<1>2. pc' \in [Threads -> UnderMutex \cup
                 {"idle", "w_mutex", "w_mutex_undo", "w_hold", "w_hold_undo",
                  "w_return", "p_mutex", "p_mutex_undo"}]
  BY DEF TypeOK, Step, WaitMutex, WaitMutexUndo, Decrement, WaitUnlock, WaitHold,
         WaitHoldUndo, WaitReturn, PostMutex, PostMutexUndo, Increment, TestHold,
         ReleaseHold, PostUnlock, CallWait, CallPost, Goto, Attempt, UnderMutex
<1> QED BY <1>1, <1>2 DEF TypeOK

\* What a step does to mutex: nothing, an attempt, or a decw.
LEMMA MutexMoves ==
  ASSUME Xadd, TypeOK, NEW t \in Threads, Step(t) \/ CallWait(t) \/ CallPost(t)
  PROVE  \/ /\ mutex' = mutex
            /\ pc'[t] \in MutexTakenPC <=> pc[t] \in MutexTakenPC
            /\ pc'[t] \in UnderMutex <=> pc[t] \in UnderMutex
         \/ /\ mutex' = Locked(mutex)
            /\ pc[t] \notin MutexTakenPC /\ pc'[t] \in MutexTakenPC
            /\ pc'[t] \in UnderMutex => mutex = 0
         \/ /\ mutex' = DecLow(mutex)
            /\ pc[t] \in MutexTakenPC /\ pc'[t] \notin MutexTakenPC
BY DEF TypeOK, Step, WaitMutex, WaitMutexUndo, Decrement, WaitUnlock, WaitHold,
       WaitHoldUndo, WaitReturn, PostMutex, PostMutexUndo, Increment, TestHold,
       ReleaseHold, PostUnlock, CallWait, CallPost, Goto, Attempt, UnderMutex, Unlocked,
       MutexTakenPC

\* mutex counts, and a thread that finds it 0 is alone.
LEMMA MutexCounts ==
  ASSUME Xadd, XaddInv, NEW t \in Threads, Step(t) \/ CallWait(t) \/ CallPost(t)
  PROVE  mutex' = Cardinality(MutexTaken') /\ MutexExclusion'
<1>1. /\ \A u \in Threads \ {t} : pc'[u] = pc[u]
      /\ MutexTaken \subseteq Threads /\ MutexTaken' \subseteq Threads
      /\ t \in MutexTaken <=> pc[t] \in MutexTakenPC
      /\ t \in MutexTaken' <=> pc'[t] \in MutexTakenPC
      /\ \A u \in Threads \ {t} : u \in MutexTaken' <=> u \in MutexTaken
  BY OneMoves DEF XaddInv, MutexTaken
<1>2. /\ mutex = Cardinality(MutexTaken) /\ mutex \in Nat /\ mutex < Half
      /\ IsFiniteSet(MutexTaken)
      /\ t \notin MutexTaken => mutex + 1 < Half
      /\ (t \in MutexTaken' <=> t \in MutexTaken) => Cardinality(MutexTaken') = mutex
      /\ t \in MutexTaken' /\ t \notin MutexTaken => Cardinality(MutexTaken') = mutex + 1
      /\ t \notin MutexTaken' /\ t \in MutexTaken => Cardinality(MutexTaken') = mutex - 1
  <2>1. Cardinality(Threads) < Half /\ Half \in Nat
    BY SemaphoreAssumption DEF XaddInv, TypeOK, Xadd
  <2>2. mutex = Cardinality(MutexTaken)
    BY DEF XaddInv
  <2> QED BY <1>1, <2>1, <2>2, CountStep
<1>3. CASE /\ mutex' = mutex
           /\ pc'[t] \in MutexTakenPC <=> pc[t] \in MutexTakenPC
           /\ pc'[t] \in UnderMutex <=> pc[t] \in UnderMutex
  BY <1>1, <1>2, <1>3 DEF XaddInv, MutexExclusion
<1>4. CASE /\ mutex' = Locked(mutex)
           /\ pc[t] \notin MutexTakenPC /\ pc'[t] \in MutexTakenPC
           /\ pc'[t] \in UnderMutex => mutex = 0
  <2>1. Half \in Nat /\ Half * Half >= Half /\ Half * Half \in Nat
    BY SemaphoreAssumption
  <2>2. ((mutex + 1) % (Half * Half)) = mutex + 1
    <3> DEFINE W == Half * Half
    <3>1. W \in Nat /\ mutex + 1 < W
      BY <1>1, <1>2, <1>4, <2>1
    <3> HIDE DEF W
    <3>2. ((mutex + 1) % W) = mutex + 1
      BY <1>2, <3>1
    <3> QED BY <3>2 DEF W
  <2>3. mutex' = Cardinality(MutexTaken')
    BY <1>1, <1>2, <1>4, <2>2 DEF Locked
  <2>4. mutex = 0 => \A u \in Threads : pc[u] \notin UnderMutex
    <3>1. mutex = 0 => MutexTaken = {}
      BY <1>2, FS_EmptySet
    <3> QED BY <3>1 DEF MutexTaken, MutexTakenPC
  <2> QED BY <1>1, <1>4, <2>3, <2>4 DEF XaddInv, MutexExclusion, MutexTakenPC
<1>5. CASE /\ mutex' = DecLow(mutex)
           /\ pc[t] \in MutexTakenPC /\ pc'[t] \notin MutexTakenPC
  <2>1. mutex # 0
    <3>1. MutexTaken # {}
      BY <1>1, <1>5
    <3> QED BY <1>2, <3>1, FS_EmptySet
  <2>2. (mutex % Half) = mutex
    BY <1>2, SemaphoreAssumption
  <2>3. mutex' = Cardinality(MutexTaken')
    BY <1>1, <1>2, <1>5, <2>1, <2>2 DEF DecLow
  <2>4. pc'[t] \notin UnderMutex
    BY <1>5 DEF MutexTakenPC
  <2> QED BY <1>1, <2>3, <2>4 DEF XaddInv, MutexExclusion
<1> QED BY <1>3, <1>4, <1>5, MutexMoves DEF XaddInv

\* The posts that are about to unlock hold.
HandingPC == {"p_test", "p_release"}

\* What a step does to value and hold.
LEMMA HoldMoves ==
  ASSUME Xadd, TypeOK, NEW t \in Threads, Step(t) \/ CallWait(t) \/ CallPost(t)
  PROVE  \/ /\ hold' = hold /\ value' = value
            /\ pc'[t] \in BlockedPC <=> pc[t] \in BlockedPC
            /\ pc'[t] = "w_hold_undo" <=> pc[t] = "w_hold_undo"
            /\ pc'[t] \in HandingPC <=> pc[t] \in HandingPC
         \/ /\ hold' = hold /\ value' = value - 1
            /\ pc[t] = "w_value" /\ pc'[t] = IF value - 1 < 0 THEN "w_unlock_hold" ELSE "w_unlock"
         \/ /\ hold' = hold /\ value' = value + 1
            /\ pc[t] = "p_value" /\ pc'[t] = IF value + 1 <= 0 THEN "p_test" ELSE "p_unlock"
         \/ /\ hold' = Locked(hold) /\ value' = value /\ pc[t] = "w_hold"
            /\ pc'[t] = IF hold = 0 THEN "w_return" ELSE "w_hold_undo"
         \/ /\ hold' = DecLow(hold) /\ value' = value
            /\ pc[t] = "w_hold_undo" /\ pc'[t] = "w_hold"
         \/ /\ hold' = DecLow(hold) /\ value' = value
            /\ pc[t] = "p_release" /\ pc'[t] = "p_unlock"
BY DEF TypeOK, Step, WaitMutex, WaitMutexUndo, Decrement, WaitUnlock, WaitHold,
       WaitHoldUndo, WaitReturn, PostMutex, PostMutexUndo, Increment, TestHold,
       ReleaseHold, PostUnlock, CallWait, CallPost, Goto, Attempt, Unlocked,
       BlockedPC, HandingPC

\* Only one post hands over, since it has mutex.
LEMMA HandingMoves ==
  ASSUME TypeOK, MutexExclusion, NEW t \in Threads, Step(t) \/ CallWait(t) \/ CallPost(t)
  PROVE  /\ (pc'[t] \in HandingPC <=> pc[t] \in HandingPC) => (Handing' <=> Handing)
         /\ pc[t] \in UnderMutex => /\ Handing <=> pc[t] \in HandingPC
                                    /\ Handing' <=> pc'[t] \in HandingPC
<1>1. \A u \in Threads \ {t} : pc'[u] = pc[u]
  BY OneMoves
<1>2. HandingPC \subseteq UnderMutex
  BY DEF HandingPC, UnderMutex
<1> QED BY <1>1, <1>2 DEF Handing, HandingPC, MutexExclusion

\* A wait that finds hold unlocked has an unlock to use: hold is 0 only if its
\* low half is, and there are fewer threads than that counts.
LEMMA ZeroIsUnlocked ==
  ASSUME Xadd, XaddInv, NEW t \in Threads, pc[t] = "w_hold", hold = 0
  PROVE  Unused >= 1
<1>1. t \notin HoldTried /\ HoldTried \subseteq Threads
  BY DEF HoldTried
<1>2. Cardinality(Threads) < Half /\ Half \in Nat
  BY SemaphoreAssumption DEF XaddInv, TypeOK, Xadd
<1>3. Cardinality(HoldTried) \in Nat /\ 1 + Cardinality(HoldTried) < Half
  <2>1. Cardinality(HoldTried) \in Nat /\ Cardinality(Threads) \in Nat
        /\ Cardinality(HoldTried) < Cardinality(Threads)
    BY <1>1, CountStep
  <2> QED BY <1>2, <2>1
<1>4. ((1 + Cardinality(HoldTried)) % Half) = 1 + Cardinality(HoldTried)
  BY <1>2, <1>3
<1>5. (Unused % Half) # 0 /\ Unused \in Nat
  <2>1. Cardinality(Blocked) \in Nat /\ value \in Int
    BY BlockedIsFinite DEF XaddInv, TypeOK
  <2>2. Unused \in Int
    BY <2>1 DEF Unused
  <2> QED BY <1>3, <1>4, <2>2 DEF XaddInv, HoldCounts
<1>6. (0 % Half) = 0
  BY <1>2, SemaphoreAssumption
<1> QED BY <1>5, <1>6

\* The unlocks are counted in the low half of hold, however many there are.
LEMMA HoldKept ==
  ASSUME Xadd, XaddInv, NEW t \in Threads, Step(t) \/ CallWait(t) \/ CallPost(t)
  PROVE  Unused' >= 0 /\ HoldCounts'
<1> DEFINE C == Cardinality(Blocked)
           D == Cardinality(Blocked')
           U == Cardinality(HoldTried)
           V == Cardinality(HoldTried')
           out == IF Handing THEN 1 ELSE 0
           owed == IF value < 0 THEN value ELSE 0
<1>1. TypeOK /\ MutexExclusion /\ value \in Int /\ hold \in Nat /\ Half \in Nat \ {0}
  BY SemaphoreAssumption DEF XaddInv, TypeOK
<1>2. \A u \in Threads \ {t} : pc'[u] = pc[u]
  BY <1>1, OneMoves
<1>3. /\ C \in Nat /\ D \in Nat
      /\ D = IF pc'[t] \in BlockedPC
               THEN IF pc[t] \in BlockedPC THEN C ELSE C + 1
               ELSE IF pc[t] \in BlockedPC THEN C - 1 ELSE C
  <2>1. D = IF pc'[t] \in BlockedPC
               THEN IF pc[t] \in BlockedPC THEN C ELSE C + 1
               ELSE IF pc[t] \in BlockedPC THEN C - 1 ELSE C
    BY <1>2, BlockedStep
  <2>2. C \in Nat
    BY BlockedIsFinite
  <2>3. D \in Nat
    <3>1. Blocked \subseteq Threads /\ Blocked' \subseteq Threads
          /\ \A u \in Threads \ {t} : u \in Blocked' <=> u \in Blocked
      BY <1>2 DEF Blocked
    <3> QED BY <3>1, CountStep
  <2> QED BY <2>1, <2>2, <2>3
<1>4. /\ U \in Nat /\ V \in Nat
      /\ (pc'[t] = "w_hold_undo" <=> pc[t] = "w_hold_undo") => V = U
      /\ pc'[t] = "w_hold_undo" /\ pc[t] # "w_hold_undo" => V = U + 1
      /\ pc'[t] # "w_hold_undo" /\ pc[t] = "w_hold_undo" => V = U - 1
  <2>1. /\ HoldTried \subseteq Threads /\ HoldTried' \subseteq Threads
        /\ \A u \in Threads \ {t} : u \in HoldTried' <=> u \in HoldTried
        /\ t \in HoldTried <=> pc[t] = "w_hold_undo"
        /\ t \in HoldTried' <=> pc'[t] = "w_hold_undo"
    BY <1>2 DEF HoldTried
  <2> QED BY <2>1, CountStep
<1>5. /\ Unused = C + owed - out /\ Unused \in Nat
      /\ ((hold + Unused) % Half) = ((1 + U) % Half)
  BY <1>1, <1>3 DEF XaddInv, HoldCounts, Unused
<1>6. Unused' = D + (IF value' < 0 THEN value' ELSE 0) - (IF Handing' THEN 1 ELSE 0)
  BY DEF Unused
<1>7. HoldCounts' <=> ((hold' + Unused') % Half) = ((1 + V) % Half)
  BY DEF HoldCounts
<1> HIDE DEF C, D, U, V
<1>8. CASE /\ hold' = hold /\ value' = value
           /\ pc'[t] \in BlockedPC <=> pc[t] \in BlockedPC
           /\ pc'[t] = "w_hold_undo" <=> pc[t] = "w_hold_undo"
           /\ pc'[t] \in HandingPC <=> pc[t] \in HandingPC
  <2>1. Handing' <=> Handing
    BY <1>1, <1>8, HandingMoves
  <2>2. D = C /\ V = U
    BY <1>3, <1>4, <1>8
  <2> QED BY <1>5, <1>6, <1>7, <1>8, <2>1, <2>2
<1>9. CASE /\ hold' = hold /\ value' = value - 1
           /\ pc[t] = "w_value" /\ pc'[t] = IF value - 1 < 0 THEN "w_unlock_hold" ELSE "w_unlock"
  <2>1. Handing' <=> Handing
    BY <1>1, <1>9, HandingMoves DEF HandingPC
  <2>2. D = (IF value - 1 < 0 THEN C + 1 ELSE C) /\ V = U
    BY <1>1, <1>3, <1>4, <1>9 DEF BlockedPC
  <2>3. Unused' = Unused
    BY <1>1, <1>3, <1>5, <1>6, <1>9, <2>1, <2>2
  <2> QED BY <1>5, <1>7, <1>9, <2>2, <2>3
<1>10. CASE /\ hold' = hold /\ value' = value + 1
            /\ pc[t] = "p_value" /\ pc'[t] = IF value + 1 <= 0 THEN "p_test" ELSE "p_unlock"
  <2>1. ~Handing /\ (Handing' <=> value + 1 <= 0)
    BY <1>1, <1>10, HandingMoves DEF HandingPC, UnderMutex
  <2>2. D = C /\ V = U
    BY <1>3, <1>4, <1>10 DEF BlockedPC
  <2>3. Unused' = Unused
    BY <1>1, <1>3, <1>5, <1>6, <1>10, <2>1, <2>2
  <2> QED BY <1>5, <1>7, <1>10, <2>2, <2>3
<1>11. CASE /\ hold' = Locked(hold) /\ value' = value /\ pc[t] = "w_hold"
            /\ pc'[t] = IF hold = 0 THEN "w_return" ELSE "w_hold_undo"
  <2>1. Handing' <=> Handing
    BY <1>1, <1>11, HandingMoves DEF HandingPC
  <2>2. hold' \in Nat /\ \A n \in Nat : ((hold' + n) % Half) = ((hold + 1 + n) % Half)
    <3>1. hold' = ((hold + 1) % (Half * Half)) /\ hold + 1 \in Nat
      BY <1>1, <1>11 DEF Locked
    <3> QED BY <3>1, WordWraps
  <2>3. CASE hold = 0
    <3>1. D = C - 1 /\ V = U
      BY <1>3, <1>4, <1>11, <2>3 DEF BlockedPC
    <3>2. Unused >= 1
      BY <1>11, <2>3, ZeroIsUnlocked
    <3>3. Unused' = Unused - 1 /\ Unused' \in Nat
      BY <1>1, <1>3, <1>5, <1>6, <1>11, <2>1, <3>1, <3>2
    <3>4. hold + 1 + Unused' = hold + Unused
      BY <1>1, <1>5, <3>3
    <3> QED BY <1>5, <1>7, <2>2, <3>1, <3>3, <3>4
  <2>4. CASE hold # 0
    <3>1. D = C /\ V = U + 1
      BY <1>3, <1>4, <1>11, <2>4 DEF BlockedPC
    <3>2. Unused' = Unused
      BY <1>1, <1>3, <1>5, <1>6, <1>11, <2>1, <3>1
    <3>3. ((hold + Unused + 1) % Half) = ((1 + U + 1) % Half)
      <4>1. hold + Unused \in Nat /\ 1 + U \in Nat
        BY <1>1, <1>4, <1>5
      <4> QED BY <1>1, <1>5, <4>1, OneFurther
    <3>4. hold + 1 + Unused = hold + Unused + 1 /\ 1 + V = 1 + U + 1
      BY <1>1, <1>4, <1>5, <3>1
    <3> QED BY <1>5, <1>7, <2>2, <3>2, <3>3, <3>4
  <2> QED BY <2>3, <2>4
<1>12. CASE /\ hold' = DecLow(hold) /\ value' = value
            /\ pc[t] = "w_hold_undo" /\ pc'[t] = "w_hold"
  <2>1. Handing' <=> Handing
    BY <1>1, <1>12, HandingMoves DEF HandingPC
  <2>2. D = C /\ V = U - 1
    BY <1>3, <1>4, <1>12 DEF BlockedPC
  <2>3. Unused' = Unused
    BY <1>1, <1>3, <1>5, <1>6, <1>12, <2>1, <2>2
  <2>4. hold' \in Nat /\ ((hold' + 1 + Unused) % Half) = ((hold + Unused) % Half)
    BY <1>1, <1>5, <1>12, LowHalfLess
  <2>5. ((hold' + Unused) % Half) = ((1 + V) % Half)
    <3>1. hold' + Unused \in Nat /\ 1 + V \in Nat /\ hold' + 1 + Unused = hold' + Unused + 1
          /\ 1 + U = 1 + V + 1
      BY <1>4, <1>5, <2>2, <2>4
    <3>2. ((hold' + Unused + 1) % Half) = ((1 + V + 1) % Half)
      BY <1>5, <2>4, <3>1
    <3> QED BY <1>1, <3>1, <3>2, OneFurther
  <2> QED BY <1>5, <1>7, <2>3, <2>5
<1>13. CASE /\ hold' = DecLow(hold) /\ value' = value
            /\ pc[t] = "p_release" /\ pc'[t] = "p_unlock"
  <2>1. Handing /\ ~Handing'
    BY <1>1, <1>13, HandingMoves DEF HandingPC, UnderMutex
  <2>2. D = C /\ V = U
    BY <1>3, <1>4, <1>13 DEF BlockedPC
  <2>3. Unused' = Unused + 1
    BY <1>1, <1>3, <1>5, <1>6, <1>13, <2>1, <2>2
  <2>4. hold' \in Nat /\ ((hold' + 1 + Unused) % Half) = ((hold + Unused) % Half)
    BY <1>1, <1>5, <1>13, LowHalfLess
  <2>5. hold' + Unused' = hold' + 1 + Unused
    BY <1>5, <2>3, <2>4
  <2> QED BY <1>5, <1>7, <2>2, <2>3, <2>4, <2>5
<1> QED BY <1>1, <1>8, <1>9, <1>10, <1>11, <1>12, <1>13, HoldMoves

\* Nothing is counted at first.
LEMMA InitXadd == Init => XaddInv
<1> SUFFICES ASSUME Init PROVE XaddInv
  OBVIOUS
<1>1. TypeOK
  BY SemaphoreAssumption DEF Init, TypeOK
<1>2. MutexTaken = {} /\ HoldTried = {} /\ Blocked = {} /\ ~Handing
  BY DEF Init, MutexTaken, MutexTakenPC, UnderMutex, HoldTried, Blocked, BlockedPC, Handing
<1>3. Cardinality({}) = 0
  BY FS_EmptySet
<1>4. Unused = 0
  BY <1>2, <1>3, SemaphoreAssumption DEF Init, Unused
<1> QED BY <1>1, <1>2, <1>3, <1>4 DEF Init, XaddInv, HoldCounts, MutexExclusion, UnderMutex

\* Every step of the exchange-and-add build keeps the counts.
LEMMA NextXadd == Xadd /\ XaddInv /\ [Next]_vars => XaddInv'
<1> SUFFICES ASSUME Xadd, XaddInv, [Next]_vars PROVE XaddInv'
  OBVIOUS
<1>1. ASSUME NEW t \in Threads, Step(t) \/ CallWait(t) \/ CallPost(t) PROVE XaddInv'
  <2>1. TypeOK'
    BY <1>1, TypeStep DEF XaddInv
  <2> QED BY <1>1, <2>1, MutexCounts, HoldKept DEF XaddInv
<1>2. CASE UNCHANGED vars
  BY <1>2 DEF vars, XaddInv, TypeOK, MutexExclusion, MutexTaken, Unused, HoldCounts, Blocked,
              Handing, HoldTried
<1> QED BY <1>1, <1>2 DEF Next

\* Every reachable state of the exchange-and-add build keeps the counts.
THEOREM XaddInvariant == Spec => [](Xadd => XaddInv)
<1>1. Init => (Xadd => XaddInv)
  BY InitXadd
<1>2. (Xadd => XaddInv) /\ [Next]_vars => (Xadd => XaddInv)'
  BY SameBuild, NextXadd
<1> QED BY <1>1, <1>2, PTL DEF Spec

\* Type correctness, in every build: the words are natural numbers.
THEOREM SemaphoreTypeCorrect == Spec => []TypeOK
<1>1. (~Xadd => SemaphoreInv) /\ (Xadd => XaddInv) => TypeOK
  BY DEF SemaphoreInv, XaddInv
<1>. QED
  BY <1>1, SemaphoreInvariant, XaddInvariant, PTL

\* value is protected in every build: one thread at a time is under mutex.
THEOREM SemaphoreMutexExclusion == Spec => []MutexExclusion
<1>1. (~Xadd => SemaphoreInv) /\ (Xadd => XaddInv) => MutexExclusion
  BY DEF SemaphoreInv, XaddInv
<1>. QED
  BY <1>1, SemaphoreInvariant, XaddInvariant, PTL

\* A post finds hold locked for good before it unlocks it.
LEMMA HoldIsLocked == SemaphoreInv => ReleasesLockedHold
<1>. SUFFICES ASSUME SemaphoreInv PROVE ReleasesLockedHold
  OBVIOUS
<1>1. {u \in Threads : pc[u] = "w_hold_undo"} = {}
  BY DEF SemaphoreInv, WordsInv
<1>. QED
  BY <1>1, FS_EmptySet DEF SemaphoreInv, WordsInv, ReleasesLockedHold

\* Each wait that waits is accounted for by value, by hold or by a post that
\* is about to unlock hold, which is locked then: no post's wakeup is lost or
\* given twice.
THEOREM NoWakeupLost == Spec => []ExactHandOff
<1>1. (~Xadd => SemaphoreInv) => ExactHandOff
  BY HoldIsLocked DEF SemaphoreInv, ExactHandOff
<1>. QED
  BY <1>1, SemaphoreInvariant, PTL

------------------------------------------------------------------------------
(* The homemade semaphore implements CountingSemaphore.                    *)

Permits == value + Cardinality(Blocked)

\* How far a call has come, by the program counter of its thread.
PhaseOf(at) ==
  CASE at \in {"w_mutex", "w_mutex_undo", "w_value"} \cup BlockedPC -> "waiting"
    [] at \in {"w_unlock", "w_return"}                  -> "acquired"
    [] at \in {"p_mutex", "p_mutex_undo", "p_value"}    -> "posting"
    [] at \in {"p_test", "p_release", "p_unlock"}       -> "posted"
    [] OTHER                                            -> "none"

\* A step of one thread moves that thread's abstract call only.
LEMMA CallMoves ==
  ASSUME TypeOK, NEW t \in Threads,
         pc' = [pc EXCEPT ![t] = pc'[t]]
  PROVE  /\ AbstractCall[t] = PhaseOf(pc[t])
         /\ AbstractCall' = [AbstractCall EXCEPT ![t] = PhaseOf(pc'[t])]
         /\ PhaseOf(pc'[t]) = PhaseOf(pc[t]) => AbstractCall' = AbstractCall
<1>1. AbstractCall = [u \in Threads |-> PhaseOf(pc[u])]
  BY DEF AbstractCall, PhaseOf
<1>2. AbstractCall' = [u \in Threads |-> PhaseOf(pc'[u])]
  BY DEF AbstractCall, PhaseOf
<1>3. \A u \in Threads \ {t} : pc'[u] = pc[u]
  BY DEF TypeOK
<1>. QED
  BY <1>1, <1>2, <1>3

\* Every step of the homemade semaphore is a step of the abstract one or
\* changes nothing there: a post makes its permit available when it counts
\* itself, a wait takes one when it counts itself or when it locks hold.
LEMMA StepSimulated ==
  ASSUME TypeOK, NEW t \in Threads, Step(t) \/ CallWait(t) \/ CallPost(t),
         pc[t] = "w_hold" /\ hold = 0 => Permits > 0
  PROVE  [Abstract!Next]_<<Permits, AbstractCall>>
<1>. USE DEF Goto, Attempt
<1>0. /\ pc' = [pc EXCEPT ![t] = pc'[t]]
      /\ \A u \in Threads \ {t} : pc'[u] = pc[u]
  BY OneMoves
<1>. USE CallMoves, BlockedStep, BlockedIsFinite, <1>0
<1>1. CASE CallWait(t)
  <2>1. Permits' = Permits
    BY <1>1 DEF CallWait, Permits, BlockedPC, TypeOK
  <2>2. PhaseOf(pc[t]) = "none" /\ PhaseOf(pc'[t]) = "waiting"
    BY <1>1 DEF CallWait, PhaseOf, BlockedPC, TypeOK
  <2>. QED
    BY <2>1, <2>2 DEF Abstract!Next, Abstract!CallWait, Abstract!Move, Permits
<1>2. CASE CallPost(t)
  <2>1. Permits' = Permits
    BY <1>2 DEF CallPost, Permits, BlockedPC, TypeOK
  <2>2. PhaseOf(pc[t]) = "none" /\ PhaseOf(pc'[t]) = "posting"
    BY <1>2 DEF CallPost, PhaseOf, BlockedPC, TypeOK
  <2>. QED
    BY <2>1, <2>2 DEF Abstract!Next, Abstract!CallPost, Abstract!Move, Permits
<1>3. CASE WaitMutex(t)
  <2>1. Permits' = Permits
    BY <1>3 DEF WaitMutex, Permits, BlockedPC, TypeOK
  <2>2. PhaseOf(pc[t]) = "waiting" /\ PhaseOf(pc'[t]) = "waiting"
    BY <1>3 DEF WaitMutex, PhaseOf, BlockedPC, TypeOK
  <2>. QED
    BY <2>1, <2>2 DEF Permits
<1>4. CASE Decrement(t) /\ value > 0
  <2>1. Permits' = Permits - 1 /\ Permits > 0
    BY <1>4 DEF Decrement, Permits, BlockedPC, TypeOK
  <2>2. PhaseOf(pc[t]) = "waiting" /\ PhaseOf(pc'[t]) = "acquired"
    BY <1>4 DEF Decrement, PhaseOf, BlockedPC, TypeOK
  <2>. QED
    BY <2>1, <2>2 DEF Abstract!Next, Abstract!Acquire, Abstract!Move, Permits
<1>5. CASE Decrement(t) /\ ~(value > 0)
  <2>1. Permits' = Permits
    BY <1>5 DEF Decrement, Permits, BlockedPC, TypeOK
  <2>2. PhaseOf(pc[t]) = "waiting" /\ PhaseOf(pc'[t]) = "waiting"
    BY <1>5 DEF Decrement, PhaseOf, BlockedPC, TypeOK
  <2>. QED
    BY <2>1, <2>2 DEF Permits
<1>6. CASE WaitUnlock(t) /\ pc[t] = "w_unlock"
  <2>1. Permits' = Permits
    BY <1>6 DEF WaitUnlock, Permits, BlockedPC, TypeOK
  <2>2. PhaseOf(pc[t]) = "acquired" /\ PhaseOf(pc'[t]) = "none"
    BY <1>6 DEF WaitUnlock, PhaseOf, BlockedPC, TypeOK
  <2>. QED
    BY <2>1, <2>2 DEF Abstract!Next, Abstract!Return, Abstract!Move, Permits
<1>7. CASE WaitUnlock(t) /\ pc[t] # "w_unlock"
  <2>1. Permits' = Permits
    BY <1>7 DEF WaitUnlock, Permits, BlockedPC, TypeOK
  <2>2. PhaseOf(pc[t]) = "waiting" /\ PhaseOf(pc'[t]) = "waiting"
    BY <1>7 DEF WaitUnlock, PhaseOf, BlockedPC, TypeOK
  <2>. QED
    BY <2>1, <2>2 DEF Permits
<1>8. CASE WaitHold(t) /\ hold = 0
  <2>1. Permits' = Permits - 1 /\ Permits > 0
    BY <1>8 DEF WaitHold, Permits, BlockedPC, TypeOK
  <2>2. PhaseOf(pc[t]) = "waiting" /\ PhaseOf(pc'[t]) = "acquired"
    BY <1>8 DEF WaitHold, PhaseOf, BlockedPC, TypeOK
  <2>. QED
    BY <2>1, <2>2 DEF Abstract!Next, Abstract!Acquire, Abstract!Move, Permits
<1>9. CASE WaitHold(t) /\ hold # 0
  <2>1. Permits' = Permits
    BY <1>9 DEF WaitHold, Permits, BlockedPC, TypeOK
  <2>2. PhaseOf(pc[t]) = "waiting" /\ PhaseOf(pc'[t]) = "waiting"
    BY <1>9 DEF WaitHold, PhaseOf, BlockedPC, TypeOK
  <2>. QED
    BY <2>1, <2>2 DEF Permits
<1>10. CASE WaitReturn(t)
  <2>1. Permits' = Permits
    BY <1>10 DEF WaitReturn, Permits, BlockedPC, TypeOK
  <2>2. PhaseOf(pc[t]) = "acquired" /\ PhaseOf(pc'[t]) = "none"
    BY <1>10 DEF WaitReturn, PhaseOf, BlockedPC, TypeOK
  <2>. QED
    BY <2>1, <2>2 DEF Abstract!Next, Abstract!Return, Abstract!Move, Permits
<1>11. CASE PostMutex(t)
  <2>1. Permits' = Permits
    BY <1>11 DEF PostMutex, Permits, BlockedPC, TypeOK
  <2>2. PhaseOf(pc[t]) = "posting" /\ PhaseOf(pc'[t]) = "posting"
    BY <1>11 DEF PostMutex, PhaseOf, BlockedPC, TypeOK
  <2>. QED
    BY <2>1, <2>2 DEF Permits
<1>12. CASE Increment(t)
  <2>1. Permits' = Permits + 1
    BY <1>12 DEF Increment, Permits, BlockedPC, TypeOK
  <2>2. PhaseOf(pc[t]) = "posting" /\ PhaseOf(pc'[t]) = "posted"
    BY <1>12 DEF Increment, PhaseOf, BlockedPC, TypeOK
  <2>. QED
    BY <2>1, <2>2 DEF Abstract!Next, Abstract!Release, Abstract!Move, Permits
<1>13. CASE TestHold(t)
  <2>1. Permits' = Permits
    BY <1>13 DEF TestHold, Permits, BlockedPC, TypeOK
  <2>2. PhaseOf(pc[t]) = "posted" /\ PhaseOf(pc'[t]) = "posted"
    BY <1>13 DEF TestHold, PhaseOf, BlockedPC, TypeOK
  <2>. QED
    BY <2>1, <2>2 DEF Permits
<1>14. CASE ReleaseHold(t)
  <2>1. Permits' = Permits
    BY <1>14 DEF ReleaseHold, Permits, BlockedPC, TypeOK
  <2>2. PhaseOf(pc[t]) = "posted" /\ PhaseOf(pc'[t]) = "posted"
    BY <1>14 DEF ReleaseHold, PhaseOf, BlockedPC, TypeOK
  <2>. QED
    BY <2>1, <2>2 DEF Permits
<1>15. CASE PostUnlock(t)
  <2>1. Permits' = Permits
    BY <1>15 DEF PostUnlock, Permits, BlockedPC, TypeOK
  <2>2. PhaseOf(pc[t]) = "posted" /\ PhaseOf(pc'[t]) = "none"
    BY <1>15 DEF PostUnlock, PhaseOf, BlockedPC, TypeOK
  <2>. QED
    BY <2>1, <2>2 DEF Abstract!Next, Abstract!Return, Abstract!Move, Permits
<1>16. CASE WaitMutexUndo(t) \/ WaitHoldUndo(t) \/ PostMutexUndo(t)
  <2>1. Permits' = Permits
    BY <1>16 DEF WaitMutexUndo, WaitHoldUndo, PostMutexUndo, Permits, BlockedPC, TypeOK
  <2>2. PhaseOf(pc[t]) = PhaseOf(pc'[t])
    BY <1>16 DEF WaitMutexUndo, WaitHoldUndo, PostMutexUndo, PhaseOf, BlockedPC, TypeOK
  <2>. QED
    BY <2>1, <2>2 DEF Permits
<1>. QED
  BY ONLY Step(t) \/ CallWait(t) \/ CallPost(t), <1>1, <1>2, <1>3, <1>4, <1>5, <1>6,
          <1>7, <1>8, <1>9, <1>10, <1>11, <1>12, <1>13, <1>14, <1>15, <1>16
  DEF Step

\* A wait that finds hold unlocked takes a permit that is there, in every
\* build.
LEMMA UnlockedIsPermit ==
  ASSUME ~Xadd => SemaphoreInv, Xadd => XaddInv, NEW t \in Threads, pc[t] = "w_hold", hold = 0
  PROVE  Permits > 0
<1>1. Cardinality(Blocked) \in Nat
  BY BlockedIsFinite
<1>2. CASE Xadd
  <2>1. Unused >= 1 /\ value \in Int
    BY <1>2, ZeroIsUnlocked DEF XaddInv, TypeOK
  <2> QED BY <1>1, <2>1 DEF Unused, Permits
<1>3. CASE ~Xadd
  BY <1>1, <1>3 DEF SemaphoreInv, TypeOK, Accounting, Permits
<1> QED BY <1>2, <1>3

\* Every behaviour of the homemade semaphore is one of the abstract one, in
\* every build: the exchange-and-add build can unlock hold too often and hang,
\* but no wait returns without a permit.
THEOREM SemaphoreImplementsCounting == Spec => ImplementsCounting
<1>1. Init => Abstract!Init
  <2>. SUFFICES ASSUME Init PROVE Abstract!Init
    OBVIOUS
  <2>1. Blocked = {}
    BY DEF Init, Blocked, BlockedPC
  <2>2. value + Cardinality(Blocked) \in InitialValues
    BY <2>1, FS_EmptySet, SemaphoreAssumption DEF Init
  <2>3. AbstractCall = [t \in Threads |-> "none"]
    BY DEF Init, AbstractCall, BlockedPC
  <2>. QED
    BY <2>2, <2>3 DEF Abstract!Init
<1>2. /\ (~Xadd => SemaphoreInv) /\ (Xadd => XaddInv) /\ [Next]_vars
      => [Abstract!Next]_(Abstract!vars)
  <2>. SUFFICES ASSUME ~Xadd => SemaphoreInv, Xadd => XaddInv, [Next]_vars
                PROVE  [Abstract!Next]_(Abstract!vars)
    OBVIOUS
  <2>1. CASE Next
    <3>1. TypeOK
      BY DEF SemaphoreInv, XaddInv
    <3>2. PICK t \in Threads : Step(t) \/ CallWait(t) \/ CallPost(t)
      BY <2>1 DEF Next
    <3>. QED
      BY <3>1, <3>2, StepSimulated, UnlockedIsPermit DEF Permits, Abstract!vars
  <2>2. CASE UNCHANGED vars
    BY <2>2 DEF vars, Abstract!vars, Blocked, AbstractCall
  <2>. QED
    BY <2>1, <2>2
<1>. QED
  BY <1>1, <1>2, SemaphoreInvariant, XaddInvariant, PTL
  DEF Spec, Abstract!Spec, ImplementsCounting
==============================================================================
