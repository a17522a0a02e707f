---------------------------- MODULE ProdConsProofs ----------------------------
(***************************************************************************)
(* Proofs about the producers and consumers of chapters 30 and 31, for any *)
(* number of threads and any capacity: what their waits rest on, and that  *)
(* the buffer, which takes no lock itself, is a first-in first-out queue.  *)
(***************************************************************************)
EXTENDS ProdCons, FiniteSetTheorems, SequenceTheorems, TLAPS

Places ==
  {"produce", "begin", "waiting", "woken", "signal", "lock", "xfer", "unlock", "post"}

\* Where the threads of each program are.
Outside(t) == IF t \in Producers THEN {"produce", "begin"} ELSE {"begin"}

PlacesInv ==
  \A t \in Threads :
    pc[t] \in Outside(t) \cup (IF chapter = 30 THEN {"waiting", "woken", "signal"}
                               ELSE {"lock", "xfer", "unlock", "post"})

\* The semaphore called mutex is 0 exactly under it, and one thread is there.
MutexInv ==
  chapter = 31 =>
    /\ mutex = 1 <=> \A t \in Threads : pc[t] \notin {"xfer", "unlock"}
    /\ \A t, u \in Threads :
         pc[t] \in {"xfer", "unlock"} /\ pc[u] \in {"xfer", "unlock"} => t = u

\* beg is the place of the newest number.
RingInv == beg = (end + cnt) % max

ProdConsInv ==
  /\ TypeOK /\ PlacesInv /\ MutexInv /\ RingInv
  /\ NoLostWakeup /\ PermitsMatchBuffer

------------------------------------------------------------------------------
(* The ring                                                                *)

LEMMA Wrap ==
  ASSUME ProdConsAssumption, NEW k \in Nat, k < 2 * max
  PROVE  /\ k % max = IF k < max THEN k ELSE k - max
         /\ k % max \in Slots
<1>1. ASSUME NEW n \in Nat \ {0}, NEW j \in Nat, j < n PROVE j % n = j
  BY <1>1, SMT
<1>2. ASSUME NEW n \in Nat \ {0}, NEW j \in Nat, j >= n, j < 2 * n PROVE j % n = j - n
  BY <1>2, SMT
<1>3. max \in Nat \ {0}
  BY DEF ProdConsAssumption, BufferAssumption
<1>4. k % max = IF k < max THEN k ELSE k - max
  <2>1. CASE k < max
    <3>1. k % max = k
      BY <1>1, <1>3, <2>1
    <3> QED BY <2>1, <3>1
  <2>2. CASE ~(k < max)
    <3>1. k >= max
      BY <1>3, <2>2
    <3>2. k % max = k - max
      BY <1>2, <1>3, <3>1
    <3> QED BY <2>2, <3>2
  <2> QED BY <2>1, <2>2
<1> QED BY <1>3, <1>4 DEF Slots

\* One more place, before or after the modulo.
LEMMA WrapNext ==
  ASSUME ProdConsAssumption, NEW k \in Nat, k + 1 < 2 * max
  PROVE  Inc(k % max) = (k + 1) % max
<1>1. max \in Nat \ {0} /\ k < 2 * max /\ k + 1 \in Nat
  BY DEF ProdConsAssumption, BufferAssumption
<1>2. k % max = IF k < max THEN k ELSE k - max
  BY <1>1, Wrap
<1>3. CASE k < max
  BY <1>2, <1>3 DEF Inc
<1>4. CASE ~(k < max)
  <2>1. PICK j \in Nat : j = k - max + 1
    BY <1>1, <1>4
  <2>2. j < max /\ j < 2 * max /\ (k % max) + 1 = j /\ k + 1 - max = j /\ ~(k + 1 < max)
    BY <1>1, <1>2, <1>4, <2>1
  <2>3. j % max = j /\ (k + 1) % max = j
    BY <1>1, <2>2, Wrap
  <2> QED BY <2>2, <2>3 DEF Inc
<1> QED BY <1>3, <1>4

\* The same from the next place on.
LEMMA WrapShift ==
  ASSUME ProdConsAssumption, NEW q \in Slots, NEW j \in Nat, j < max
  PROVE  (Inc(q) + j) % max = (q + 1 + j) % max
<1>1. max \in Nat \ {0} /\ q \in Nat /\ q < max /\ q + 1 \in Nat /\ q + 1 < 2 * max
  <2>1. max \in Nat \ {0}
    BY DEF ProdConsAssumption, BufferAssumption
  <2> QED BY <2>1 DEF Slots
<1>2. CASE q + 1 < max
  <2>1. Inc(q) = q + 1
    BY <1>1, <1>2, Wrap DEF Inc
  <2> QED BY <2>1
<1>3. CASE ~(q + 1 < max)
  <2>1. q + 1 = max
    BY <1>1, <1>3
  <2>2. Inc(q) = 0
    BY <1>1, <2>1, Wrap DEF Inc
  <2>3. PICK k \in Nat : k = q + 1 + j
    BY <1>1
  <2>4. k < 2 * max /\ ~(k < max) /\ k - max = j
    BY <1>1, <2>1, <2>3
  <2>5. k % max = j
    BY <2>4, Wrap
  <2>6. j % max = j
    <3>1. j < 2 * max
      BY <1>1
    <3> QED BY <3>1, Wrap
  <2> QED BY <2>2, <2>3, <2>5, <2>6
<1> QED BY <1>2, <1>3

\* n numbers of the array B, from the place after q on.
Ring(B, q, n) == [i \in 1..n |-> B[(q + i) % max]]

LEMMA RingIsSeq ==
  ASSUME ProdConsAssumption, NEW S, NEW B \in [Slots -> S], NEW q \in Slots, NEW n \in 0..max
  PROVE  /\ Ring(B, q, n) \in Seq(S)
         /\ Len(Ring(B, q, n)) = n
         /\ \A i \in 1..n : Ring(B, q, n)[i] = B[(q + i) % max]
<1>1. max \in Nat \ {0} /\ n \in Nat
  BY DEF ProdConsAssumption, BufferAssumption
<1>2. \A i \in 1..n : (q + i) % max \in Slots
  <2> SUFFICES ASSUME NEW i \in 1..n PROVE (q + i) % max \in Slots
    OBVIOUS
  <2>1. q + i \in Nat /\ q + i < 2 * max
    BY <1>1 DEF Slots
  <2> QED BY <2>1, Wrap
<1>3. Ring(B, q, n) \in [1..n -> S]
  BY <1>2 DEF Ring
<1>4. Ring(B, q, n) \in Seq(S)
  BY <1>1, <1>3, SeqDef
<1>5. Len(Ring(B, q, n)) = n
  BY <1>1, <1>3, <1>4, LenProperties
<1> QED BY <1>4, <1>5 DEF Ring

\* C is B with x at the place j.
IsPutAt(C, B, j, x) == \A i \in Slots : C[i] = IF i = j THEN x ELSE B[i]

\* A number put behind the newest one is appended.
LEMMA RingPut ==
  ASSUME ProdConsAssumption, NEW B \in [Slots -> Data], NEW q \in Slots, NEW n \in 0..max,
         NEW m \in 0..max, NEW x \in Data, NEW C \in [Slots -> Data]
  PROVE  m = n + 1 /\ IsPutAt(C, B, (q + m) % max, x) =>
           Ring(C, q, m) = Append(Ring(B, q, n), x)
<1>0. SUFFICES ASSUME m = n + 1, IsPutAt(C, B, (q + m) % max, x)
               PROVE  Ring(C, q, m) = Append(Ring(B, q, n), x)
  OBVIOUS
<1> DEFINE s == Ring(B, q, n)
           t == Ring(C, q, m)
<1>1. max \in Nat \ {0} /\ n \in Nat /\ n < max /\ q \in Nat /\ q < max
  <2>1. max \in Nat \ {0}
    BY DEF ProdConsAssumption, BufferAssumption
  <2> QED BY <1>0, <2>1 DEF Slots
<1>2. PICK k \in Nat : k = q + (n + 1) /\ k < 2 * max
  BY <1>1
<1>3. k % max \in Slots
  BY <1>2, Wrap
<1>4. s \in Seq(Data) /\ Len(s) = n /\ \A i \in 1..n : s[i] = B[(q + i) % max]
  BY RingIsSeq
<1>5. t \in Seq(Data) /\ Len(t) = n + 1 /\ \A i \in 1..(n + 1) : t[i] = C[(q + i) % max]
  <2>1. t \in Seq(Data) /\ Len(t) = m /\ \A i \in 1..m : t[i] = C[(q + i) % max]
    BY RingIsSeq
  <2> QED BY <1>0, <2>1
<1>6. \A i \in 1..n : (q + i) % max # k % max /\ (q + i) % max \in Slots
  <2> SUFFICES ASSUME NEW i \in 1..n PROVE (q + i) % max # k % max /\ (q + i) % max \in Slots
    OBVIOUS
  <2>1. PICK j \in Nat : j = q + i
    BY <1>1
  <2>2. j < 2 * max /\ j < k /\ k - j < max
    BY <1>1, <1>2, <2>1
  <2>3. /\ j % max = IF j < max THEN j ELSE j - max
        /\ j % max \in Slots
    BY <2>2, Wrap
  <2>4. k % max = IF k < max THEN k ELSE k - max
    BY <1>2, Wrap
  <2>5. j % max # k % max
    <3>1. CASE j < max /\ k < max
      BY <2>2, <2>3, <2>4, <3>1
    <3>2. CASE j < max /\ ~(k < max)
      <4>1. j % max = j /\ k % max = k - max
        BY <2>3, <2>4, <3>2
      <4>2. k - max # j
        BY <1>1, <2>2
      <4> QED BY <4>1, <4>2
    <3>3. CASE ~(j < max)
      <4>1. ~(k < max)
        BY <1>1, <2>2, <3>3
      <4>2. j % max = j - max /\ k % max = k - max
        BY <2>3, <2>4, <3>3, <4>1
      <4>3. j - max # k - max
        BY <1>1, <2>2
      <4> QED BY <4>2, <4>3
    <3> QED BY <3>1, <3>2, <3>3
  <2> QED BY <2>1, <2>3, <2>5
<1>7. \A i \in 1..n : t[i] = s[i]
  <2> SUFFICES ASSUME NEW i \in 1..n PROVE t[i] = s[i]
    OBVIOUS
  <2>1. i \in 1..(n + 1)
    BY <1>1
  <2>2. C[(q + i) % max] = B[(q + i) % max]
    BY <1>0, <1>2, <1>6 DEF IsPutAt
  <2> HIDE DEF s, t
  <2> QED BY <1>4, <1>5, <2>1, <2>2
<1>8. t[n + 1] = x
  <2>1. n + 1 \in 1..(n + 1)
    BY <1>1
  <2>2. t[n + 1] = C[k % max]
    <3> HIDE DEF t
    <3> QED BY <1>2, <1>5, <2>1
  <2> QED BY <1>0, <1>2, <1>3, <2>2 DEF IsPutAt
<1> HIDE DEF s, t
<1>9. /\ Append(s, x) \in Seq(Data) /\ Len(Append(s, x)) = n + 1
      /\ \A i \in 1..(n + 1) : Append(s, x)[i] = IF i = n + 1 THEN x ELSE s[i]
  BY <1>1, <1>4
<1>10. \A i \in 1..(n + 1) : t[i] = Append(s, x)[i]
  BY <1>1, <1>7, <1>8, <1>9
<1>11. t = Append(s, x)
  BY <1>5, <1>9, <1>10, SeqEqual
<1> QED BY <1>11 DEF s, t

\* The number in the place after q is the oldest, and the rest begins there.
LEMMA RingGet ==
  ASSUME ProdConsAssumption, NEW S, NEW B \in [Slots -> S], NEW q \in Slots, NEW n \in 0..max,
         n # 0
  PROVE  /\ Ring(B, q, n) # <<>>
         /\ Head(Ring(B, q, n)) = B[Inc(q)]
         /\ Ring(B, Inc(q), n - 1) = Tail(Ring(B, q, n))
<1> DEFINE s == Ring(B, q, n)
           t == Ring(B, Inc(q), n - 1)
<1>1. max \in Nat \ {0} /\ n \in Nat /\ n - 1 \in 0..max /\ q \in Nat /\ q < max
  <2>1. max \in Nat \ {0}
    BY DEF ProdConsAssumption, BufferAssumption
  <2> QED BY <2>1 DEF Slots
<1>2. Inc(q) \in Slots
  <2>1. q + 1 \in Nat /\ q + 1 < 2 * max
    BY <1>1
  <2> QED BY <2>1, Wrap DEF Inc
<1>3. s \in Seq(S) /\ Len(s) = n /\ \A i \in 1..n : s[i] = B[(q + i) % max]
  BY RingIsSeq
<1>4. t \in Seq(S) /\ Len(t) = n - 1 /\ \A i \in 1..(n - 1) : t[i] = B[(Inc(q) + i) % max]
  <2>1. PICK m \in 0..max : m = n - 1
    BY <1>1
  <2>2. PICK r \in Slots : r = Inc(q)
    BY <1>2
  <2>3. /\ Ring(B, r, m) \in Seq(S) /\ Len(Ring(B, r, m)) = m
        /\ \A i \in 1..m : Ring(B, r, m)[i] = B[(r + i) % max]
    BY RingIsSeq
  <2> QED BY <2>1, <2>2, <2>3
<1>5. \A i \in 1..(n - 1) : (Inc(q) + i) % max = (q + (i + 1)) % max
  <2> SUFFICES ASSUME NEW i \in 1..(n - 1) PROVE (Inc(q) + i) % max = (q + (i + 1)) % max
    OBVIOUS
  <2>1. i \in Nat /\ i < max /\ q + 1 + i = q + (i + 1)
    BY <1>1
  <2> QED BY <2>1, WrapShift
<1> HIDE DEF s, t
<1>6. s # <<>>
  BY <1>1, <1>3, EmptySeq
<1>7. Head(s) = B[Inc(q)]
  <2>1. 1 \in 1..n
    BY <1>1
  <2>2. s[1] = B[Inc(q)]
    BY <1>3, <2>1 DEF Inc
  <2> QED BY <1>3, <1>6, <2>2
<1>8. /\ Tail(s) \in Seq(S) /\ Len(Tail(s)) = n - 1
      /\ \A i \in 1..(n - 1) : Tail(s)[i] = s[i + 1]
  BY <1>3, <1>6, HeadTailProperties
<1>9. \A i \in 1..(n - 1) : t[i] = Tail(s)[i]
  <2> SUFFICES ASSUME NEW i \in 1..(n - 1) PROVE t[i] = Tail(s)[i]
    OBVIOUS
  <2>1. i + 1 \in 1..n
    BY <1>1
  <2>2. s[i + 1] = B[(q + (i + 1)) % max]
    BY <1>3, <2>1
  <2> QED BY <1>4, <1>5, <1>8, <2>2
<1>10. t = Tail(s)
  BY <1>4, <1>8, <1>9, SeqEqual
<1> QED BY <1>6, <1>7, <1>10 DEF s, t
------------------------------------------------------------------------------
(* Counting the threads at some places                                     *)

LEMMA AtFinite ==
  ASSUME ProdConsAssumption, NEW T \in SUBSET Threads, NEW P
  PROVE  IsFiniteSet(At(T, P)) /\ Cardinality(At(T, P)) \in Nat
<1>1. IsFiniteSet(Threads)
  BY FS_Union DEF Threads, ProdConsAssumption
<1>2. IsFiniteSet(At(T, P))
  BY <1>1, FS_Subset DEF At
<1> QED BY <1>2, FS_CardinalityType

LEMMA AtSome ==
  ASSUME ProdConsAssumption, NEW T \in SUBSET Threads, NEW P, NEW t \in T, pc[t] \in P
  PROVE  Cardinality(At(T, P)) >= 1
<1>1. t \in At(T, P)
  BY DEF At
<1>2. Cardinality(At(T, P)) # 0
  BY <1>1, AtFinite, FS_EmptySet
<1> QED BY <1>2, AtFinite

\* One thread moves: it comes to the set, leaves it, or does neither.
LEMMA CountMoves ==
  ASSUME NEW A, NEW B, NEW t, IsFiniteSet(A), B = A \cup {t} \/ B = A \ {t}
  PROVE  Cardinality(B) =
           Cardinality(A) + (IF t \in B THEN 1 ELSE 0) - (IF t \in A THEN 1 ELSE 0)
<1>1. Cardinality(A) \in Nat
  BY FS_CardinalityType
<1>2. CASE B = A \cup {t}
  <2>1. Cardinality(B) = IF t \in A THEN Cardinality(A) ELSE Cardinality(A) + 1
    BY <1>2, FS_AddElement
  <2> QED BY <1>1, <1>2, <2>1
<1>3. CASE B = A \ {t}
  <2>1. Cardinality(B) = IF t \in A THEN Cardinality(A) - 1 ELSE Cardinality(A)
    BY <1>3, FS_RemoveElement
  <2> QED BY <1>1, <1>3, <2>1
<1> QED BY <1>2, <1>3

------------------------------------------------------------------------------
(* The invariant begins                                                    *)

LEMMA InitProdConsInv == ASSUME ProdConsAssumption, Init PROVE ProdConsInv
<1>1. max \in Nat \ {0} /\ 0 \in Data /\ Chapters \subseteq {30, 31} /\ Producers # {}
  BY DEF ProdConsAssumption, BufferAssumption
<1>2. \A t \in Threads : pc[t] = Again(t)
  BY DEF Init
<1>3. TypeOK
  BY <1>1 DEF Init, TypeOK, BufferInit, BufferTypeOK, Slots, Threads, Again
<1>4. PlacesInv
  BY <1>2 DEF PlacesInv, Outside, Again
<1>5. MutexInv
  BY <1>2 DEF Init, MutexInv, Again
<1>6. RingInv
  <2>1. 0 % max = 0
    BY <1>1, Wrap
  <2> QED BY <2>1 DEF Init, BufferInit, RingInv
<1>7. NoLostWakeup
  <2>1. Waiting(Producers) = {}
    BY <1>2 DEF Waiting, Again, Threads
  <2> QED BY <1>1, <2>1 DEF NoLostWakeup, Init, BufferInit, empt
<1>8. PermitsMatchBuffer
  <2>1. /\ At(Producers, {"lock", "xfer"}) = {} /\ At(Consumers, {"unlock", "post"}) = {}
        /\ At(Consumers, {"lock", "xfer"}) = {} /\ At(Producers, {"unlock", "post"}) = {}
    BY <1>2 DEF At, Again, Threads
  <2>2. putable = max /\ getable = 0 /\ cnt = 0
    BY DEF Init, BufferInit
  <2> QED BY <1>1, <2>1, <2>2, FS_EmptySet DEF PermitsMatchBuffer
<1> QED BY <1>3, <1>4, <1>5, <1>6, <1>7, <1>8 DEF ProdConsInv

------------------------------------------------------------------------------
(* The transfer                                                            *)

\* A put into a buffer with room.
LEMMA PutStep ==
  ASSUME ProdConsAssumption, TypeOK, RingInv, NEW d \in Data, put(d), cnt < max
  PROVE  /\ BufferTypeOK' /\ RingInv'
         /\ cnt' = cnt + 1 /\ end' = end
         /\ buf' = [buf EXCEPT ![(end + (cnt + 1)) % max] = d]
<1>1. max \in Nat \ {0} /\ cnt \in Nat /\ end \in Nat /\ end < max
      /\ buf \in [Slots -> Data]
  BY DEF ProdConsAssumption, BufferAssumption, TypeOK, BufferTypeOK, Slots
<1>2. PICK k \in Nat : k = end + cnt
  BY <1>1
<1>3. k + 1 < 2 * max /\ k + 1 \in Nat /\ end + (cnt + 1) = k + 1
  BY <1>1, <1>2
<1>4. Inc(beg) = (k + 1) % max
  BY <1>2, <1>3, WrapNext DEF RingInv
<1>5. (k + 1) % max \in Slots
  BY <1>3, Wrap
<1>6. /\ cnt' = cnt + 1 /\ end' = end
      /\ beg' = (end + (cnt + 1)) % max
      /\ buf' = [buf EXCEPT ![(end + (cnt + 1)) % max] = d]
  BY <1>3, <1>4 DEF put
<1>7. RingInv'
  BY <1>6 DEF RingInv
<1>8. BufferTypeOK'
  BY <1>1, <1>3, <1>5, <1>6 DEF BufferTypeOK, TypeOK
<1> QED BY <1>6, <1>7, <1>8

\* A get from a buffer that is not empty.
LEMMA GetStep ==
  ASSUME ProdConsAssumption, TypeOK, RingInv, get, cnt > 0
  PROVE  /\ BufferTypeOK' /\ RingInv' /\ GotData \in Data
         /\ cnt' = cnt - 1 /\ end' = Inc(end) /\ buf' = buf
<1>1. max \in Nat \ {0} /\ cnt \in Nat /\ cnt <= max /\ end \in Nat /\ end < max
      /\ end \in Slots
  BY DEF ProdConsAssumption, BufferAssumption, TypeOK, BufferTypeOK, Slots
<1>2. Inc(end) \in Slots
  <2>1. end + 1 \in Nat /\ end + 1 < 2 * max
    BY <1>1
  <2> QED BY <2>1, Wrap DEF Inc
<1>3. cnt' = cnt - 1 /\ end' = Inc(end) /\ buf' = buf /\ beg' = beg
  BY DEF get
<1>4. RingInv'
  <2>1. PICK j \in Nat : j = cnt - 1
    BY <1>1
  <2>2. j < max /\ end + 1 + j = end + cnt
    BY <1>1, <2>1
  <2>3. (Inc(end) + j) % max = (end + 1 + j) % max
    BY <1>1, <2>2, WrapShift
  <2> QED BY <1>3, <2>1, <2>2, <2>3 DEF RingInv
<1>5. BufferTypeOK'
  BY <1>1, <1>2, <1>3 DEF BufferTypeOK, TypeOK
<1>6. GotData \in Data
  BY <1>2 DEF GotData, TypeOK, BufferTypeOK
<1> QED BY <1>3, <1>4, <1>5, <1>6

\* A transfer by a thread that has room for it, or something to get.
LEMMA XferStep ==
  ASSUME ProdConsAssumption, TypeOK, RingInv, NEW t \in Threads, xfer(t),
         IF t \in Producers THEN cnt < max ELSE cnt > 0
  PROVE  /\ BufferTypeOK' /\ RingInv' /\ data' \in [Threads -> Data]
         /\ cnt' = IF t \in Producers THEN cnt + 1 ELSE cnt - 1
<1>1. data \in [Threads -> Data] /\ (t \in Producers <=> t \notin Consumers)
  BY DEF TypeOK, Threads, ProdConsAssumption
<1>2. CASE t \in Producers
  <2>1. data[t] \in Data /\ put(data[t]) /\ data' = data /\ cnt < max
    BY <1>1, <1>2 DEF xfer, xput
  <2> QED BY <1>1, <1>2, <2>1, PutStep
<1>3. CASE t \notin Producers
  <2>1. get /\ data' = [data EXCEPT ![t] = GotData] /\ cnt > 0
    BY <1>1, <1>3 DEF xfer, xget
  <2> QED BY <1>1, <1>3, <2>1, GetStep
<1> QED BY <1>2, <1>3

------------------------------------------------------------------------------
(* The steps that both programs have, and those of chapter 30              *)

LEMMA Programs ==
  ASSUME ProdConsAssumption, ProdConsInv
  PROVE  /\ chapter \in {30, 31} /\ chapter \in Chapters
         /\ pc \in [Threads -> Places]
         /\ Producers \subseteq Threads /\ Consumers \subseteq Threads
         /\ Producers # {} /\ Consumers # {}
         /\ \A t \in Threads :
              /\ t \in Producers <=> t \notin Consumers
              /\ pc[t] \in {"waiting", "woken", "signal"} => chapter = 30
              /\ pc[t] \in {"lock", "xfer", "unlock", "post"} => chapter = 31
<1>1. pc \in [Threads -> Places]
  BY DEF ProdConsInv, TypeOK, Places
<1>2. /\ chapter \in {30, 31} /\ chapter \in Chapters /\ 30 # 31
  BY DEF ProdConsAssumption, ProdConsInv, TypeOK
<1> QED BY <1>1, <1>2 DEF ProdConsAssumption, ProdConsInv, PlacesInv, Outside, Threads

\* In chapter 30 the rest of the invariant is about places and wakeups.
LEMMA Chapter30 ==
  ASSUME ProdConsAssumption, ProdConsInv, chapter = 30, UNCHANGED <<chapter, semaphores>>,
         BufferTypeOK', RingInv', data' \in [Threads -> Data],
         pc' \in [Threads -> {"produce", "begin", "waiting", "woken", "signal"}],
         \A c \in Consumers : pc'[c] # "produce",
         NoLostWakeup'
  PROVE  ProdConsInv'
<1>1. TypeOK'
  <2>1. pc' \in [Threads -> {"produce", "begin", "waiting", "woken", "signal",
                             "lock", "xfer", "unlock", "post"}]
    BY Zenon
  <2> QED BY <2>1 DEF ProdConsInv, TypeOK, semaphores
<1>2. PlacesInv'
  BY Programs DEF PlacesInv, Outside
<1>3. MutexInv' /\ PermitsMatchBuffer'
  BY DEF MutexInv, PermitsMatchBuffer
<1> QED BY <1>1, <1>2, <1>3 DEF ProdConsInv

LEMMA Places30 ==
  ASSUME ProdConsAssumption, ProdConsInv, chapter = 30
  PROVE  /\ pc \in [Threads -> {"produce", "begin", "waiting", "woken", "signal"}]
         /\ \A c \in Consumers : pc[c] # "produce"
<1>1. \A t \in Threads : pc[t] \in {"produce", "begin", "waiting", "woken", "signal"}
  BY DEF ProdConsInv, PlacesInv, Outside
<1>2. \A c \in Consumers : pc[c] # "produce"
  BY Programs DEF ProdConsInv, PlacesInv, Outside
<1>3. pc \in [Threads -> Places]
  BY Programs
<1> QED BY <1>1, <1>2, <1>3

LEMMA WaitBusyStep ==
  ASSUME ProdConsAssumption, ProdConsInv, NEW t \in Threads, WaitBusy(t)
  PROVE  ProdConsInv'
<1>1. /\ chapter = 30 /\ UNCHANGED <<chapter, bufferVars, semaphores, data>> /\ busy(t)
      /\ pc[t] \in {"begin", "woken"} /\ pc' = [pc EXCEPT ![t] = "waiting"]
  BY DEF WaitBusy
<1>2. /\ pc' \in [Threads -> {"produce", "begin", "waiting", "woken", "signal"}]
      /\ \A c \in Consumers : pc'[c] # "produce"
  BY <1>1, Places30, Programs
<1>3. BufferTypeOK' /\ RingInv' /\ data' \in [Threads -> Data]
  BY <1>1 DEF ProdConsInv, TypeOK, BufferTypeOK, RingInv, bufferVars
<1>4. NoLostWakeup'
  <2>1. \A u \in Threads : (pc'[u] = "signal" <=> pc[u] = "signal")
                           /\ (u # t => pc'[u] = pc[u])
    BY <1>1, Programs
  <2>2. full' = full /\ empt' = empt /\ ~(full /\ empt)
    BY <1>1 DEF full, empt, bufferVars, ProdConsAssumption, BufferAssumption
  <2>3. CASE t \in Producers
    <3>1. full
      BY <1>1, <2>3 DEF busy
    <3>2. \A c \in Consumers : pc'[c] = pc[c]
      BY <2>1, <2>3, Programs
    <3>3. Waiting(Consumers)' = Waiting(Consumers)
      BY <3>2 DEF Waiting
    <3>4. At(Producers, {"signal"})' = At(Producers, {"signal"})
      BY <2>1, Programs DEF At
    <3> QED BY <1>1, <2>2, <3>1, <3>3, <3>4 DEF NoLostWakeup, ProdConsInv
  <2>4. CASE t \notin Producers
    <3>1. empt
      BY <1>1, <2>4 DEF busy
    <3>2. \A p \in Producers : pc'[p] = pc[p]
      BY <2>1, <2>4, Programs
    <3>3. Waiting(Producers)' = Waiting(Producers)
      BY <3>2 DEF Waiting
    <3>4. At(Consumers, {"signal"})' = At(Consumers, {"signal"})
      BY <2>1, Programs DEF At
    <3> QED BY <1>1, <2>2, <3>1, <3>3, <3>4 DEF NoLostWakeup, ProdConsInv
  <2> QED BY <2>3, <2>4
<1> QED BY <1>1, <1>2, <1>3, <1>4, Chapter30

\* The thread that transfers is about to signal the other side, and its own
\* side does not wait as a whole.
LEMMA TransferStep ==
  ASSUME ProdConsAssumption, ProdConsInv, NEW t \in Threads, Transfer(t)
  PROVE  ProdConsInv'
<1>1. /\ chapter = 30 /\ UNCHANGED <<chapter, semaphores>> /\ ~busy(t) /\ xfer(t)
      /\ pc' = [pc EXCEPT ![t] = "signal"]
  BY DEF Transfer
<1>2. /\ pc' \in [Threads -> {"produce", "begin", "waiting", "woken", "signal"}]
      /\ \A c \in Consumers : pc'[c] # "produce"
  BY <1>1, Places30, Programs
<1>3. IF t \in Producers THEN cnt < max ELSE cnt > 0
  BY <1>1 DEF busy, full, empt, ProdConsInv, TypeOK, BufferTypeOK, ProdConsAssumption,
              BufferAssumption
<1>4. BufferTypeOK' /\ RingInv' /\ data' \in [Threads -> Data]
  BY <1>1, <1>3, XferStep DEF ProdConsInv
<1>5. NoLostWakeup'
  <2>1. pc'[t] = "signal"
    BY <1>1, Programs
  <2>2. CASE t \in Producers
    <3>1. t \in At(Producers, {"signal"})' /\ t \notin Waiting(Producers)'
      BY <2>1, <2>2 DEF At, Waiting
    <3> QED BY <2>2, <3>1 DEF NoLostWakeup
  <2>3. CASE t \in Consumers
    <3>1. t \in At(Consumers, {"signal"})' /\ t \notin Waiting(Consumers)'
      BY <2>1, <2>3 DEF At, Waiting
    <3> QED BY <2>3, <3>1 DEF NoLostWakeup
  <2> QED BY <2>2, <2>3 DEF Threads
<1> QED BY <1>1, <1>2, <1>4, <1>5, Chapter30

\* After a signal somebody of the other side is awake, and the signaller too.
LEMMA SignalStep ==
  ASSUME ProdConsAssumption, ProdConsInv, NEW t \in Threads, Signal(t)
  PROVE  ProdConsInv'
<1> DEFINE Other == IF t \in Producers THEN Consumers ELSE Producers
<1>1. /\ chapter = 30 /\ UNCHANGED <<chapter, bufferVars, semaphores, data>>
      /\ pc[t] = "signal" /\ SignalOne(t, Other, Again(t))
  BY Programs DEF Signal
<1>2. /\ Again(t) \in {"produce", "begin"} /\ (t \in Consumers => Again(t) = "begin")
      /\ Other \subseteq Threads /\ Other # {} /\ t \notin Other
  BY Programs DEF Again
<1>3. /\ pc' \in [Threads -> {"produce", "begin", "waiting", "woken", "signal"}]
      /\ \A c \in Consumers : pc'[c] # "produce"
      /\ pc'[t] = Again(t)
      /\ \E w \in Other : pc'[w] # "waiting"
  <2>1. CASE Waiting(Other) = {} /\ pc' = [pc EXCEPT ![t] = Again(t)]
    BY <1>2, <2>1, Places30, <1>1, Programs DEF Waiting
  <2>2. CASE \E w \in Waiting(Other) : pc' = [pc EXCEPT ![t] = Again(t), ![w] = "woken"]
    <3>1. PICK w \in Waiting(Other) : pc' = [pc EXCEPT ![t] = Again(t), ![w] = "woken"]
      BY <2>2
    <3>2. w \in Other /\ w \in Threads /\ w # t
      BY <1>2, <3>1 DEF Waiting
    <3>3. pc'[w] = "woken" /\ pc'[t] = Again(t)
      BY <3>1, <3>2, Programs
    <3> QED BY <1>1, <1>2, <3>1, <3>2, <3>3, Places30, Programs
  <2> QED BY <1>1, <2>1, <2>2 DEF SignalOne
<1>4. BufferTypeOK' /\ RingInv' /\ data' \in [Threads -> Data]
  BY <1>1 DEF ProdConsInv, TypeOK, BufferTypeOK, RingInv, bufferVars
<1>5. NoLostWakeup'
  <2>1. PICK w \in Other : pc'[w] # "waiting"
    BY <1>3
  <2>2. pc'[t] # "waiting"
    BY <1>2, <1>3
  <2>3. w \notin Waiting(Other)' /\ t \notin Waiting(Threads)'
    BY <2>1, <2>2 DEF Waiting
  <2>4. Waiting(Producers)' # Producers /\ Waiting(Consumers)' # Consumers
    BY <2>1, <2>2, Programs DEF Waiting
  <2> QED BY <2>4 DEF NoLostWakeup
<1> QED BY <1>1, <1>3, <1>4, <1>5, Chapter30

LEMMA SpuriousStep ==
  ASSUME ProdConsAssumption, ProdConsInv, NEW t \in Threads, SpuriousWakeup(t)
  PROVE  ProdConsInv'
<1>1. /\ chapter = 30 /\ UNCHANGED <<chapter, bufferVars, semaphores, data>>
      /\ pc[t] = "waiting" /\ pc' = [pc EXCEPT ![t] = "woken"]
  BY Programs DEF SpuriousWakeup, WakeSpuriously
<1>2. /\ pc' \in [Threads -> {"produce", "begin", "waiting", "woken", "signal"}]
      /\ \A c \in Consumers : pc'[c] # "produce"
  BY <1>1, Places30, Programs
<1>3. BufferTypeOK' /\ RingInv' /\ data' \in [Threads -> Data]
  BY <1>1 DEF ProdConsInv, TypeOK, BufferTypeOK, RingInv, bufferVars
<1>4. NoLostWakeup'
  <2>1. \A T \in {Producers, Consumers} :
          Waiting(T)' = T => Waiting(T) = T
    BY <1>1, Programs DEF Waiting
  <2>2. \A T \in {Producers, Consumers} : At(T, {"signal"})' = At(T, {"signal"})
    BY <1>1, Programs DEF At
  <2>3. full' = full /\ empt' = empt
    BY <1>1 DEF full, empt, bufferVars
  <2> QED BY <1>1, <2>1, <2>2, <2>3 DEF NoLostWakeup, ProdConsInv
<1> QED BY <1>1, <1>2, <1>3, <1>4, Chapter30

------------------------------------------------------------------------------
(* The steps of chapter 31                                                 *)

\* Where a thread of chapter 31 may come.
Places31 == {"produce", "begin", "lock", "xfer", "unlock", "post"}

\* In chapter 31 the rest of the invariant is about mutex and the permits,
\* and one thread moves.
LEMMA Chapter31 ==
  ASSUME ProdConsAssumption, ProdConsInv, chapter = 31, UNCHANGED chapter,
         NEW t \in Threads, NEW p \in Places31, pc' = [pc EXCEPT ![t] = p],
         t \in Consumers => p # "produce",
         BufferTypeOK', RingInv', data' \in [Threads -> Data],
         mutex' \in {0, 1}, putable' \in 0..max, getable' \in 0..max,
         MutexInv', PermitsMatchBuffer'
  PROVE  ProdConsInv'
<1>1. pc \in [Threads -> Places] /\ chapter' \in Chapters
  BY Programs
<1>2. TypeOK'
  <2>1. pc' \in [Threads -> {"produce", "begin", "waiting", "woken", "signal",
                             "lock", "xfer", "unlock", "post"}]
    BY DEF ProdConsInv, TypeOK, Places31
  <2> QED BY <1>1, <2>1 DEF TypeOK
<1>3. PlacesInv'
  <2>1. \A u \in Threads : pc'[u] = IF u = t THEN p ELSE pc[u]
    BY <1>1
  <2> QED BY <2>1, Programs DEF ProdConsInv, PlacesInv, Outside, Places31
<1>4. NoLostWakeup'
  BY DEF NoLostWakeup
<1> QED BY <1>2, <1>3, <1>4 DEF ProdConsInv

\* The threads on their way to use a permit, and to give one.
PutsComing == Cardinality(At(Producers, {"lock", "xfer"}))
PutsGoing == Cardinality(At(Producers, {"unlock", "post"}))
GetsComing == Cardinality(At(Consumers, {"lock", "xfer"}))
GetsGoing == Cardinality(At(Consumers, {"unlock", "post"}))

Permits ==
  /\ putable + cnt + PutsComing + GetsGoing = max
  /\ getable + GetsComing + PutsGoing = cnt

LEMMA PermitsNow ==
  ASSUME ProdConsAssumption, ProdConsInv, chapter = 31
  PROVE  /\ Permits
         /\ PutsComing \in Nat /\ PutsGoing \in Nat /\ GetsComing \in Nat /\ GetsGoing \in Nat
         /\ \A t \in Producers : /\ pc[t] \in {"lock", "xfer"} => PutsComing >= 1
                                 /\ pc[t] \in {"unlock", "post"} => PutsGoing >= 1
         /\ \A t \in Consumers : /\ pc[t] \in {"lock", "xfer"} => GetsComing >= 1
                                 /\ pc[t] \in {"unlock", "post"} => GetsGoing >= 1
<1>1. Producers \in SUBSET Threads /\ Consumers \in SUBSET Threads
  BY Programs
<1>2. Permits
  BY DEF ProdConsInv, PermitsMatchBuffer, Permits, PutsComing, PutsGoing, GetsComing, GetsGoing
<1>3. PutsComing \in Nat /\ PutsGoing \in Nat /\ GetsComing \in Nat /\ GetsGoing \in Nat
  BY <1>1, AtFinite DEF PutsComing, PutsGoing, GetsComing, GetsGoing
<1>4. \A t \in Producers : /\ pc[t] \in {"lock", "xfer"} => PutsComing >= 1
                           /\ pc[t] \in {"unlock", "post"} => PutsGoing >= 1
  BY <1>1, AtSome DEF PutsComing, PutsGoing
<1>5. \A t \in Consumers : /\ pc[t] \in {"lock", "xfer"} => GetsComing >= 1
                           /\ pc[t] \in {"unlock", "post"} => GetsGoing >= 1
  BY <1>1, AtSome DEF GetsComing, GetsGoing
<1> QED BY <1>2, <1>3, <1>4, <1>5

LEMMA PermitsNext == ASSUME Permits' PROVE PermitsMatchBuffer'
BY DEF PermitsMatchBuffer, Permits, PutsComing, PutsGoing, GetsComing, GetsGoing

\* How the numbers change when a producer moves, and when a consumer does.
LEMMA ProducerMoves ==
  ASSUME ProdConsAssumption, ProdConsInv, NEW t \in Producers,
         \A u \in Threads \ {t} : pc'[u] = pc[u]
  PROVE  /\ PutsComing' = PutsComing + (IF pc'[t] \in {"lock", "xfer"} THEN 1 ELSE 0)
                                     - (IF pc[t] \in {"lock", "xfer"} THEN 1 ELSE 0)
         /\ PutsGoing' = PutsGoing + (IF pc'[t] \in {"unlock", "post"} THEN 1 ELSE 0)
                                   - (IF pc[t] \in {"unlock", "post"} THEN 1 ELSE 0)
         /\ GetsComing' = GetsComing /\ GetsGoing' = GetsGoing
<1>1. /\ pc \in [Threads -> Places] /\ t \in Threads /\ t \notin Consumers
      /\ Producers \in SUBSET Threads /\ Consumers \in SUBSET Threads
  BY Programs
<1>2. PutsComing' = PutsComing + (IF pc'[t] \in {"lock", "xfer"} THEN 1 ELSE 0)
                               - (IF pc[t] \in {"lock", "xfer"} THEN 1 ELSE 0)
  <2>1. IsFiniteSet(At(Producers, {"lock", "xfer"}))
    BY <1>1, AtFinite
  <2>2. /\ IF pc'[t] \in {"lock", "xfer"}
           THEN At(Producers, {"lock", "xfer"})' = At(Producers, {"lock", "xfer"}) \cup {t}
           ELSE At(Producers, {"lock", "xfer"})' = At(Producers, {"lock", "xfer"}) \ {t}
        /\ t \in At(Producers, {"lock", "xfer"})' <=> pc'[t] \in {"lock", "xfer"}
        /\ t \in At(Producers, {"lock", "xfer"}) <=> pc[t] \in {"lock", "xfer"}
    BY <1>1 DEF At
  <2> QED BY <2>1, <2>2, CountMoves DEF PutsComing
<1>3. PutsGoing' = PutsGoing + (IF pc'[t] \in {"unlock", "post"} THEN 1 ELSE 0)
                             - (IF pc[t] \in {"unlock", "post"} THEN 1 ELSE 0)
  <2>1. IsFiniteSet(At(Producers, {"unlock", "post"}))
    BY <1>1, AtFinite
  <2>2. /\ IF pc'[t] \in {"unlock", "post"}
           THEN At(Producers, {"unlock", "post"})' = At(Producers, {"unlock", "post"}) \cup {t}
           ELSE At(Producers, {"unlock", "post"})' = At(Producers, {"unlock", "post"}) \ {t}
        /\ t \in At(Producers, {"unlock", "post"})' <=> pc'[t] \in {"unlock", "post"}
        /\ t \in At(Producers, {"unlock", "post"}) <=> pc[t] \in {"unlock", "post"}
    BY <1>1 DEF At
  <2> QED BY <2>1, <2>2, CountMoves DEF PutsGoing
<1>4. At(Consumers, {"lock", "xfer"})' = At(Consumers, {"lock", "xfer"})
  BY <1>1 DEF At
<1>5. At(Consumers, {"unlock", "post"})' = At(Consumers, {"unlock", "post"})
  BY <1>1 DEF At
<1> QED BY <1>2, <1>3, <1>4, <1>5 DEF GetsComing, GetsGoing

LEMMA ConsumerMoves ==
  ASSUME ProdConsAssumption, ProdConsInv, NEW t \in Consumers,
         \A u \in Threads \ {t} : pc'[u] = pc[u]
  PROVE  /\ GetsComing' = GetsComing + (IF pc'[t] \in {"lock", "xfer"} THEN 1 ELSE 0)
                                     - (IF pc[t] \in {"lock", "xfer"} THEN 1 ELSE 0)
         /\ GetsGoing' = GetsGoing + (IF pc'[t] \in {"unlock", "post"} THEN 1 ELSE 0)
                                   - (IF pc[t] \in {"unlock", "post"} THEN 1 ELSE 0)
         /\ PutsComing' = PutsComing /\ PutsGoing' = PutsGoing
<1>1. /\ pc \in [Threads -> Places] /\ t \in Threads /\ t \notin Producers
      /\ Producers \in SUBSET Threads /\ Consumers \in SUBSET Threads
  BY Programs
<1>2. GetsComing' = GetsComing + (IF pc'[t] \in {"lock", "xfer"} THEN 1 ELSE 0)
                               - (IF pc[t] \in {"lock", "xfer"} THEN 1 ELSE 0)
  <2>1. IsFiniteSet(At(Consumers, {"lock", "xfer"}))
    BY <1>1, AtFinite
  <2>2. /\ IF pc'[t] \in {"lock", "xfer"}
           THEN At(Consumers, {"lock", "xfer"})' = At(Consumers, {"lock", "xfer"}) \cup {t}
           ELSE At(Consumers, {"lock", "xfer"})' = At(Consumers, {"lock", "xfer"}) \ {t}
        /\ t \in At(Consumers, {"lock", "xfer"})' <=> pc'[t] \in {"lock", "xfer"}
        /\ t \in At(Consumers, {"lock", "xfer"}) <=> pc[t] \in {"lock", "xfer"}
    BY <1>1 DEF At
  <2> QED BY <2>1, <2>2, CountMoves DEF GetsComing
<1>3. GetsGoing' = GetsGoing + (IF pc'[t] \in {"unlock", "post"} THEN 1 ELSE 0)
                             - (IF pc[t] \in {"unlock", "post"} THEN 1 ELSE 0)
  <2>1. IsFiniteSet(At(Consumers, {"unlock", "post"}))
    BY <1>1, AtFinite
  <2>2. /\ IF pc'[t] \in {"unlock", "post"}
           THEN At(Consumers, {"unlock", "post"})' = At(Consumers, {"unlock", "post"}) \cup {t}
           ELSE At(Consumers, {"unlock", "post"})' = At(Consumers, {"unlock", "post"}) \ {t}
        /\ t \in At(Consumers, {"unlock", "post"})' <=> pc'[t] \in {"unlock", "post"}
        /\ t \in At(Consumers, {"unlock", "post"}) <=> pc[t] \in {"unlock", "post"}
    BY <1>1 DEF At
  <2> QED BY <2>1, <2>2, CountMoves DEF GetsGoing
<1>4. At(Producers, {"lock", "xfer"})' = At(Producers, {"lock", "xfer"})
  BY <1>1 DEF At
<1>5. At(Producers, {"unlock", "post"})' = At(Producers, {"unlock", "post"})
  BY <1>1 DEF At
<1> QED BY <1>2, <1>3, <1>4, <1>5 DEF PutsComing, PutsGoing

LEMMA Numbers ==
  ASSUME ProdConsAssumption, ProdConsInv
  PROVE  /\ max \in Nat /\ putable \in 0..max /\ getable \in 0..max /\ cnt \in 0..max
         /\ \A t \in Threads : t \in Producers <=> t \notin Consumers
BY Programs DEF ProdConsInv, TypeOK, BufferTypeOK, ProdConsAssumption, BufferAssumption

\* A thread on its way from its permit to the transfer finds what it needs.
LEMMA PermitIsGood ==
  ASSUME ProdConsAssumption, ProdConsInv, NEW t \in Threads, pc[t] \in {"lock", "xfer"}
  PROVE  IF t \in Producers THEN cnt < max ELSE cnt > 0
<1>1. /\ chapter = 31 /\ cnt \in 0..max /\ putable \in 0..max /\ getable \in 0..max
      /\ max \in Nat
  BY Programs DEF ProdConsInv, TypeOK, BufferTypeOK, ProdConsAssumption, BufferAssumption
<1>2. CASE t \in Producers
  BY <1>1, <1>2, PermitsNow DEF Permits
<1>3. CASE t \notin Producers
  <2>1. t \in Consumers
    BY <1>3 DEF Threads
  <2>2. GetsComing >= 1 /\ GetsComing \in Nat /\ PutsGoing \in Nat /\ Permits
    BY <1>1, <2>1, PermitsNow
  <2> QED BY <1>1, <1>3, <2>2 DEF Permits
<1> QED BY <1>2, <1>3

LEMMA WaitOwnStep ==
  ASSUME ProdConsAssumption, ProdConsInv, NEW t \in Threads, WaitOwn(t)
  PROVE  ProdConsInv'
<1>1. /\ chapter = 31 /\ UNCHANGED <<chapter, bufferVars, mutex, data>>
      /\ pc[t] = "begin" /\ pc' = [pc EXCEPT ![t] = "lock"]
  BY DEF WaitOwn, Goto
<1>2. /\ t \in Producers <=> t \notin Consumers
      /\ max \in Nat /\ putable \in 0..max /\ getable \in 0..max /\ cnt \in 0..max
  BY Programs DEF ProdConsInv, TypeOK, BufferTypeOK, ProdConsAssumption, BufferAssumption
<1>3. /\ putable' = IF t \in Producers THEN putable - 1 ELSE putable
      /\ getable' = IF t \in Consumers THEN getable - 1 ELSE getable
      /\ putable' \in 0..max /\ getable' \in 0..max
  BY <1>2 DEF WaitOwn
<1>4. BufferTypeOK' /\ RingInv' /\ data' \in [Threads -> Data] /\ mutex' \in {0, 1}
  BY <1>1 DEF ProdConsInv, TypeOK, BufferTypeOK, RingInv, bufferVars
<1>5. MutexInv'
  BY <1>1, Programs DEF ProdConsInv, MutexInv
<1>6. PermitsMatchBuffer'
  <2>1. CASE t \in Producers
    <3>1. /\ PutsComing' = PutsComing + 1 /\ PutsGoing' = PutsGoing
          /\ GetsComing' = GetsComing /\ GetsGoing' = GetsGoing
      <4>1. pc'[t] = "lock" /\ \A u \in Threads \ {t} : pc'[u] = pc[u]
        BY <1>1, Programs
      <4> QED BY <1>1, <2>1, <4>1, ProducerMoves, PermitsNow
    <3>2. Permits'
      BY <1>1, <1>2, <1>3, <2>1, <3>1, PermitsNow DEF Permits, bufferVars
    <3> QED BY <3>2, PermitsNext
  <2>2. CASE t \in Consumers
    <3>1. /\ PutsComing' = PutsComing /\ PutsGoing' = PutsGoing
          /\ GetsComing' = GetsComing + 1 /\ GetsGoing' = GetsGoing
      <4>1. pc'[t] = "lock" /\ \A u \in Threads \ {t} : pc'[u] = pc[u]
        BY <1>1, Programs
      <4> QED BY <1>1, <2>2, <4>1, ConsumerMoves, PermitsNow
    <3>2. Permits'
      BY <1>1, <1>2, <1>3, <2>2, <3>1, PermitsNow DEF Permits, bufferVars
    <3> QED BY <3>2, PermitsNext
  <2> QED BY <2>1, <2>2 DEF Threads
<1> QED BY <1>1, <1>3, <1>4, <1>5, <1>6, Chapter31 DEF Places31

LEMMA LockStep ==
  ASSUME ProdConsAssumption, ProdConsInv, NEW t \in Threads, Lock(t)
  PROVE  ProdConsInv'
<1>1. /\ chapter = 31 /\ UNCHANGED <<chapter, bufferVars, putable, getable, data>>
      /\ pc[t] = "lock" /\ pc' = [pc EXCEPT ![t] = "xfer"]
      /\ mutex = 1 /\ mutex' = 0
  BY Programs DEF Lock, Goto, ProdConsInv, TypeOK
<1>2. BufferTypeOK' /\ RingInv' /\ data' \in [Threads -> Data]
      /\ putable' \in 0..max /\ getable' \in 0..max
  BY <1>1 DEF ProdConsInv, TypeOK, BufferTypeOK, RingInv, bufferVars
<1>3. MutexInv'
  <2>1. \A u \in Threads : pc[u] \notin {"xfer", "unlock"}
    BY <1>1 DEF ProdConsInv, MutexInv
  <2> QED BY <1>1, <2>1, Programs DEF MutexInv
<1>4. PermitsMatchBuffer'
  <2> USE Numbers
  <2>1. CASE t \in Producers
    <3>1. /\ PutsComing' = PutsComing /\ PutsGoing' = PutsGoing
          /\ GetsComing' = GetsComing /\ GetsGoing' = GetsGoing
      <4>1. pc'[t] = "xfer" /\ \A u \in Threads \ {t} : pc'[u] = pc[u]
        BY <1>1, Programs
      <4> QED BY <1>1, <2>1, <4>1, ProducerMoves, PermitsNow
    <3>2. Permits'
      BY <1>1, <2>1, <3>1, PermitsNow DEF Permits, bufferVars
    <3> QED BY <3>2, PermitsNext
  <2>2. CASE t \in Consumers
    <3>1. /\ PutsComing' = PutsComing /\ PutsGoing' = PutsGoing
          /\ GetsComing' = GetsComing /\ GetsGoing' = GetsGoing
      <4>1. pc'[t] = "xfer" /\ \A u \in Threads \ {t} : pc'[u] = pc[u]
        BY <1>1, Programs
      <4> QED BY <1>1, <2>2, <4>1, ConsumerMoves, PermitsNow
    <3>2. Permits'
      BY <1>1, <2>2, <3>1, PermitsNow DEF Permits, bufferVars
    <3> QED BY <3>2, PermitsNext
  <2> QED BY <2>1, <2>2 DEF Threads
<1> QED BY <1>1, <1>2, <1>3, <1>4, Chapter31 DEF Places31

LEMMA TransferLockedStep ==
  ASSUME ProdConsAssumption, ProdConsInv, NEW t \in Threads, TransferLocked(t)
  PROVE  ProdConsInv'
<1>1. /\ chapter = 31 /\ UNCHANGED <<chapter, mutex, putable, getable>> /\ xfer(t)
      /\ pc[t] = "xfer" /\ pc' = [pc EXCEPT ![t] = "unlock"]
  BY Programs DEF TransferLocked, Goto, semaphores
<1>2. /\ BufferTypeOK' /\ RingInv' /\ data' \in [Threads -> Data]
      /\ cnt' = IF t \in Producers THEN cnt + 1 ELSE cnt - 1
  BY <1>1, PermitIsGood, XferStep DEF ProdConsInv
<1>3. mutex' \in {0, 1} /\ putable' \in 0..max /\ getable' \in 0..max
  BY <1>1 DEF ProdConsInv, TypeOK
<1>4. MutexInv'
  BY <1>1, Programs DEF ProdConsInv, MutexInv
<1>5. PermitsMatchBuffer'
  <2> USE Numbers
  <2>1. CASE t \in Producers
    <3>1. /\ PutsComing' = PutsComing - 1 /\ PutsGoing' = PutsGoing + 1
          /\ GetsComing' = GetsComing /\ GetsGoing' = GetsGoing
      <4>1. pc'[t] = "unlock" /\ \A u \in Threads \ {t} : pc'[u] = pc[u]
        BY <1>1, Programs
      <4> QED BY <1>1, <2>1, <4>1, ProducerMoves, PermitsNow
    <3>2. Permits'
      BY <1>1, <1>2, <2>1, <3>1, PermitsNow DEF Permits
    <3> QED BY <3>2, PermitsNext
  <2>2. CASE t \in Consumers
    <3>1. /\ PutsComing' = PutsComing /\ PutsGoing' = PutsGoing
          /\ GetsComing' = GetsComing - 1 /\ GetsGoing' = GetsGoing + 1
      <4>1. pc'[t] = "unlock" /\ \A u \in Threads \ {t} : pc'[u] = pc[u]
        BY <1>1, Programs
      <4> QED BY <1>1, <2>2, <4>1, ConsumerMoves, PermitsNow
    <3>2. Permits'
      BY <1>1, <1>2, <2>2, <3>1, PermitsNow DEF Permits
    <3> QED BY <3>2, PermitsNext
  <2> QED BY <2>1, <2>2 DEF Threads
<1> QED BY <1>1, <1>2, <1>3, <1>4, <1>5, Chapter31 DEF Places31

LEMMA UnlockStep ==
  ASSUME ProdConsAssumption, ProdConsInv, NEW t \in Threads, Unlock(t)
  PROVE  ProdConsInv'
<1>1. /\ chapter = 31 /\ UNCHANGED <<chapter, bufferVars, putable, getable, data>>
      /\ pc[t] = "unlock" /\ pc' = [pc EXCEPT ![t] = "post"] /\ mutex' = mutex + 1
  BY Programs DEF Unlock, Goto
<1>2. mutex = 0 /\ \A u \in Threads : pc[u] \in {"xfer", "unlock"} => u = t
  BY <1>1 DEF ProdConsInv, TypeOK, MutexInv
<1>3. mutex' = 1
  BY <1>1, <1>2
<1>4. BufferTypeOK' /\ RingInv' /\ data' \in [Threads -> Data]
      /\ putable' \in 0..max /\ getable' \in 0..max
  BY <1>1 DEF ProdConsInv, TypeOK, BufferTypeOK, RingInv, bufferVars
<1>5. MutexInv'
  BY <1>1, <1>2, <1>3, Programs DEF MutexInv
<1>6. PermitsMatchBuffer'
  <2> USE Numbers
  <2>1. CASE t \in Producers
    <3>1. /\ PutsComing' = PutsComing /\ PutsGoing' = PutsGoing
          /\ GetsComing' = GetsComing /\ GetsGoing' = GetsGoing
      <4>1. pc'[t] = "post" /\ \A u \in Threads \ {t} : pc'[u] = pc[u]
        BY <1>1, Programs
      <4> QED BY <1>1, <2>1, <4>1, ProducerMoves, PermitsNow
    <3>2. Permits'
      BY <1>1, <2>1, <3>1, PermitsNow DEF Permits, bufferVars
    <3> QED BY <3>2, PermitsNext
  <2>2. CASE t \in Consumers
    <3>1. /\ PutsComing' = PutsComing /\ PutsGoing' = PutsGoing
          /\ GetsComing' = GetsComing /\ GetsGoing' = GetsGoing
      <4>1. pc'[t] = "post" /\ \A u \in Threads \ {t} : pc'[u] = pc[u]
        BY <1>1, Programs
      <4> QED BY <1>1, <2>2, <4>1, ConsumerMoves, PermitsNow
    <3>2. Permits'
      BY <1>1, <2>2, <3>1, PermitsNow DEF Permits, bufferVars
    <3> QED BY <3>2, PermitsNext
  <2> QED BY <2>1, <2>2 DEF Threads
<1> QED BY <1>1, <1>3, <1>4, <1>5, <1>6, Chapter31 DEF Places31

LEMMA PostOtherStep ==
  ASSUME ProdConsAssumption, ProdConsInv, NEW t \in Threads, PostOther(t)
  PROVE  ProdConsInv'
<1>1. /\ chapter = 31 /\ UNCHANGED <<chapter, bufferVars, mutex, data>>
      /\ pc[t] = "post" /\ pc' = [pc EXCEPT ![t] = Again(t)]
  BY Programs DEF PostOther, Goto
<1>2. /\ t \in Producers <=> t \notin Consumers
      /\ max \in Nat /\ putable \in 0..max /\ getable \in 0..max /\ cnt \in 0..max
      /\ Again(t) \in {"produce", "begin"} /\ (t \in Consumers => Again(t) = "begin")
  BY Programs DEF ProdConsInv, TypeOK, BufferTypeOK, ProdConsAssumption, BufferAssumption, Again
<1>3. /\ putable' = IF t \in Consumers THEN putable + 1 ELSE putable
      /\ getable' = IF t \in Producers THEN getable + 1 ELSE getable
  BY <1>2 DEF PostOther
<1>4. cnt' = cnt
  BY <1>1 DEF bufferVars
<1>5. PermitsMatchBuffer'
  <2>1. CASE t \in Producers
    <3>1. /\ PutsComing' = PutsComing /\ PutsGoing' = PutsGoing - 1
          /\ GetsComing' = GetsComing /\ GetsGoing' = GetsGoing
      <4>1. pc'[t] \in {"produce", "begin"} /\ \A u \in Threads \ {t} : pc'[u] = pc[u]
        BY <1>1, <1>2, Programs
      <4> QED BY <1>1, <2>1, <4>1, ProducerMoves, PermitsNow
    <3>2. Permits'
      BY <1>1, <1>2, <1>3, <1>4, <2>1, <3>1, PermitsNow DEF Permits
    <3> QED BY <3>2, PermitsNext
  <2>2. CASE t \in Consumers
    <3>1. /\ PutsComing' = PutsComing /\ PutsGoing' = PutsGoing
          /\ GetsComing' = GetsComing /\ GetsGoing' = GetsGoing - 1
      <4>1. pc'[t] \in {"produce", "begin"} /\ \A u \in Threads \ {t} : pc'[u] = pc[u]
        BY <1>1, <1>2, Programs
      <4> QED BY <1>1, <2>2, <4>1, ConsumerMoves, PermitsNow
    <3>2. Permits'
      BY <1>1, <1>2, <1>3, <1>4, <2>2, <3>1, PermitsNow DEF Permits
    <3> QED BY <3>2, PermitsNext
  <2> QED BY <2>1, <2>2 DEF Threads
<1>6. putable' \in 0..max /\ getable' \in 0..max
  BY <1>1, <1>2, <1>3, PermitsNow DEF Permits, Threads
<1>7. BufferTypeOK' /\ RingInv' /\ data' \in [Threads -> Data] /\ mutex' \in {0, 1}
  BY <1>1 DEF ProdConsInv, TypeOK, BufferTypeOK, RingInv, bufferVars
<1>8. MutexInv'
  BY <1>1, <1>2, Programs DEF ProdConsInv, MutexInv
<1> QED BY <1>1, <1>2, <1>5, <1>6, <1>7, <1>8, Chapter31 DEF Places31

\* Making a number changes neither what waits nor what is permitted.
LEMMA ProduceStep ==
  ASSUME ProdConsAssumption, ProdConsInv, NEW p \in Producers, Produce(p)
  PROVE  ProdConsInv'
<1>1. /\ p \in Threads /\ p \notin Consumers /\ chapter \in {30, 31}
      /\ UNCHANGED <<chapter, bufferVars, semaphores>>
      /\ pc[p] = "produce" /\ pc' = [pc EXCEPT ![p] = "begin"]
      /\ data' \in [Threads -> Data]
  BY Programs DEF Produce, Goto, ProdConsInv, TypeOK
<1>2. BufferTypeOK' /\ RingInv' /\ mutex' \in {0, 1} /\ putable' \in 0..max /\ getable' \in 0..max
  BY <1>1 DEF ProdConsInv, TypeOK, BufferTypeOK, RingInv, bufferVars, semaphores
<1>3. CASE chapter = 30
  <2>1. /\ pc' \in [Threads -> {"produce", "begin", "waiting", "woken", "signal"}]
        /\ \A c \in Consumers : pc'[c] # "produce"
    BY <1>1, <1>3, Places30, Programs
  <2>2. NoLostWakeup'
    <3>1. \A T \in {Producers, Consumers} :
            Waiting(T)' = Waiting(T) /\ At(T, {"signal"})' = At(T, {"signal"})
      BY <1>1, Programs DEF Waiting, At
    <3>2. full' = full /\ empt' = empt
      BY <1>1 DEF full, empt, bufferVars
    <3> QED BY <1>1, <3>1, <3>2 DEF NoLostWakeup, ProdConsInv
  <2> QED BY <1>1, <1>2, <1>3, <2>1, <2>2, Chapter30
<1>4. CASE chapter = 31
  <2>1. MutexInv'
    BY <1>1, Programs DEF ProdConsInv, MutexInv, semaphores
  <2>2. PermitsMatchBuffer'
    <3>1. /\ PutsComing' = PutsComing /\ PutsGoing' = PutsGoing
          /\ GetsComing' = GetsComing /\ GetsGoing' = GetsGoing
      <4>1. pc'[p] = "begin" /\ \A u \in Threads \ {p} : pc'[u] = pc[u]
        BY <1>1, Programs
      <4> QED BY <1>1, <1>4, <4>1, ProducerMoves, PermitsNow
    <3>2. Permits'
      BY <1>1, <1>4, Numbers, <3>1, PermitsNow DEF Permits, semaphores, bufferVars
    <3> QED BY <3>2, PermitsNext
  <2> QED BY <1>1, <1>2, <1>4, <2>1, <2>2, Chapter31 DEF Places31
<1> QED BY <1>1, <1>3, <1>4

LEMMA NextProdConsInv ==
  ASSUME ProdConsAssumption, ProdConsInv, [Next]_vars
  PROVE  ProdConsInv'
<1>1. CASE UNCHANGED vars
  <2>1. UNCHANGED <<chapter, buf, cnt, beg, end, mutex, putable, getable, data, pc>>
    BY <1>1 DEF vars, bufferVars, semaphores
  <2>2. TypeOK' /\ PlacesInv' /\ MutexInv' /\ RingInv'
    BY <2>1 DEF ProdConsInv, TypeOK, BufferTypeOK, PlacesInv, Outside, MutexInv, RingInv
  <2>3. NoLostWakeup' /\ PermitsMatchBuffer'
    BY <2>1 DEF ProdConsInv, NoLostWakeup, PermitsMatchBuffer, Waiting, At, full, empt
  <2> QED BY <2>2, <2>3 DEF ProdConsInv
<1> QED
  BY <1>1, ProduceStep, WaitBusyStep, TransferStep, SignalStep, SpuriousStep, WaitOwnStep,
     LockStep, TransferLockedStep, UnlockStep, PostOtherStep DEF Next, prod_cons

THEOREM ProdConsInvariant == ASSUME ProdConsAssumption PROVE Spec => []ProdConsInv
<1>1. Init => ProdConsInv
  BY InitProdConsInv
<1>2. ProdConsInv /\ [Next]_vars => ProdConsInv'
  BY NextProdConsInv
<1> QED BY <1>1, <1>2, PTL DEF Spec

\* Type correctness: the count stays between 0 and max although put and get do
\* not test it, and the semaphores never exceed what they count.
THEOREM ProdConsTypeCorrect == ASSUME ProdConsAssumption PROVE Spec => []TypeOK
<1>1. ProdConsInv => TypeOK
  BY DEF ProdConsInv
<1> QED BY <1>1, ProdConsInvariant, PTL

\* For any number of threads and any capacity: no wakeup is lost in chapter
\* 30, and the semaphores of chapter 31 match the buffer.
THEOREM NothingIsLost == ASSUME ProdConsAssumption PROVE Spec => []NoWakeupOrPermitLost
<1>1. ProdConsInv => NoWakeupOrPermitLost
  BY DEF ProdConsInv, NoWakeupOrPermitLost
<1> QED BY <1>1, ProdConsInvariant, PTL

\* Producers and consumers never all wait for each other: in chapter 30 the
\* buffer would be empty and full at once, and in chapter 31 there would be
\* neither room nor numbers in it.
THEOREM ThreadsGoOn == ASSUME ProdConsAssumption PROVE Spec => []SomebodyGoesOn
<1>1. ASSUME ProdConsAssumption, ProdConsInv, \A t \in Threads : Waits(t) PROVE FALSE
  <2>1. \A t \in Threads : pc[t] \notin {"produce", "signal", "xfer", "unlock", "post"}
    BY <1>1 DEF Waits
  <2>2. cnt \in Nat /\ max \in Nat \ {0} /\ chapter \in {30, 31}
    BY <1>1 DEF ProdConsAssumption, BufferAssumption, ProdConsInv, TypeOK, BufferTypeOK
  <2>3. CASE chapter = 30
    <3>1. \A t \in Threads : pc[t] = "waiting"
      BY <1>1, <2>3 DEF Waits, ProdConsInv, PlacesInv, Outside
    <3>2. /\ Waiting(Consumers) = Consumers /\ Waiting(Producers) = Producers
          /\ At(Producers, {"signal"}) = {} /\ At(Consumers, {"signal"}) = {}
      BY <2>1, <3>1 DEF Waiting, At, Threads
    <3>3. empt /\ full
      BY <1>1, <2>3, <3>2 DEF ProdConsInv, NoLostWakeup
    <3> QED BY <2>2, <3>3 DEF empt, full
  <2>4. CASE chapter = 31
    <3>1. mutex = 1
      BY <1>1, <2>1, <2>4 DEF ProdConsInv, MutexInv
    <3>2. \A t \in Threads : pc[t] = "begin"
      BY <1>1, <2>1, <2>4, <3>1 DEF Waits, ProdConsInv, PlacesInv, Outside
    <3>3. putable = 0 /\ getable = 0
      BY <1>1, <3>2 DEF Waits, ProdConsAssumption, Threads
    <3>4. \A X \in {Producers, Consumers}, P \in {{"lock", "xfer"}, {"unlock", "post"}} :
            At(X, P) = {}
      BY <3>2 DEF At, Threads
    <3>5. PutsComing = 0 /\ PutsGoing = 0 /\ GetsComing = 0 /\ GetsGoing = 0
      BY <3>4, FS_EmptySet DEF PutsComing, PutsGoing, GetsComing, GetsGoing
    <3>6. 0 + cnt + 0 + 0 = max /\ 0 + 0 + 0 = cnt
      BY <1>1, <2>4, <3>3, <3>5
      DEF ProdConsInv, PermitsMatchBuffer, PutsComing, PutsGoing, GetsComing, GetsGoing
    <3> QED BY <2>2, <3>6
  <2> QED BY <2>2, <2>3, <2>4
<1>2. ASSUME ProdConsAssumption, ProdConsInv PROVE SomebodyGoesOn
  BY <1>1, <1>2 DEF SomebodyGoesOn
<1> QED BY <1>2, ProdConsInvariant, PTL

------------------------------------------------------------------------------
(* The refinement                                                          *)

LEMMA ContentsIsRing == Contents = Ring(buf, end, cnt)
BY DEF Contents, Ring

LEMMA InitAbstract == ASSUME ProdConsAssumption, Init PROVE Abstract!Init
<1>1. Contents \in Seq(Data) /\ Len(Contents) = 0
  <2>1. TypeOK /\ cnt = 0
    BY InitProdConsInv DEF ProdConsInv, Init, BufferInit
  <2> QED BY <2>1, RingIsSeq, ContentsIsRing DEF TypeOK, BufferTypeOK
<1>2. Contents = <<>>
  BY <1>1, EmptySeq
<1>3. [c \in Consumers |-> data[c]] \in [Consumers -> Data]
  BY DEF Init, Threads, ProdConsAssumption, BufferAssumption
<1> QED BY <1>2, <1>3 DEF Abstract!Init

\* A transfer into a buffer with room, or out of one with numbers, is a step of
\* the queue.
LEMMA TransferSimulated ==
  ASSUME ProdConsAssumption, ProdConsInv, NEW t \in Threads, xfer(t),
         IF t \in Producers THEN cnt < max ELSE cnt > 0
  PROVE  Abstract!Next
<1> DEFINE got == [c \in Consumers |-> data[c]]
<1>1. /\ TypeOK /\ RingInv /\ (t \in Producers <=> t \notin Consumers)
      /\ buf \in [Slots -> Data] /\ end \in Slots /\ cnt \in 0..max
      /\ data \in [Threads -> Data] /\ Consumers \subseteq Threads
  BY Programs DEF ProdConsInv, TypeOK, BufferTypeOK
<1>2. Contents' = Ring(buf', end', cnt')
  BY DEF Contents, Ring
<1>3. CASE t \in Producers
  <2>1. data[t] \in Data /\ put(data[t]) /\ data' = data /\ cnt < max
    BY <1>1, <1>3 DEF xfer, xput
  <2>2. /\ BufferTypeOK' /\ cnt' = cnt + 1 /\ end' = end
        /\ buf' = [buf EXCEPT ![(end + (cnt + 1)) % max] = data[t]]
    BY <1>1, <2>1, PutStep
  <2>3. Contents' = Append(Contents, data[t])
    <3>1. /\ cnt' \in 0..max /\ buf' \in [Slots -> Data]
          /\ \A i \in Slots : buf'[i] = IF i = (end + cnt') % max THEN data[t] ELSE buf[i]
      BY <1>1, <2>2 DEF BufferTypeOK
    <3>2. Ring(buf', end, cnt') = Append(Ring(buf, end, cnt), data[t])
      <4>1. PICK m \in 0..max : m = cnt'
        BY <3>1
      <4>2. PICK C \in [Slots -> Data] : C = buf'
        BY <3>1
      <4>3. m = cnt + 1 /\ IsPutAt(C, buf, (end + m) % max, data[t])
        BY <2>2, <3>1, <4>1, <4>2 DEF IsPutAt
      <4>4. Ring(C, end, m) = Append(Ring(buf, end, cnt), data[t])
        BY <1>1, <2>1, <4>3, RingPut
      <4> QED BY <4>1, <4>2, <4>4
    <3> QED BY <1>2, <2>2, <3>2, ContentsIsRing
  <2>4. Len(Contents) < max
    BY <1>1, <2>1, RingIsSeq, ContentsIsRing
  <2>5. got' = got
    BY <2>1
  <2> QED BY <2>1, <2>3, <2>4, <2>5 DEF Abstract!Next, Abstract!Put
<1>4. CASE t \notin Producers
  <2>1. t \in Consumers /\ get /\ data' = [data EXCEPT ![t] = GotData] /\ cnt > 0 /\ cnt # 0
    BY <1>1, <1>4 DEF xfer, xget
  <2>2. cnt' = cnt - 1 /\ end' = Inc(end) /\ buf' = buf
    BY <1>1, <2>1, GetStep
  <2>3. Contents # <<>> /\ Head(Contents) = GotData /\ Contents' = Tail(Contents)
    BY <1>1, <1>2, <2>1, <2>2, RingGet, ContentsIsRing DEF GotData
  <2>4. got' = [got EXCEPT ![t] = GotData]
    BY <1>1, <2>1
  <2> QED BY <2>1, <2>3, <2>4 DEF Abstract!Next, Abstract!Get
<1> QED BY <1>3, <1>4

LEMMA NextAbstract ==
  ASSUME ProdConsAssumption, ProdConsInv, [Next]_vars
  PROVE  [Abstract!Next]_(Abstract!vars)
<1>1. ASSUME UNCHANGED bufferVars, \A c \in Consumers : data'[c] = data[c]
      PROVE  UNCHANGED Abstract!vars
  <2>1. Contents' = Contents
    BY <1>1 DEF Contents, bufferVars
  <2>2. [c \in Consumers |-> data'[c]] = [c \in Consumers |-> data[c]]
    BY <1>1
  <2> QED BY <2>1, <2>2 DEF Abstract!vars
<1>2. ASSUME NEW p \in Producers, Produce(p) PROVE UNCHANGED Abstract!vars
  <2>1. \A c \in Consumers : data'[c] = data[c]
    BY <1>2, Programs DEF Produce, ProdConsInv, TypeOK
  <2> QED BY <1>1, <1>2, <2>1 DEF Produce
<1>3. ASSUME NEW t \in Threads, Transfer(t) PROVE Abstract!Next
  <2>1. IF t \in Producers THEN cnt < max ELSE cnt > 0
    BY <1>3 DEF Transfer, busy, full, empt, ProdConsInv, TypeOK, BufferTypeOK,
                ProdConsAssumption, BufferAssumption
  <2> QED BY <1>3, <2>1, TransferSimulated DEF Transfer
<1>4. ASSUME NEW t \in Threads, TransferLocked(t) PROVE Abstract!Next
  BY <1>4, PermitIsGood, TransferSimulated DEF TransferLocked, Goto
<1>5. ASSUME UNCHANGED <<bufferVars, data>> PROVE UNCHANGED Abstract!vars
  BY <1>1, <1>5
<1> QED BY <1>2, <1>3, <1>4, <1>5
        DEF Next, prod_cons, WaitBusy, Signal, SpuriousWakeup, WaitOwn, Lock, Unlock,
            PostOther, vars

\* The buffer of chapter 30, which takes no lock and tests nothing, is a
\* first-in first-out queue of max places under either program's
\* synchronisation.
THEOREM RingImplementsQueue ==
  ASSUME ProdConsAssumption PROVE Spec => ProdConsImplementsQueue
<1>1. Init => Abstract!Init
  BY InitAbstract
<1>2. ProdConsInv /\ [Next]_vars => [Abstract!Next]_(Abstract!vars)
  BY NextAbstract
<1> QED BY <1>1, <1>2, ProdConsInvariant, PTL DEF Spec, ProdConsImplementsQueue, Abstract!Spec
==============================================================================
