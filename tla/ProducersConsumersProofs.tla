----------------------- MODULE ProducersConsumersProofs -----------------------
(***************************************************************************)
(* Proofs about producers-consumers.c, for any number of producers and     *)
(* consumers, any size of the buffer and any number of items.              *)
(***************************************************************************)
EXTENDS MCBuffers, SequenceTheorems, TLAPS

------------------------------------------------------------------------------
(* The inductive invariant                                                 *)

\* Where main and the workers can be.
PlacesInv ==
  /\ pc[Main] \in {"start", "wake_producers", "wake_consumers", "join", "done"}
  /\ \A t \in Workers : pc[t] \in {"start", "waiting", "woken", "signal", "done"}

\* After the stop the buffer only shrinks, and a consumer leaves an empty one.
StopInv ==
  /\ StopRequested <=> pc[Main] # "start"
  /\ \A t \in Workers : pc[t] = "done" => StopRequested
  /\ \A c \in Consumers : pc[c] = "done" => Empty
  /\ pc[Main] = "done" => Empty

TotalsInv == TotalItemsProduced = TotalItemsConsumed + QueueSize

\* The numbers in the buffer, and those a worker may still insert, are bounded.
ItemsInv ==
  /\ \A i \in Slots : Buffer[i] <= MaxItems
  /\ \A c \in Consumers : Item[c] <= MaxItems
  /\ ~StopRequested => LastItemProduced <= MaxItems
     /\ \A p \in Producers : Item[p] <= MaxItems

PCInv ==
  /\ TypeOK /\ PlacesInv /\ StopInv /\ TotalsInv /\ ItemsInv
  /\ NoLostWakeup /\ StopReachesAll

LEMMA InitPCInv == Init => PCInv
<1> SUFFICES ASSUME Init PROVE PCInv
  OBVIOUS
<1> USE ProdConsAssumption DEF Init
<1>1. TypeOK
  <2>1. 0 \in Slots /\ 0 \in 0..BUFFER_SIZE
    BY DEF Slots
  <2>2. Buffer \in [Slots -> Nat] /\ Item \in [Workers -> Nat]
    OBVIOUS
  <2>3. pc \in [Workers \cup {Main} -> {"start", "waiting", "woken", "signal", "done",
                                       "wake_producers", "wake_consumers", "join"}]
    OBVIOUS
  <2> QED BY <2>1, <2>2, <2>3 DEF TypeOK
<1>2. PlacesInv /\ StopInv /\ TotalsInv /\ ItemsInv
  BY DEF PlacesInv, StopInv, TotalsInv, ItemsInv, Workers
<1>3. NoLostWakeup
  <2>1. Waiting(Consumers) = {} /\ Waiting(Producers) = {}
    BY DEF Waiting, Workers
  <2> QED BY <2>1 DEF NoLostWakeup
<1>4. StopReachesAll
  BY DEF StopReachesAll, Workers
<1> QED BY <1>1, <1>2, <1>3, <1>4 DEF PCInv

------------------------------------------------------------------------------
(* The steps                                                               *)

\* Type correctness is inductive on its own.
LEMMA TypeStep == TypeOK /\ [Next]_vars => TypeOK'
<1> SUFFICES ASSUME TypeOK, [Next]_vars PROVE TypeOK'
  OBVIOUS
<1> USE ProdConsAssumption
<1>1. ASSUME NEW p \in Producers, NEW x \in Nat, TryInsert(p, x),
             LastItemProduced' \in Nat, Item' \in [Workers -> Nat], UNCHANGED StopRequested
      PROVE  TypeOK'
  <2>1. CASE Insert(p, x) /\ ~Full
    <3>1. QueueSize' \in 0..BUFFER_SIZE
      BY <2>1 DEF Insert, Full, TypeOK
    <3>2. Buffer' \in [Slots -> Nat]
      BY <2>1 DEF Insert, TypeOK
    <3>3. pc' \in [Workers \cup {Main} -> {"start", "waiting", "woken", "signal", "done",
                                           "wake_producers", "wake_consumers", "join"}]
      BY <2>1 DEF Insert, TypeOK
    <3> QED BY <1>1, <2>1, <3>1, <3>2, <3>3 DEF Insert, TypeOK
  <2>2. CASE UNCHANGED queueVars
    <3>1. pc' \in [Workers \cup {Main} -> {"start", "waiting", "woken", "signal", "done",
                                           "wake_producers", "wake_consumers", "join"}]
      BY <1>1 DEF TryInsert, Insert, TypeOK
    <3> QED BY <1>1, <2>2, <3>1 DEF queueVars, TypeOK
  <2> QED BY <1>1, <2>1, <2>2 DEF TryInsert
<1>2. ASSUME NEW p \in Producers, Produce(p) PROVE TypeOK'
  <2>1. LastItemProduced \in Nat /\ LastItemProduced' \in Nat
        /\ Item' \in [Workers -> Nat]
    BY <1>2 DEF Produce, TypeOK, Workers
  <2> QED BY <1>1, <1>2, <2>1 DEF Produce
<1>3. ASSUME NEW p \in Producers, ResumeProduce(p) PROVE TypeOK'
  BY <1>1, <1>3 DEF ResumeProduce, TypeOK, Workers
<1>4. ASSUME NEW c \in Consumers, Consume(c) PROVE TypeOK'
  <2>1. CASE ~Empty /\ Remove(c)
    <3>1. QueueStartOffset' \in Slots
      BY <2>1 DEF Remove, TypeOK, Slots
    <3>2. QueueSize' \in 0..BUFFER_SIZE
      BY <2>1 DEF Remove, Empty, TypeOK
    <3>3. Item' \in [Workers -> Nat]
      BY <2>1 DEF Remove, TypeOK
    <3>4. pc' \in [Workers \cup {Main} -> {"start", "waiting", "woken", "signal", "done",
                                           "wake_producers", "wake_consumers", "join"}]
      BY <2>1 DEF Remove, TypeOK
    <3> QED BY <1>4, <2>1, <3>1, <3>2, <3>3, <3>4 DEF Consume, Remove, TypeOK
  <2>2. CASE UNCHANGED <<queueVars, Item>>
    <3>1. pc' \in [Workers \cup {Main} -> {"start", "waiting", "woken", "signal", "done",
                                           "wake_producers", "wake_consumers", "join"}]
      BY <1>4 DEF Consume, Remove, TypeOK
    <3> QED BY <1>4, <2>2, <3>1 DEF Consume, queueVars, TypeOK
  <2> QED BY <1>4, <2>1, <2>2 DEF Consume
<1>5. ASSUME NEW t \in Workers, NEW S, NEW n \in {"start"}, SignalOne(t, S, n),
             UNCHANGED <<queueVars, LastItemProduced, Item, StopRequested>>
      PROVE  TypeOK'
  BY <1>5 DEF SignalOne, Waiting, TypeOK, queueVars
<1>6. ASSUME NEW p \in Producers, SignalNotEmpty(p) PROVE TypeOK'
  BY <1>5, <1>6 DEF SignalNotEmpty, Workers
<1>7. ASSUME NEW c \in Consumers, SignalNotFull(c) PROVE TypeOK'
  BY <1>5, <1>7 DEF SignalNotFull, Workers
<1>8. ASSUME NEW t \in Workers, SpuriousWakeup(t) PROVE TypeOK'
  BY <1>8 DEF SpuriousWakeup, WakeSpuriously, TypeOK, queueVars
<1>9. CASE RequestStop \/ Stopping
  BY <1>9 DEF RequestStop, Stopping, WakeProducers, WakeConsumers, Exit, SignalAll,
              TypeOK, queueVars
<1>10. CASE UNCHANGED vars
  BY <1>10 DEF vars, TypeOK
<1> QED BY <1>2, <1>3, <1>4, <1>6, <1>7, <1>8, <1>9, <1>10
        DEF Next, Producer, Consumer, Exited, Workers

\* What a signal does to the program counters of the workers.
LEMMA SignalEffect ==
  ASSUME TypeOK, NEW t \in Workers, NEW S \in SUBSET Workers, SignalOne(t, S,
         "start"),
         pc[t] = "signal"
  PROVE  /\ pc'[t] = "start"
         /\ \A u \in (Workers \cup {Main}) \ {t} :
              pc'[u] = pc[u] \/ (u \in S /\ pc[u] = "waiting" /\ pc'[u] = "woken")
         /\ Waiting(S) # {} => \E u \in S : pc[u] = "waiting" /\ pc'[u] = "woken"
BY DEF SignalOne, Waiting, TypeOK

\* What is left of PCInv, in the steps of a worker that leave the buffer alone
\* and in which at most one thread other than the worker wakes up.
LEMMA QuietStep ==
  ASSUME PCInv, TypeOK', UNCHANGED <<queueVars, StopRequested>>, ItemsInv',
         NEW t \in Workers,
         pc'[t] \in {"start", "waiting", "woken", "done"},
         \A u \in (Workers \cup {Main}) \ {t} :
           pc'[u] = pc[u] \/ (u \in Workers /\ pc[u] = "waiting" /\ pc'[u] = "woken"),
         pc'[t] = "done" => StopRequested /\ (t \in Consumers => Empty),
         pc'[t] = "waiting" => /\ ~StopRequested
                               /\ IF t \in Producers THEN Full ELSE Empty,
         pc[t] = "signal" =>
           \E u \in Workers :
             /\ u \in IF t \in Producers THEN Consumers ELSE Producers
             /\ pc'[u] # "waiting"
  PROVE  PCInv'
<1> USE ProdConsAssumption DEF PCInv
<1>1. Main \notin Workers /\ Producers \subseteq Workers
      /\ Consumers \subseteq Workers
  BY DEF Workers
<1>2. pc'[Main] = pc[Main]
  BY <1>1
<1>3. PlacesInv'
  BY <1>1, <1>2 DEF PlacesInv
<1>4. StopInv'
  BY <1>1, <1>2 DEF StopInv, Empty, queueVars
<1>5. TotalsInv'
  BY DEF TotalsInv, queueVars
<1>6. StopReachesAll'
  <2>1. \A u \in Workers : pc'[u] = "waiting" => pc[u] = "waiting" \/ ~StopRequested
    BY <1>1
  <2>2. StopRequested <=> pc[Main] # "start"
    BY DEF StopInv
  <2> QED BY <1>1, <1>2, <2>1, <2>2 DEF StopReachesAll, Waiting
<1>7. NoLostWakeup'
  <2>1. ASSUME ~Empty', Waiting(Consumers)' = Consumers
        PROVE  \E p \in Producers : pc'[p] = "signal"
    <3>1. ~Empty /\ \A c \in Consumers : pc'[c] = "waiting"
      BY <2>1 DEF Empty, queueVars, Waiting
    <3>2. \A c \in Consumers : pc[c] = "waiting"
      BY <1>1, <3>1
    <3>3. PICK p \in Producers : pc[p] = "signal"
      BY <3>1, <3>2 DEF NoLostWakeup, Waiting
    <3>4. p # t
      BY <3>1, <3>3
    <3> QED BY <1>1, <3>3, <3>4
  <2>2. ASSUME ~Full', Waiting(Producers)' = Producers
        PROVE  \E c \in Consumers : pc'[c] = "signal"
    <3>1. ~Full /\ \A p \in Producers : pc'[p] = "waiting"
      BY <2>2 DEF Full, queueVars, Waiting
    <3>2. \A p \in Producers : pc[p] = "waiting"
      BY <1>1, <3>1
    <3>3. PICK c \in Consumers : pc[c] = "signal"
      BY <3>1, <3>2 DEF NoLostWakeup, Waiting
    <3>4. c # t
      BY <3>1, <3>3
    <3> QED BY <1>1, <3>3, <3>4
  <2> QED BY <2>1, <2>2 DEF NoLostWakeup
<1> QED BY <1>3, <1>4, <1>5, <1>6, <1>7

\* The item a producer tries to insert is one that fits.
LEMMA TryInsertStep ==
  ASSUME PCInv, TypeOK', NEW p \in Producers, pc[p] \in {"start", "woken"},
         NEW x \in Nat, ~StopRequested => x <= MaxItems, TryInsert(p, x),
         UNCHANGED StopRequested,
         \A c \in Consumers : Item'[c] = Item[c],
         ~StopRequested => /\ LastItemProduced' <= MaxItems
                           /\ \A q \in Producers : Item'[q] <= MaxItems
  PROVE  PCInv'
<1> USE ProdConsAssumption DEF PCInv
<1>1. Main \notin Workers /\ Producers \subseteq Workers
      /\ Consumers \subseteq Workers
      /\ p \in Workers /\ p \notin Consumers
  BY DEF Workers
<1>2. CASE UNCHANGED queueVars
  <2>1. ItemsInv'
    BY <1>2 DEF ItemsInv, queueVars
  <2>2. \/ pc' = [pc EXCEPT ![p] = "waiting"] /\ Full /\ ~StopRequested
        \/ pc' = [pc EXCEPT ![p] = "done"] /\ StopRequested
    BY <1>2 DEF TryInsert, Insert, queueVars, TypeOK
  <2>3. /\ pc'[p] \in {"waiting", "done"}
        /\ \A u \in (Workers \cup {Main}) \ {p} : pc'[u] = pc[u]
        /\ pc'[p] = "done" => StopRequested
        /\ pc'[p] = "waiting" => Full /\ ~StopRequested
    BY <1>1, <2>2 DEF TypeOK
  <2> QED BY <1>1, <1>2, <2>1, <2>3, QuietStep
<1>3. CASE ~Full /\ ~StopRequested /\ Insert(p, x)
  <2>1. /\ pc'[p] = "signal"
        /\ \A u \in (Workers \cup {Main}) \ {p} : pc'[u] = pc[u]
    BY <1>1, <1>3 DEF Insert, TypeOK
  <2>2. pc[Main] = "start" /\ pc'[Main] = "start"
    BY <1>1, <1>3, <2>1 DEF StopInv
  <2>3. PlacesInv' /\ StopInv' /\ StopReachesAll'
    BY <1>1, <1>3, <2>1, <2>2 DEF PlacesInv, StopInv, StopReachesAll
  <2>4. TotalsInv'
    BY <1>3 DEF Insert, TotalsInv, TypeOK
  <2>5. \A i \in Slots : Buffer'[i] <= MaxItems
    BY <1>3 DEF Insert, ItemsInv, TypeOK
  <2>6. ItemsInv'
    BY <1>3, <2>5 DEF ItemsInv
  <2>7. NoLostWakeup'
    BY <2>1 DEF NoLostWakeup, Waiting
  <2> QED BY <2>3, <2>4, <2>6, <2>7
<1> QED BY <1>2, <1>3 DEF TryInsert

LEMMA NextPCInv == PCInv /\ [Next]_vars => PCInv'
<1> SUFFICES ASSUME PCInv, [Next]_vars PROVE PCInv'
  OBVIOUS
<1>0. TypeOK /\ TypeOK'
  BY TypeStep DEF PCInv
<1> USE ProdConsAssumption
<1>a. Main \notin Workers /\ Producers \subseteq Workers
      /\ Consumers \subseteq Workers
      /\ \A p \in Producers : p \notin Consumers
  BY DEF Workers
<1>1. ASSUME NEW p \in Producers, Produce(p) PROVE PCInv'
  <2>1. /\ LastItemProduced \in Nat /\ LastItemProduced' = LastItemProduced + 1
        /\ ~StopRequested => LastItemProduced' <= MaxItems
        /\ \A t \in Workers \ {p} : Item'[t] = Item[t]
        /\ Item'[p] = LastItemProduced
    BY <1>0, <1>1, <1>a DEF Produce, TypeOK
  <2>2. ~StopRequested => LastItemProduced <= MaxItems
        /\ \A q \in Producers : Item'[q] <= MaxItems
    BY <2>1, <1>a DEF PCInv, ItemsInv
  <2>3. \A c \in Consumers : Item'[c] = Item[c]
    BY <2>1, <1>a
  <2> QED BY <1>0, <1>1, <2>1, <2>2, <2>3, TryInsertStep DEF Produce
<1>2. ASSUME NEW p \in Producers, ResumeProduce(p) PROVE PCInv'
  <2>1. Item[p] \in Nat /\ (~StopRequested => Item[p] <= MaxItems)
    BY <1>0, <1>a DEF PCInv, ItemsInv, TypeOK
  <2>2. ~StopRequested => LastItemProduced <= MaxItems
        /\ \A q \in Producers : Item[q] <= MaxItems
    BY DEF PCInv, ItemsInv
  <2> QED BY <1>0, <1>2, <2>1, <2>2, TryInsertStep DEF ResumeProduce
<1>3. ASSUME NEW p \in Producers, SignalNotEmpty(p) PROVE PCInv'
  <2>1. /\ pc'[p] = "start"
        /\ \A u \in (Workers \cup {Main}) \ {p} :
             pc'[u] = pc[u]
             \/ (u \in Workers /\ pc[u] = "waiting" /\ pc'[u] = "woken")
        /\ Waiting(Consumers) # {} =>
             \E u \in Consumers : pc[u] = "waiting" /\ pc'[u] = "woken"
    BY <1>0, <1>3, <1>a, SignalEffect DEF SignalNotEmpty
  <2>2. \E u \in Consumers : pc'[u] # "waiting"
    BY <2>1, <1>a DEF Waiting
  <2>3. ItemsInv'
    BY <1>3 DEF SignalNotEmpty, PCInv, ItemsInv, queueVars
  <2> QED BY <1>0, <1>3, <1>a, <2>1, <2>2, <2>3, QuietStep DEF SignalNotEmpty
<1>4. ASSUME NEW c \in Consumers, Consume(c) PROVE PCInv'
  <2>1. CASE UNCHANGED <<queueVars, Item>>
    <3>1. ItemsInv'
      BY <1>4, <2>1 DEF Consume, PCInv, ItemsInv, queueVars
    <3>2. \/ pc' = [pc EXCEPT ![c] = "waiting"] /\ Empty /\ ~StopRequested
          \/ pc' = [pc EXCEPT ![c] = "done"] /\ Empty /\ StopRequested
      BY <1>0, <1>4, <2>1 DEF Consume, Remove, queueVars, TypeOK
    <3>3. /\ pc'[c] \in {"waiting", "done"} /\ Empty
          /\ \A u \in (Workers \cup {Main}) \ {c} : pc'[u] = pc[u]
          /\ pc'[c] = "done" => StopRequested
          /\ pc'[c] = "waiting" => ~StopRequested
      BY <1>0, <1>a, <3>2 DEF TypeOK
    <3>4. pc[c] # "signal" /\ c \in Workers /\ c \notin Producers
      BY <1>4, <1>a DEF Consume
    <3> QED BY <1>0, <1>4, <2>1, <3>1, <3>3, <3>4, QuietStep DEF Consume
  <2>2. CASE ~Empty /\ Remove(c)
    <3>1. /\ pc'[c] = "signal" /\ c \in Workers /\ c \notin Producers
          /\ \A u \in (Workers \cup {Main}) \ {c} : pc'[u] = pc[u]
      BY <1>0, <1>a, <2>2 DEF Remove, TypeOK
    <3>2. pc'[Main] = pc[Main] /\ StopRequested' = StopRequested
      BY <1>4, <1>a, <3>1 DEF Consume
    <3>3. QueueSize' = QueueSize - 1 /\ QueueSize \in Nat /\ QueueSize # 0
      BY <1>0, <2>2 DEF Remove, Empty, TypeOK
    <3>4. PlacesInv' /\ StopReachesAll'
      BY <1>a, <3>1, <3>2 DEF PCInv, PlacesInv, StopReachesAll, Waiting
    <3>5. StopInv'
      <4>1. pc[Main] # "done" /\ \A d \in Consumers : pc[d] # "done"
        BY <2>2 DEF PCInv, StopInv
      <4> QED BY <1>a, <3>1, <3>2, <4>1 DEF PCInv, StopInv
    <3>6. TotalsInv'
      BY <1>0, <2>2, <3>3 DEF PCInv, TotalsInv, Remove, TypeOK
    <3>7. ItemsInv'
      <4>1. Buffer[QueueStartOffset] <= MaxItems /\ Buffer' = Buffer
        BY <1>0, <2>2 DEF PCInv, ItemsInv, Remove, TypeOK
      <4>2. \A t \in Workers : Item'[t] = IF t = c THEN Buffer[QueueStartOffset] ELSE Item[t]
        BY <1>0, <2>2 DEF Remove, TypeOK
      <4> QED BY <1>4, <1>a, <3>2, <4>1, <4>2 DEF PCInv, ItemsInv, Consume
    <3>8. NoLostWakeup'
      BY <3>1 DEF NoLostWakeup, Waiting
    <3> QED BY <1>0, <3>4, <3>5, <3>6, <3>7, <3>8 DEF PCInv
  <2> QED BY <1>4, <2>1, <2>2 DEF Consume
<1>5. ASSUME NEW c \in Consumers, SignalNotFull(c) PROVE PCInv'
  <2>1. /\ pc'[c] = "start"
        /\ \A u \in (Workers \cup {Main}) \ {c} :
             pc'[u] = pc[u]
             \/ (u \in Workers /\ pc[u] = "waiting" /\ pc'[u] = "woken")
        /\ Waiting(Producers) # {} =>
             \E u \in Producers : pc[u] = "waiting" /\ pc'[u] = "woken"
    BY <1>0, <1>5, <1>a, SignalEffect DEF SignalNotFull
  <2>2. \E u \in Producers : pc'[u] # "waiting"
    BY <2>1, <1>a DEF Waiting
  <2>3. ItemsInv'
    BY <1>5 DEF SignalNotFull, PCInv, ItemsInv, queueVars
  <2> QED BY <1>0, <1>5, <1>a, <2>1, <2>2, <2>3, QuietStep DEF SignalNotFull
<1>6. ASSUME NEW t \in Workers, SpuriousWakeup(t) PROVE PCInv'
  <2>1. /\ pc'[t] = "woken" /\ pc[t] = "waiting"
        /\ \A u \in (Workers \cup {Main}) \ {t} : pc'[u] = pc[u]
    BY <1>0, <1>6 DEF SpuriousWakeup, WakeSpuriously, TypeOK
  <2>2. ItemsInv'
    BY <1>6 DEF SpuriousWakeup, PCInv, ItemsInv, queueVars
  <2> QED BY <1>0, <1>6, <2>1, <2>2, QuietStep DEF SpuriousWakeup
<1>7. CASE RequestStop
  <2>1. /\ pc[Main] = "start" /\ pc'[Main] = "wake_producers"
        /\ \A u \in Workers : pc'[u] = pc[u]
        /\ StopRequested' /\ UNCHANGED <<queueVars, LastItemProduced, Item>>
    BY <1>0, <1>7, <1>a DEF RequestStop, TypeOK
  <2>2. PlacesInv' /\ StopInv' /\ TotalsInv' /\ ItemsInv' /\ StopReachesAll'
    BY <2>1, <1>a DEF PCInv, PlacesInv, StopInv, TotalsInv, ItemsInv, StopReachesAll,
                      Empty, queueVars
  <2>3. NoLostWakeup'
    BY <2>1, <1>a DEF PCInv, NoLostWakeup, Waiting, Empty, Full, queueVars
  <2> QED BY <1>0, <2>2, <2>3 DEF PCInv
<1>8. ASSUME NEW S \in SUBSET Workers, NEW from, NEW to,
             \/ from = "wake_producers" /\ to = "wake_consumers" /\ S = Producers
             \/ from = "wake_consumers" /\ to = "join" /\ S = Consumers,
             pc[Main] = from, SignalAll(Main, S, to),
             UNCHANGED <<queueVars, LastItemProduced, Item, StopRequested>>
      PROVE  PCInv'
  <2>1. /\ pc'[Main] = to
        /\ \A u \in S : pc'[u] = IF pc[u] = "waiting" THEN "woken" ELSE pc[u]
        /\ \A u \in Workers \ S : pc'[u] = pc[u]
    BY <1>0, <1>8, <1>a DEF SignalAll, Waiting, TypeOK
  <2>2. PlacesInv' /\ TotalsInv' /\ ItemsInv'
    BY <1>8, <2>1, <1>a DEF PCInv, PlacesInv, TotalsInv, ItemsInv, queueVars
  <2>3. StopInv'
    BY <1>8, <2>1, <1>a DEF PCInv, StopInv, Empty, queueVars
  <2>4. StopReachesAll'
    BY <1>8, <2>1, <1>a DEF PCInv, StopReachesAll, Waiting
  <2>5. NoLostWakeup'
    <3>1. \A u \in Workers : /\ pc'[u] = "waiting" => pc[u] = "waiting"
                             /\ pc[u] = "signal" => pc'[u] = "signal"
      BY <2>1
    <3> QED
      BY <1>8, <1>a, <3>1 DEF PCInv, NoLostWakeup, Waiting, Empty, Full, queueVars
  <2> QED BY <1>0, <2>2, <2>3, <2>4, <2>5 DEF PCInv
<1>9. CASE WakeProducers \/ WakeConsumers
  BY <1>8, <1>9, <1>a DEF WakeProducers, WakeConsumers
<1>10. CASE Exit
  <2>1. /\ pc[Main] = "join" /\ pc'[Main] = "done"
        /\ \A u \in Workers : pc'[u] = pc[u] /\ pc[u] = "done"
        /\ UNCHANGED <<queueVars, LastItemProduced, Item, StopRequested>>
    BY <1>0, <1>10, <1>a DEF Exit, TypeOK
  <2>2. Empty
    BY <2>1, <1>a DEF PCInv, StopInv
  <2>3. PlacesInv' /\ StopInv' /\ TotalsInv' /\ ItemsInv' /\ StopReachesAll'
    BY <2>1, <2>2, <1>a
       DEF PCInv, PlacesInv, StopInv, TotalsInv, ItemsInv, StopReachesAll,
                      Waiting, Empty, queueVars
  <2>4. NoLostWakeup'
    BY <2>1, <1>a DEF PCInv, NoLostWakeup, Waiting, Empty, Full, queueVars
  <2> QED BY <1>0, <2>3, <2>4 DEF PCInv
<1>11. CASE UNCHANGED vars
  BY <1>11
     DEF vars, PCInv, TypeOK, PlacesInv, StopInv, TotalsInv, ItemsInv, NoLostWakeup,
               StopReachesAll, Waiting, Empty, Full
<1> QED BY <1>1, <1>2, <1>3, <1>4, <1>5, <1>6, <1>7, <1>9, <1>10, <1>11, <1>a
        DEF Next, Producer, Consumer, Stopping, Exited

THEOREM PCInvariant == Spec => []PCInv
BY InitPCInv, NextPCInv, PTL DEF Spec

\* Type correctness: the offset and the size stay in the buffer, whatever the
\* threads race for.
THEOREM PCTypeCorrect == Spec => []TypeOK
<1>1. PCInv => TypeOK
  BY DEF PCInv
<1> QED BY <1>1, PCInvariant, PTL

\* The totals agree: at any moment up to what is in the buffer, and at the exit
\* exactly, because a consumer ends at an empty buffer to which nobody adds.
THEOREM TotalsAgreeAlways == Spec => []TotalsAgree
<1>1. PCInv => TotalsAgree
  BY DEF PCInv, TotalsInv, StopInv, TypeOK, TotalsAgree, Empty
<1> QED BY <1>1, PCInvariant, PTL

\* No wakeup is lost between the test of QueueSize and the wait, for any number
\* of threads on each side.
THEOREM PCNoLostWakeup == Spec => []NoLostWakeup
<1>1. PCInv => NoLostWakeup
  BY DEF PCInv
<1> QED BY <1>1, PCInvariant, PTL

\* Nobody waits on a condition variable main has broadcast to.
THEOREM StopReachesEverybody == Spec => []StopReachesAll
<1>1. PCInv => StopReachesAll
  BY DEF PCInv
<1> QED BY <1>1, PCInvariant, PTL

\* While main waits, a worker goes on or all have ended: before the stop they
\* would sleep over a buffer both empty and full, and after it nobody sleeps.
THEOREM WorkersGoOn == Spec => []SomebodyGoesOn
<1>1. PCInv => SomebodyGoesOn
  <2> SUFFICES ASSUME PCInv, pc[Main] \in {"start", "join"},
                      \A t \in Workers : pc[t] \in {"waiting", "done"}
               PROVE  StopRequested /\ \A t \in Workers : pc[t] = "done"
    BY DEF SomebodyGoesOn
  <2>1. CASE pc[Main] = "start"
    <3>1. \A t \in Workers : pc[t] = "waiting"
      BY <2>1 DEF PCInv, StopInv
    <3>2. /\ Waiting(Consumers) = Consumers /\ Waiting(Producers) = Producers
          /\ \A t \in Workers : pc[t] # "signal"
      BY <3>1 DEF Waiting, Workers
    <3>3. Empty /\ Full
      BY <3>2 DEF PCInv, NoLostWakeup, Workers
    <3> QED BY <3>3, ProdConsAssumption DEF Empty, Full
  <2>2. CASE pc[Main] = "join"
    <3>1. Waiting(Producers) = {} /\ Waiting(Consumers) = {}
      BY <2>2 DEF PCInv, StopReachesAll
    <3> QED BY <2>2, <3>1 DEF PCInv, StopInv, Waiting, Workers
  <2> QED BY <2>1, <2>2
<1> QED BY <1>1, PCInvariant, PTL

------------------------------------------------------------------------------
(* The circular buffer as a sequence                                       *)

\* n items of the array A, from the slot q on.
Ring(A, q, n) == [i \in 1..n |-> A[(q + i - 1) % BUFFER_SIZE]]

LEMMA Wrap ==
  ASSUME NEW k \in Nat, k < 2 * BUFFER_SIZE
  PROVE  /\ k % BUFFER_SIZE = IF k < BUFFER_SIZE THEN k ELSE k - BUFFER_SIZE
         /\ k % BUFFER_SIZE \in Slots
<1>1. ASSUME NEW n \in Nat \ {0}, NEW j \in Nat, j < n PROVE j % n = j
  BY <1>1, SMT
<1>2. ASSUME NEW n \in Nat \ {0}, NEW j \in Nat, j >= n, j < 2 * n PROVE j % n = j - n
  BY <1>2, SMT
<1>3. k % BUFFER_SIZE = IF k < BUFFER_SIZE THEN k ELSE k - BUFFER_SIZE
  <2>1. BUFFER_SIZE \in Nat \ {0}
    BY ProdConsAssumption
  <2>2. CASE k < BUFFER_SIZE
    <3>1. k % BUFFER_SIZE = k
      BY <1>1, <2>1, <2>2
    <3> QED BY <2>2, <3>1
  <2>3. CASE ~(k < BUFFER_SIZE)
    <3>1. k >= BUFFER_SIZE
      BY <2>1, <2>3
    <3>2. k % BUFFER_SIZE = k - BUFFER_SIZE
      BY <1>2, <2>1, <3>1
    <3> QED BY <2>3, <3>2
  <2> QED BY <2>2, <2>3
<1> QED BY <1>3, ProdConsAssumption DEF Slots

LEMMA RingIsSeq ==
  ASSUME NEW S, NEW A \in [Slots -> S], NEW q \in Slots, NEW n \in 0..BUFFER_SIZE
  PROVE  /\ Ring(A, q, n) \in Seq(S)
         /\ Len(Ring(A, q, n)) = n
         /\ \A i \in 1..n : Ring(A, q, n)[i] = A[(q + i - 1) % BUFFER_SIZE]
<1>1. \A i \in 1..n : (q + i - 1) % BUFFER_SIZE \in Slots
  BY Wrap, ProdConsAssumption DEF Slots
<1>2. Ring(A, q, n) \in [1..n -> S]
  BY <1>1 DEF Ring
<1>3. n \in Nat
  BY ProdConsAssumption
<1>4. Ring(A, q, n) \in Seq(S)
  BY <1>2, <1>3, SeqDef
<1>5. Len(Ring(A, q, n)) = n
  BY <1>2, <1>3, <1>4, LenProperties
<1> QED BY <1>4, <1>5 DEF Ring

\* An insertion behind the last item appends it.
LEMMA RingInsert ==
  ASSUME NEW S, NEW A \in [Slots -> S], NEW q \in Slots, NEW n \in 0..BUFFER_SIZE,
         n < BUFFER_SIZE, NEW x \in S
  PROVE  Ring([A EXCEPT ![(q + n) % BUFFER_SIZE] = x], q, n + 1) = Append(Ring(A, q, n), x)
<1> DEFINE C == [A EXCEPT ![(q + n) % BUFFER_SIZE] = x]
           s == Ring(A, q, n)
           t == Ring(C, q, n + 1)
<1>1. n \in Nat /\ n + 1 \in 0..BUFFER_SIZE /\ q \in Nat /\ q < BUFFER_SIZE
  BY ProdConsAssumption DEF Slots
<1>2. C \in [Slots -> S] /\ (q + n) % BUFFER_SIZE \in Slots
  BY <1>1, Wrap, ProdConsAssumption
<1>3. s \in Seq(S) /\ Len(s) = n
      /\ \A i \in 1..n : s[i] = A[(q + i - 1) % BUFFER_SIZE]
  BY RingIsSeq
<1>4. /\ t \in Seq(S) /\ Len(t) = n + 1
      /\ \A i \in 1..(n + 1) : t[i] = C[(q + i - 1) % BUFFER_SIZE]
  <2>1. PICK m \in 0..BUFFER_SIZE : m = n + 1
    BY <1>1
  <2>2. PICK D \in [Slots -> S] : D = C
    BY <1>2
  <2>3. /\ Ring(D, q, m) \in Seq(S) /\ Len(Ring(D, q, m)) = m
        /\ \A i \in 1..m : Ring(D, q, m)[i] = D[(q + i - 1) % BUFFER_SIZE]
    BY RingIsSeq
  <2> HIDE DEF C
  <2> QED BY <2>1, <2>2, <2>3
<1>5. \A i \in 1..n : (q + i - 1) % BUFFER_SIZE # (q + n) % BUFFER_SIZE
                      /\ (q + i - 1) % BUFFER_SIZE \in Slots
  BY <1>1, Wrap, ProdConsAssumption
<1>6. \A i \in 1..n : t[i] = s[i]
  <2> SUFFICES ASSUME NEW i \in 1..n PROVE t[i] = s[i]
    OBVIOUS
  <2>1. i \in 1..(n + 1)
    BY <1>1
  <2>2. C[(q + i - 1) % BUFFER_SIZE] = A[(q + i - 1) % BUFFER_SIZE]
    BY <1>5
  <2> HIDE DEF C, s, t
  <2> QED BY <1>3, <1>4, <2>1, <2>2
<1>7. t[n + 1] = x
  <2>1. n + 1 \in 1..(n + 1) /\ q + (n + 1) - 1 = q + n
    BY <1>1
  <2>2. t[n + 1] = C[(q + n) % BUFFER_SIZE]
    <3> HIDE DEF C, t
    <3> QED BY <1>4, <2>1
  <2> QED BY <1>2, <2>2
<1> HIDE DEF C, s, t
<1>8. /\ Append(s, x) \in Seq(S) /\ Len(Append(s, x)) = n + 1
      /\ \A i \in 1..(n + 1) : Append(s, x)[i] = IF i = n + 1 THEN x ELSE s[i]
  BY <1>1, <1>3
<1>9. \A i \in 1..(n + 1) : t[i] = Append(s, x)[i]
  BY <1>1, <1>6, <1>7, <1>8
<1>10. t = Append(s, x)
  BY <1>4, <1>8, <1>9, SeqEqual
<1> QED BY <1>10 DEF C, s, t

\* A removal at the offset takes the oldest item.
LEMMA RingRemove ==
  ASSUME NEW S, NEW A \in [Slots -> S], NEW q \in Slots, NEW n \in 0..BUFFER_SIZE,
         n # 0
  PROVE  /\ Ring(A, q, n) # <<>>
         /\ Head(Ring(A, q, n)) = A[q]
         /\ Ring(A, IF q + 1 = BUFFER_SIZE THEN 0 ELSE q + 1, n - 1) = Tail(Ring(A, q, n))
<1> DEFINE r == IF q + 1 = BUFFER_SIZE THEN 0 ELSE q + 1
           s == Ring(A, q, n)
           t == Ring(A, r, n - 1)
<1>1. n \in Nat /\ n - 1 \in 0..BUFFER_SIZE /\ q \in Nat /\ q < BUFFER_SIZE
      /\ r \in Slots
  BY ProdConsAssumption DEF Slots
<1>2. s \in Seq(S) /\ Len(s) = n
      /\ \A i \in 1..n : s[i] = A[(q + i - 1) % BUFFER_SIZE]
  BY RingIsSeq
<1>3. t \in Seq(S) /\ Len(t) = n - 1
      /\ \A i \in 1..(n - 1) : t[i] = A[(r + i - 1) % BUFFER_SIZE]
  <2> HIDE DEF r
  <2> QED BY <1>1, RingIsSeq
<1>4. (q + 1 - 1) % BUFFER_SIZE = q
  BY <1>1, Wrap, ProdConsAssumption
<1>5. \A i \in 1..(n - 1) : (q + (i + 1) - 1) % BUFFER_SIZE = (r + i - 1) % BUFFER_SIZE
  <2> SUFFICES ASSUME NEW i \in 1..(n - 1)
               PROVE  (q + (i + 1) - 1) % BUFFER_SIZE = (r + i - 1) % BUFFER_SIZE
    OBVIOUS
  <2>1. i \in Nat /\ i >= 1 /\ i < BUFFER_SIZE
    BY <1>1, ProdConsAssumption
  <2>2. CASE q + 1 = BUFFER_SIZE
    <3>1. PICK k \in Nat : k = q + i
      BY <2>1, <1>1
    <3>2. k < 2 * BUFFER_SIZE /\ ~(k < BUFFER_SIZE) /\ k - BUFFER_SIZE = i - 1
      BY <2>1, <2>2, <3>1, <1>1, ProdConsAssumption
    <3>3. k % BUFFER_SIZE = i - 1
      BY <3>2, Wrap
    <3>4. i - 1 \in Nat /\ i - 1 < 2 * BUFFER_SIZE /\ i - 1 < BUFFER_SIZE
      BY <2>1, ProdConsAssumption
    <3>5. (i - 1) % BUFFER_SIZE = i - 1
      BY <3>4, Wrap
    <3>6. q + (i + 1) - 1 = k /\ r + i - 1 = i - 1
      BY <2>1, <2>2, <3>1, <1>1
    <3> QED BY <3>3, <3>5, <3>6
  <2>3. CASE q + 1 # BUFFER_SIZE
    <3>1. q + (i + 1) - 1 = r + i - 1
      BY <1>1, <2>1, <2>3
    <3> QED BY <3>1
  <2> QED BY <2>2, <2>3
<1> HIDE DEF r, s, t
<1>6. s # <<>>
  BY <1>1, <1>2, EmptySeq
<1>7. Head(s) = A[q]
  <2>1. 1 \in 1..n
    BY <1>1
  <2>2. s[1] = A[q]
    BY <1>2, <1>4, <2>1
  <2> QED BY <1>2, <1>6, <2>2
<1>8. /\ Tail(s) \in Seq(S) /\ Len(Tail(s)) = n - 1
      /\ \A i \in 1..(n - 1) : Tail(s)[i] = s[i + 1]
  BY <1>2, <1>6, HeadTailProperties
<1>9. \A i \in 1..(n - 1) : t[i] = Tail(s)[i]
  <2> SUFFICES ASSUME NEW i \in 1..(n - 1) PROVE t[i] = Tail(s)[i]
    OBVIOUS
  <2>1. i + 1 \in 1..n
    BY <1>1
  <2>2. s[i + 1] = A[(q + (i + 1) - 1) % BUFFER_SIZE]
    BY <1>2, <2>1
  <2> QED BY <1>3, <1>5, <1>8, <2>2
<1>10. t = Tail(s)
  BY <1>3, <1>8, <1>9, SeqEqual
<1> QED BY <1>6, <1>7, <1>10 DEF r, s, t

------------------------------------------------------------------------------
(* The refinement                                                          *)

LEMMA QueueIsRing == Queue = Ring(Buffer, QueueStartOffset, QueueSize)
BY DEF Queue, Ring

LEMMA InitAbstract == Init => Abstract!Init
<1> SUFFICES ASSUME Init PROVE Abstract!Init
  OBVIOUS
<1>1. PCInv
  BY InitPCInv
<1>2. Queue = <<>>
  <2>1. /\ 0 \in Slots /\ 0 \in 0..BUFFER_SIZE /\ Buffer \in [Slots -> Nat]
    BY ProdConsAssumption DEF Init, Slots
  <2>2. Queue \in Seq(Nat) /\ Len(Queue) = 0
    BY <2>1, RingIsSeq, QueueIsRing DEF Init
  <2> QED BY <2>2, EmptySeq
<1>3. [c \in Consumers |-> Item[c]] \in [Consumers -> 0..MaxItems]
  BY ProdConsAssumption DEF Init, Workers
<1> QED BY <1>2, <1>3 DEF Abstract!Init

LEMMA NextAbstract == PCInv /\ PCInv'
                      /\ [Next]_vars => [Abstract!Next]_(Abstract!vars)
<1> SUFFICES ASSUME PCInv, PCInv', [Next]_vars PROVE [Abstract!Next]_(Abstract!vars)
  OBVIOUS
<1> DEFINE got == [c \in Consumers |-> Item[c]]
<1>1. /\ TypeOK /\ Producers \subseteq Workers /\ Consumers \subseteq Workers
      /\ \A p \in Producers : p \notin Consumers
  BY ProdConsAssumption DEF PCInv, Workers
<1>2. /\ Buffer \in [Slots -> 0..MaxItems] /\ QueueStartOffset \in Slots
      /\ QueueSize \in 0..BUFFER_SIZE /\ MaxItems \in Nat
  <2>1. \A i \in Slots : Buffer[i] \in 0..MaxItems
    BY <1>1, ProdConsAssumption DEF PCInv, ItemsInv, TypeOK
  <2> QED BY <1>1, <2>1, ProdConsAssumption DEF TypeOK
<1>3. ASSUME UNCHANGED <<Buffer, QueueStartOffset, QueueSize>>,
             \A c \in Consumers : Item'[c] = Item[c]
      PROVE  UNCHANGED Abstract!vars
  <2>1. Queue' = Queue
    BY <1>3 DEF Queue
  <2>2. got' = got
    BY <1>3
  <2> QED BY <2>1, <2>2 DEF Abstract!vars
<1>4. ASSUME NEW p \in Producers, NEW x \in 0..MaxItems, ~Full, Insert(p, x),
             \A c \in Consumers : Item'[c] = Item[c]
      PROVE  Abstract!Next
  <2>1. QueueSize < BUFFER_SIZE
    BY <1>2, <1>4, ProdConsAssumption DEF Full
  <2>2. Queue' = Append(Queue, x)
    <3>1. Queue' = Ring(Buffer', QueueStartOffset', QueueSize')
      BY DEF Queue, Ring
    <3> QED BY <1>2, <1>4, <2>1, <3>1, RingInsert, QueueIsRing DEF Insert
  <2>3. Len(Queue) < BUFFER_SIZE
    BY <1>2, <2>1, RingIsSeq, QueueIsRing
  <2>4. got' = got
    BY <1>4
  <2> QED BY <2>2, <2>3, <2>4 DEF Abstract!Next, Abstract!Put
<1>5. ASSUME NEW c \in Consumers, ~Empty, Remove(c) PROVE Abstract!Next
  <2>1. QueueSize # 0
    BY <1>5 DEF Empty
  <2>2. Queue # <<>> /\ Head(Queue) = Buffer[QueueStartOffset] /\ Queue' = Tail(Queue)
    <3>1. Queue' = Ring(Buffer', QueueStartOffset', QueueSize')
      BY DEF Queue, Ring
    <3> QED BY <1>2, <1>5, <2>1, <3>1, RingRemove, QueueIsRing DEF Remove
  <2>3. got' = [got EXCEPT ![c] = Buffer[QueueStartOffset]]
    BY <1>1, <1>5 DEF Remove, TypeOK
  <2> QED BY <2>2, <2>3 DEF Abstract!Next, Abstract!Get
<1>6. ASSUME NEW p \in Producers, NEW x \in Nat, ~StopRequested => x <= MaxItems,
             TryInsert(p, x), \A c \in Consumers : Item'[c] = Item[c]
      PROVE  [Abstract!Next]_(Abstract!vars)
  <2>1. CASE UNCHANGED queueVars
    BY <1>3, <1>6, <2>1 DEF queueVars
  <2>2. CASE ~Full /\ ~StopRequested /\ Insert(p, x)
    <3>1. x \in 0..MaxItems
      BY <1>2, <1>6, <2>2
    <3> QED BY <1>4, <1>6, <2>2, <3>1
  <2> QED BY <1>6, <2>1, <2>2 DEF TryInsert
<1>7. ASSUME NEW p \in Producers, Produce(p) PROVE [Abstract!Next]_(Abstract!vars)
  <2>1. /\ LastItemProduced \in Nat
           /\ (~StopRequested => LastItemProduced <= MaxItems)
        /\ \A c \in Consumers : Item'[c] = Item[c]
    BY <1>1, <1>7 DEF Produce, PCInv, ItemsInv, TypeOK
  <2> QED BY <1>6, <1>7, <2>1 DEF Produce
<1>8. ASSUME NEW p \in Producers, ResumeProduce(p)
      PROVE  [Abstract!Next]_(Abstract!vars)
  <2>1. Item[p] \in Nat /\ (~StopRequested => Item[p] <= MaxItems)
    BY <1>1 DEF PCInv, ItemsInv, TypeOK
  <2> QED BY <1>6, <1>8, <2>1 DEF ResumeProduce
<1>9. ASSUME NEW c \in Consumers, Consume(c) PROVE [Abstract!Next]_(Abstract!vars)
  BY <1>3, <1>5, <1>9 DEF Consume, queueVars
<1>10. ASSUME UNCHANGED <<queueVars, Item>> PROVE [Abstract!Next]_(Abstract!vars)
  BY <1>3, <1>10 DEF queueVars
<1> QED BY <1>7, <1>8, <1>9, <1>10
        DEF Next, Producer, Consumer, Stopping, Exited, SignalNotEmpty, SignalNotFull,
            SpuriousWakeup, RequestStop, WakeProducers, WakeConsumers, Exit, vars, queueVars

\* The circular buffer is a first-in first-out queue of BUFFER_SIZE places, for
\* any BUFFER_SIZE and any number of threads: the index computed by a modulo on
\* insertion and the offset reset by a comparison on removal fit together.
THEOREM BufferImplementsQueue == Spec => ImplementsQueue
<1>1. Init => Abstract!Init
  BY InitAbstract
<1>2. PCInv /\ PCInv' /\ [Next]_vars => [Abstract!Next]_(Abstract!vars)
  BY NextAbstract
<1> QED BY <1>1, <1>2, PCInvariant, PTL DEF Spec, ImplementsQueue, Abstract!Spec

------------------------------------------------------------------------------
(* Both buffers in one system: a behaviour of MCSpec is one of ProdCons.   *)

BP == INSTANCE ProdConsProofs WITH pc <- prodcons_pc

\* The threads, capacity and numbers of MCBuffers are those of the proofs.
LEMMA ThreadsAndCapacity == BP!ProdConsAssumption
  BY BuffersAssumption
     DEF B!ProdConsAssumption, BP!ProdConsAssumption, B!BufferAssumption,
         BP!BufferAssumption, B!IsFiniteSet, BP!IsFiniteSet

\* The buffer of chapters 30 and 31 starts as its own specification says.
LEMMA ProdConsStarts == ASSUME MCInit PROVE BP!Init
  BY DEF MCInit, B!Init, BP!Init, B!BufferInit, BP!BufferInit, B!Threads, BP!Threads,
         B!Again, BP!Again, B!Slots, BP!Slots

\* A step of the system is a step of that buffer, or leaves it alone.
LEMMA ProdConsStep == ASSUME [MCNext]_allVars PROVE [BP!Next]_(BP!vars)
<1>1. ASSUME NEW t, B!xfer(t) PROVE BP!xfer(t)
  BY <1>1 DEF B!xfer, BP!xfer, B!xput, BP!xput, B!xget, BP!xget, B!put, BP!put,
              B!get, BP!get, B!GotData, BP!GotData, B!Inc, BP!Inc
<1>2. ASSUME NEW t, B!busy(t) <=> BP!busy(t), B!prod_cons(t) PROVE BP!prod_cons(t)
  BY <1>1, <1>2
     DEF B!prod_cons, BP!prod_cons, B!WaitBusy, BP!WaitBusy, B!Transfer, BP!Transfer,
         B!Signal, BP!Signal, B!WaitOwn, BP!WaitOwn, B!Lock, BP!Lock,
         B!TransferLocked, BP!TransferLocked, B!Unlock, BP!Unlock,
         B!PostOther, BP!PostOther, B!SignalOne, BP!SignalOne, B!Waiting, BP!Waiting,
         B!Goto, BP!Goto, B!Again, BP!Again, B!bufferVars, BP!bufferVars,
         B!semaphores, BP!semaphores
<1>3. ASSUME NEW t PROVE B!busy(t) <=> BP!busy(t)
  BY DEF B!busy, BP!busy, B!full, BP!full, B!empt, BP!empt
<1>4. B!Next => BP!Next
  BY <1>2, <1>3
     DEF B!Next, BP!Next, B!Produce, BP!Produce, B!SpuriousWakeup, BP!SpuriousWakeup,
         B!WakeSpuriously, BP!WakeSpuriously, B!Threads, BP!Threads, B!Goto, BP!Goto,
         B!bufferVars, BP!bufferVars, B!semaphores, BP!semaphores
<1>5. UNCHANGED prodconsVars => UNCHANGED BP!vars
  BY DEF prodconsVars, BP!vars, BP!bufferVars, BP!semaphores
<1> QED BY <1>4, <1>5 DEF MCNext, allVars

\* The system is a buffer of chapters 30 and 31, whatever the other does.
LEMMA SystemIsProdCons == MCSpec => BP!Spec
  BY ProdConsStarts, ProdConsStep, PTL DEF MCSpec, BP!Spec

\* NoWakeupOrPermitLost says the same in both.
LEMMA SameNothingLost == ASSUME BP!NoWakeupOrPermitLost PROVE NoWakeupOrPermitLost
  BY DEF NoWakeupOrPermitLost, B!NoWakeupOrPermitLost, BP!NoWakeupOrPermitLost,
         B!NoLostWakeup, BP!NoLostWakeup, B!PermitsMatchBuffer, BP!PermitsMatchBuffer,
         B!Waiting, BP!Waiting, B!At, BP!At, B!full, BP!full, B!empt, BP!empt,
         B!Cardinality, BP!Cardinality

\* NoWakeupOrPermitLost, as the runs have it: the producers and consumers of
\* chapters 30 and 31 never all sleep, nor does a permit get lost, while
\* there is something to do.
THEOREM SystemLosesNothing == MCSpec => []NoWakeupOrPermitLost
  BY SystemIsProdCons, ThreadsAndCapacity, BP!NothingIsLost, SameNothingLost, PTL

\* The refinement mappings are the same, and so are the queues they map to.
LEMMA SameQueue ==
  /\ BP!Abstract!Init => B!Abstract!Init
  /\ [BP!Abstract!Next]_(BP!Abstract!vars) => [B!Abstract!Next]_(B!Abstract!vars)
<1>1. B!Contents = BP!Contents /\ B!Contents' = BP!Contents'
  BY DEF B!Contents, BP!Contents
<1>2. BP!Abstract!Init => B!Abstract!Init
  BY <1>1 DEF B!Abstract!Init, BP!Abstract!Init
<1>3. BP!Abstract!Next => B!Abstract!Next
  BY <1>1 DEF B!Abstract!Next, BP!Abstract!Next, B!Abstract!Put, BP!Abstract!Put,
              B!Abstract!Get, BP!Abstract!Get
<1>4. UNCHANGED BP!Abstract!vars => UNCHANGED B!Abstract!vars
  BY <1>1 DEF BP!Abstract!vars, B!Abstract!vars
<1> QED BY <1>2, <1>3, <1>4

\* ProdConsImplementsQueue, as the runs have it: the buffers of chapters 30
\* and 31 are bounded fifo queues.
THEOREM SystemImplementsQueue == MCSpec => ProdConsImplementsQueue
  BY SystemIsProdCons, ThreadsAndCapacity, BP!RingImplementsQueue, SameQueue, PTL
     DEF ProdConsImplementsQueue, B!ProdConsImplementsQueue,
         BP!ProdConsImplementsQueue,
         B!Abstract!Spec, BP!Abstract!Spec

\* The system is a buffer with a stop as well, whatever the chapters' do.
LEMMA SystemIsStopBuffer == MCSpec => Spec
<1>1. MCInit => Init
  BY DEF MCInit
<1>2. [MCNext]_allVars => [Next]_vars
  BY DEF MCNext, allVars
<1> QED BY <1>1, <1>2, PTL DEF MCSpec, Spec

\* The buffer with a stop, as the runs have it: its totals agree, no wakeup
\* is lost, the stop reaches everybody, and it is a fifo queue.
THEOREM SystemStopsRight ==
  MCSpec => [](TotalsAgree /\ NoLostWakeup /\ StopReachesAll) /\ ImplementsQueue
BY SystemIsStopBuffer, TotalsAgreeAlways, PCNoLostWakeup, StopReachesEverybody,
   BufferImplementsQueue, PTL
==============================================================================
