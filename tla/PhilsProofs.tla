------------------------------ MODULE PhilsProofs ------------------------------
(***************************************************************************)
(* Proofs about the dining philosophers, for every size, every number of   *)
(* cycles and every choice of who begins with the right stick.             *)
(***************************************************************************)
EXTENDS Phils, NaturalsInduction, WellFoundedInduction, TLAPS

------------------------------------------------------------------------------
(* The ring                                                                *)

LEMMA ModSmall == ASSUME NEW n \in Nat, n > 0, NEW k \in Nat, k < n PROVE k % n = k
  BY SMT

LEMMA ModSelf == ASSUME NEW n \in Nat, n > 0 PROVE n % n = 0
  BY SMT

\* The right stick is the next one, and not the left one.
LEMMA Ring ==
  ASSUME NEW i \in Ids
  PROVE  /\ Left(i) \in Ids /\ Right(i) \in Ids /\ Left(i) # Right(i)
         /\ First(i) \in Ids /\ Second(i) \in Ids /\ First(i) # Second(i)
         /\ {First(i), Second(i)} = {Left(i), Right(i)}
<1>1. Right(i) \in Ids /\ Right(i) # i
  <2>1. CASE i = size - 1
    BY <2>1, PhilsAssumption, ModSelf DEF Ids, Right
  <2>2. CASE i # size - 1
    <3>1. i + 1 \in Nat /\ i + 1 < size
      BY <2>2, PhilsAssumption DEF Ids
    <3> QED BY <2>2, <3>1, ModSmall, PhilsAssumption DEF Right, Ids
  <2> QED BY <2>1, <2>2
<1> QED BY <1>1 DEF Left, First, Second

------------------------------------------------------------------------------
(* What a step of one philosopher does to the sticks                       *)

\* The others hold what they held.
LEMMA OthersHold ==
  ASSUME NEW i \in Ids, NEW j \in Ids, j # i, NEW s \in Ids,
         TypeOK, swapped' = swapped, NEW p, pc' = [pc EXCEPT ![i] = p]
  PROVE  Holds(j, s)' <=> Holds(j, s)
<1>1. pc'[j] = pc[j]
  BY DEF TypeOK
<1>2. First(j)' = First(j)
  BY DEF First, Left, Right
<1> QED BY <1>1, <1>2 DEF Holds, Left, Right

\* Taking a stick that is on the table.
LEMMA StickTaken ==
  ASSUME TypeOK, SticksInv, NEW i \in Ids, NEW s \in Ids, stick[s] > 0,
         stick' = [stick EXCEPT ![s] = @ - 1],
         \A j \in Ids \ {i} : \A t \in Ids : Holds(j, t)' <=> Holds(j, t),
         \A t \in Ids : Holds(i, t)' <=> Holds(i, t) \/ t = s
  PROVE  stick' \in [Ids -> {0, 1}] /\ SticksInv'
<1>1. stick[s] = 1 /\ \A j \in Ids : ~Holds(j, s)
  BY DEF TypeOK, SticksInv
<1>2. stick' = [stick EXCEPT ![s] = 0]
  BY <1>1
<1>3. stick' \in [Ids -> {0, 1}]
  BY <1>2 DEF TypeOK
<1>4. SUFFICES ASSUME NEW t \in Ids
               PROVE  /\ stick'[t] = 1 <=> \A j \in Ids : ~Holds(j, t)'
                      /\ \A j, k \in Ids : Holds(j, t)' /\ Holds(k, t)' => j = k
  BY <1>3, <1>4 DEF SticksInv
<1>5. CASE t = s
  <2>1. stick'[t] = 0 /\ Holds(i, t)'
    BY <1>2, <1>5 DEF TypeOK
  <2>2. \A j \in Ids \ {i} : ~Holds(j, t)'
    BY <1>1, <1>5
  <2> QED BY <2>1, <2>2
<1>6. CASE t # s
  <2>1. stick'[t] = stick[t]
    BY <1>2, <1>6 DEF TypeOK
  <2>2. \A j \in Ids : Holds(j, t)' <=> Holds(j, t)
    BY <1>6
  <2> QED BY <2>1, <2>2 DEF SticksInv
<1> QED BY <1>5, <1>6

\* Giving back a stick in hand.
LEMMA StickDropped ==
  ASSUME TypeOK, SticksInv, NEW i \in Ids, NEW s \in Ids, Holds(i, s),
         stick' = [stick EXCEPT ![s] = @ + 1],
         \A j \in Ids \ {i} : \A t \in Ids : Holds(j, t)' <=> Holds(j, t),
         \A t \in Ids : Holds(i, t)' <=> Holds(i, t) /\ t # s
  PROVE  stick' \in [Ids -> {0, 1}] /\ SticksInv'
<1>1. stick[s] = 0 /\ \A j \in Ids \ {i} : ~Holds(j, s)
  BY DEF TypeOK, SticksInv
<1>2. stick' = [stick EXCEPT ![s] = 1]
  BY <1>1
<1>3. stick' \in [Ids -> {0, 1}]
  BY <1>2 DEF TypeOK
<1>4. SUFFICES ASSUME NEW t \in Ids
               PROVE  /\ stick'[t] = 1 <=> \A j \in Ids : ~Holds(j, t)'
                      /\ \A j, k \in Ids : Holds(j, t)' /\ Holds(k, t)' => j = k
  BY <1>3, <1>4 DEF SticksInv
<1>5. CASE t = s
  <2>1. stick'[t] = 1 /\ ~Holds(i, t)'
    BY <1>2, <1>5 DEF TypeOK
  <2>2. \A j \in Ids \ {i} : ~Holds(j, t)'
    BY <1>1, <1>5
  <2> QED BY <2>1, <2>2
<1>6. CASE t # s
  <2>1. stick'[t] = stick[t]
    BY <1>2, <1>6 DEF TypeOK
  <2>2. \A j \in Ids : Holds(j, t)' <=> Holds(j, t)
    BY <1>6
  <2> QED BY <2>1, <2>2 DEF SticksInv
<1> QED BY <1>5, <1>6

\* Steps that touch no stick.
LEMMA SticksKept ==
  ASSUME SticksInv, stick' = stick,
         \A j \in Ids : \A t \in Ids : Holds(j, t)' <=> Holds(j, t)
  PROVE  SticksInv'
BY DEF SticksInv

------------------------------------------------------------------------------
(* The inductive invariant                                                 *)

LEMMA InitPhilsInv == Init => PhilsInv
<1> SUFFICES ASSUME Init PROVE PhilsInv
  OBVIOUS
<1>1. TypeOK
  BY PhilsAssumption DEF Init, TypeOK
<1>2. SticksInv
  BY DEF Init, SticksInv, Holds, Eating
<1>3. StateInv /\ OutputInv /\ LeftInv
  BY PhilsAssumption DEF Init, StateInv, OutputInv, LeftInv, Done
<1> QED BY <1>1, <1>2, <1>3 DEF PhilsInv

LEMMA NextPhilsInv == PhilsInv /\ [Next]_vars => PhilsInv'
<1> SUFFICES ASSUME PhilsInv, [Next]_vars PROVE PhilsInv'
  OBVIOUS
<1> USE DEF PhilsInv
<1>1. ASSUME NEW i \in Ids, TakeFirst(i) PROVE PhilsInv'
  <2>1. /\ pc[i] = "first" /\ pc' = [pc EXCEPT ![i] = "second"] /\ swapped' = swapped
        /\ stick[First(i)] > 0 /\ stick' = [stick EXCEPT ![First(i)] = @ - 1]
    BY <1>1 DEF TakeFirst, Goto, Take
  <2>2. \A j \in Ids \ {i} : \A t \in Ids : Holds(j, t)' <=> Holds(j, t)
    BY <2>1, OthersHold
  <2>3. \A t \in Ids : Holds(i, t)' <=> Holds(i, t) \/ t = First(i)
    BY <2>1 DEF Holds, Eating, First, Left, Right, TypeOK
  <2>4. stick' \in [Ids -> {0, 1}] /\ SticksInv'
    BY <2>1, <2>2, <2>3, Ring, StickTaken
  <2>5. TypeOK'
    BY <1>1, <2>1, <2>4 DEF TakeFirst, TypeOK
  <2>6. StateInv' /\ OutputInv' /\ LeftInv'
    BY <1>1, <2>1 DEF TakeFirst, TypeOK, StateInv, OutputInv, LeftInv, Done
  <2> QED BY <2>4, <2>5, <2>6
<1>2. ASSUME NEW i \in Ids, TakeSecond(i) PROVE PhilsInv'
  <2>1. /\ pc[i] = "second" /\ pc' = [pc EXCEPT ![i] = "munch"] /\ swapped' = swapped
        /\ stick[Second(i)] > 0 /\ stick' = [stick EXCEPT ![Second(i)] = @ - 1]
    BY <1>2 DEF TakeSecond, Goto, Take
  <2>2. \A j \in Ids \ {i} : \A t \in Ids : Holds(j, t)' <=> Holds(j, t)
    BY <2>1, OthersHold
  <2>3. \A t \in Ids : Holds(i, t)' <=> Holds(i, t) \/ t = Second(i)
    BY <2>1 DEF Holds, Eating, First, Second, Left, Right, TypeOK
  <2>4. stick' \in [Ids -> {0, 1}] /\ SticksInv'
    BY <2>1, <2>2, <2>3, Ring, StickTaken
  <2>5. TypeOK'
    BY <1>2, <2>1, <2>4 DEF TakeSecond, TypeOK, Eating
  <2>6. StateInv' /\ OutputInv' /\ LeftInv'
    BY <1>2, <2>1 DEF TakeSecond, TypeOK, StateInv, OutputInv, LeftInv, Done
  <2> QED BY <2>4, <2>5, <2>6
<1>3. ASSUME NEW i \in Ids, Munch(i) PROVE PhilsInv'
  <2>1. pc[i] = "munch" /\ pc' = [pc EXCEPT ![i] = "print_munch"] /\ swapped' = swapped
    BY <1>3 DEF Munch, Goto
  <2>2. \A j \in Ids : \A t \in Ids : Holds(j, t)' <=> Holds(j, t)
    <3>1. \A t \in Ids : Holds(i, t)' <=> Holds(i, t)
      BY <2>1 DEF Holds, Eating, First, Left, Right, TypeOK
    <3> QED BY <2>1, <3>1, OthersHold
  <2>3. SticksInv'
    BY <1>3, <2>2, SticksKept DEF Munch
  <2>4. TypeOK'
    BY <1>3, <2>1 DEF Munch, TypeOK, Eating
  <2>5. StateInv' /\ OutputInv' /\ LeftInv'
    BY <1>3, <2>1 DEF Munch, TypeOK, StateInv, OutputInv, LeftInv, Done
  <2> QED BY <2>3, <2>4, <2>5
<1>4. ASSUME NEW i \in Ids, DropLeft(i) PROVE PhilsInv'
  <2>1. /\ pc[i] = "drop_left" /\ pc' = [pc EXCEPT ![i] = "drop_right"] /\ swapped' = swapped
        /\ stick' = [stick EXCEPT ![Left(i)] = @ + 1]
    BY <1>4 DEF DropLeft, Goto, Drop
  <2>2. \A j \in Ids \ {i} : \A t \in Ids : Holds(j, t)' <=> Holds(j, t)
    BY <2>1, OthersHold
  <2>3. Holds(i, Left(i)) /\ \A t \in Ids : Holds(i, t)' <=> Holds(i, t) /\ t # Left(i)
    <3>1. Left(i) # Right(i)
      BY Ring
    <3> QED BY <2>1, <3>1 DEF Holds, Eating, Left, Right, TypeOK
  <2>4. stick' \in [Ids -> {0, 1}] /\ SticksInv'
    BY <2>1, <2>2, <2>3, Ring, StickDropped
  <2>5. TypeOK'
    BY <1>4, <2>1, <2>4 DEF DropLeft, TypeOK
  <2>6. StateInv' /\ OutputInv' /\ LeftInv'
    BY <1>4, <2>1 DEF DropLeft, TypeOK, StateInv, OutputInv, LeftInv, Done
  <2> QED BY <2>4, <2>5, <2>6
<1>5. ASSUME NEW i \in Ids, DropRight(i) PROVE PhilsInv'
  <2>1. /\ pc[i] = "drop_right" /\ pc' = [pc EXCEPT ![i] = "think"] /\ swapped' = swapped
        /\ stick' = [stick EXCEPT ![Right(i)] = @ + 1]
    BY <1>5 DEF DropRight, Goto, Drop
  <2>2. \A j \in Ids \ {i} : \A t \in Ids : Holds(j, t)' <=> Holds(j, t)
    BY <2>1, OthersHold
  <2>3. Holds(i, Right(i)) /\ \A t \in Ids : Holds(i, t)' <=> Holds(i, t) /\ t # Right(i)
    BY <2>1 DEF Holds, Eating, Left, Right, TypeOK
  <2>4. stick' \in [Ids -> {0, 1}] /\ SticksInv'
    BY <2>1, <2>2, <2>3, Ring, StickDropped
  <2>5. TypeOK'
    BY <1>5, <2>1, <2>4 DEF DropRight, TypeOK
  <2>6. StateInv' /\ OutputInv' /\ LeftInv'
    BY <1>5, <2>1 DEF DropRight, TypeOK, StateInv, OutputInv, LeftInv, Done
  <2> QED BY <2>4, <2>5, <2>6
<1>6. ASSUME NEW i \in Ids, Think(i) PROVE PhilsInv'
  <2>1. pc[i] = "think" /\ pc' = [pc EXCEPT ![i] = "print_think"] /\ swapped' = swapped
    BY <1>6 DEF Think, Goto
  <2>2. \A j \in Ids : \A t \in Ids : Holds(j, t)' <=> Holds(j, t)
    <3>1. \A t \in Ids : Holds(i, t)' <=> Holds(i, t)
      BY <2>1 DEF Holds, Eating, TypeOK
    <3> QED BY <2>1, <3>1, OthersHold
  <2>3. SticksInv'
    BY <1>6, <2>2, SticksKept DEF Think
  <2>4. TypeOK'
    BY <1>6, <2>1 DEF Think, TypeOK
  <2>5. StateInv' /\ OutputInv' /\ LeftInv'
    BY <1>6, <2>1 DEF Think, TypeOK, StateInv, OutputInv, LeftInv, Done
  <2> QED BY <2>3, <2>4, <2>5
<1>7. ASSUME NEW i \in Ids, WaitOutput(i) PROVE PhilsInv'
  <2>1. /\ \/ pc[i] = "print_munch" /\ pc' = [pc EXCEPT ![i] = "printing_munch"]
           \/ pc[i] = "print_think" /\ pc' = [pc EXCEPT ![i] = "printing_think"]
        /\ swapped' = swapped /\ output = 1 /\ output' = 0
    BY <1>7 DEF WaitOutput, Goto, TypeOK
  <2>2. \A j \in Ids : \A t \in Ids : Holds(j, t)' <=> Holds(j, t)
    <3>1. \A t \in Ids : Holds(i, t)' <=> Holds(i, t)
      BY <2>1 DEF Holds, Eating, Left, Right, TypeOK
    <3> QED BY <2>1, <3>1, OthersHold
  <2>3. SticksInv'
    BY <1>7, <2>2, SticksKept DEF WaitOutput
  <2>4. TypeOK'
    BY <1>7, <2>1 DEF WaitOutput, TypeOK, Eating
  <2>5. StateInv' /\ OutputInv' /\ LeftInv'
    BY <1>7, <2>1 DEF WaitOutput, TypeOK, StateInv, OutputInv, LeftInv, Done
  <2> QED BY <2>3, <2>4, <2>5
<1>8. ASSUME NEW i \in Ids, PostOutput(i) PROVE PhilsInv'
  <2>1. /\ \/ /\ pc[i] = "printing_munch" /\ pc' = [pc EXCEPT ![i] = "drop_left"]
              /\ left' = left
           \/ /\ pc[i] = "printing_think"
              /\ pc' = [pc EXCEPT ![i] = IF left[i] = 1 THEN "done" ELSE "first"]
              /\ left' = [left EXCEPT ![i] = @ - 1]
        /\ swapped' = swapped /\ output = 0 /\ output' = 1
    BY <1>8 DEF PostOutput, Goto, TypeOK, OutputInv
  <2>2. \A j \in Ids : \A t \in Ids : Holds(j, t)' <=> Holds(j, t)
    <3>1. \A t \in Ids : Holds(i, t)' <=> Holds(i, t)
      BY <2>1 DEF Holds, Eating, Left, Right, TypeOK
    <3> QED BY <2>1, <3>1, OthersHold
  <2>3. SticksInv'
    BY <1>8, <2>2, SticksKept DEF PostOutput
  <2>4. left[i] \in 1..cycles
    BY <2>1, PhilsAssumption DEF TypeOK, LeftInv, Done
  <2>5. TypeOK'
    BY <1>8, <2>1, <2>4, PhilsAssumption DEF PostOutput, TypeOK, Eating
  <2>6. StateInv' /\ OutputInv'
    BY <1>8, <2>1 DEF PostOutput, TypeOK, StateInv, OutputInv
  <2>7. LeftInv'
    BY <2>1, <2>4, PhilsAssumption DEF TypeOK, LeftInv, Done
  <2> QED BY <2>3, <2>5, <2>6, <2>7
<1>9. CASE UNCHANGED vars
  BY <1>9 DEF vars, TypeOK, SticksInv, StateInv, OutputInv, LeftInv, Holds, Eating,
              First, Left, Right, Done
<1> QED BY <1>1, <1>2, <1>3, <1>4, <1>5, <1>6, <1>7, <1>8, <1>9 DEF Next, Be, Joined

\* The inductive invariant holds at every table.
THEOREM PhilsInvariant == Spec => []PhilsInv
BY InitPhilsInv, NextPhilsInv, PTL DEF Spec

------------------------------------------------------------------------------
\* Type correctness: the semaphores are binary, and a philosopher never counts
\* below 0.
THEOREM PhilsTypeCorrect == Spec => []TypeOK
<1>1. PhilsInv => TypeOK
  BY DEF PhilsInv
<1> QED BY <1>1, PhilsInvariant, PTL

\* Neighbours never munch together, at a table of any size and whoever begins
\* with which stick: they would both hold the stick between them.
THEOREM NeighboursEatApart == Spec => []NeighboursApart
<1>1. PhilsInv => NeighboursApart
  <2> SUFFICES ASSUME PhilsInv, NEW i \in Ids
               PROVE  /\ ~(pc[i] \in Eating /\ pc[Right(i)] \in Eating)
                      /\ state[i] = "Munch" /\ state[Right(i)] = "Munch" =>
                           \/ pc[i] \in {"drop_right", "think"}
                           \/ pc[Right(i)] \in {"drop_right", "think"}
    BY DEF NeighboursApart
  <2>1. Right(i) \in Ids /\ Right(i) # i
    BY Ring DEF Left
  <2>2. ~(pc[i] \in Eating /\ pc[Right(i)] \in Eating)
    <3> SUFFICES ASSUME pc[i] \in Eating, pc[Right(i)] \in Eating PROVE FALSE
      OBVIOUS
    <3>1. Holds(i, Right(i)) /\ Holds(Right(i), Right(i))
      BY DEF Holds, Left
    <3> QED BY <2>1, <3>1 DEF PhilsInv, SticksInv
  <2>3. \A j \in Ids : state[j] = "Munch" => pc[j] \in Eating \cup {"drop_right", "think"}
    BY DEF PhilsInv, StateInv, Eating
  <2> QED BY <2>1, <2>2, <2>3
<1> QED BY <1>1, PhilsInvariant, PTL

------------------------------------------------------------------------------
(* Who can block the table                                                 *)

\* A set of natural numbers that is not empty has a least element.
LEMMA Least ==
  ASSUME NEW T, T \subseteq Nat, T # {}
  PROVE  \E x \in T : \A y \in T : x <= y
<1>1. PICK x \in T : \A y \in T : <<y, x>> \notin OpToRel(<, Nat)
  BY NatLessThanWellFounded, WFMin, Zenon
<1>2. \A y \in T : ~(y < x)
  BY <1>1 DEF OpToRel
<1> QED BY <1>2

\* Two philosophers have different right neighbours.
LEMMA RightIsOne ==
  ASSUME NEW i \in Ids, NEW j \in Ids, Right(i) = Right(j)
  PROVE  i = j
<1>1. Right(size - 1) = 0 /\ \A k \in Ids \ {size - 1} : Right(k) = k + 1
  <2>1. \A k \in Ids \ {size - 1} : k + 1 \in Nat /\ k + 1 < size
    BY PhilsAssumption DEF Ids
  <2>2. \A k \in Ids \ {size - 1} : (k + 1) % size = k + 1
    BY <2>1, PhilsAssumption
  <2>3. size % size = 0 /\ size - 1 + 1 = size
    BY PhilsAssumption
  <2> QED BY <2>2, <2>3 DEF Right
<1> QED BY <1>1, PhilsAssumption DEF Ids

\* Whoever goes to the right again and again comes by the whole table.
LEMMA RoundTheTable ==
  ASSUME NEW S, S \subseteq Ids, S # {}, \A i \in S : Right(i) \in S
  PROVE  S = Ids
<1>1. Right(size - 1) = 0 /\ \A i \in Ids \ {size - 1} : Right(i) = i + 1
  <2>1. \A i \in Ids \ {size - 1} : i + 1 \in Nat /\ i + 1 < size
    BY PhilsAssumption DEF Ids
  <2>2. \A i \in Ids \ {size - 1} : (i + 1) % size = i + 1
    BY <2>1, PhilsAssumption
  <2>3. size % size = 0 /\ size - 1 + 1 = size
    BY PhilsAssumption
  <2> QED BY <2>2, <2>3 DEF Right
\* The last one of S is the last one at the table.
<1>2. size - 1 \in S
  <2> DEFINE T == {n \in Nat : size - 1 - n \in S}
  <2>1. T # {}
    <3>1. PICK i \in S : TRUE
      OBVIOUS
    <3>2. size - 1 - i \in Nat /\ size - 1 - (size - 1 - i) = i
      BY <3>1, PhilsAssumption DEF Ids
    <3> QED BY <3>1, <3>2
  <2>2. PICK n \in T : \A k \in T : n <= k
    BY <2>1, Least
  <2>3. n = 0
    <3> SUFFICES ASSUME n # 0 PROVE FALSE
      OBVIOUS
    <3>1. size - 1 - n \in S /\ size - 1 - n \in Ids \ {size - 1}
      BY PhilsAssumption DEF Ids
    <3>2. Right(size - 1 - n) = size - 1 - (n - 1) /\ n - 1 \in Nat
      BY <3>1, <1>1, PhilsAssumption
    <3>3. n - 1 \in T
      BY <3>1, <3>2
    <3> QED BY <3>3, <2>2
  <2> QED BY <2>3, PhilsAssumption
\* And nobody is the first one who is missing.
<1>3. SUFFICES ASSUME Ids \ S # {} PROVE FALSE
  OBVIOUS
<1>4. PICK m \in Ids \ S : \A k \in Ids \ S : m <= k
  <2>1. Ids \ S \subseteq Nat
    BY DEF Ids
  <2> QED BY <1>3, <2>1, Least, Zenon
<1>5. m # 0
  BY <1>1, <1>2
<1>6. m - 1 \in Ids \ {size - 1} /\ m - 1 + 1 = m
  BY <1>5, PhilsAssumption DEF Ids
<1>7. m - 1 \in S
  BY <1>4, <1>6 DEF Ids
<1> QED BY <1>1, <1>4, <1>6, <1>7

\* Once around the table to the left.
LEMMA LeftRoundTheTable ==
  ASSUME NEW S, S \subseteq Ids, S # {}, \A i \in Ids : Right(i) \in S => i \in S
  PROVE  S = Ids
<1> SUFFICES ASSUME Ids \ S # {} PROVE FALSE
  OBVIOUS
<1>1. \A i \in Ids \ S : Right(i) \in Ids \ S
  BY Ring
<1>2. Ids \ S \subseteq Ids
  OBVIOUS
<1>3. Ids \ S = Ids
  BY <1>1, <1>2, RoundTheTable, Zenon
<1> QED BY <1>3

\* Those who have finished and those who wait at a stick that they do not get
\* hold no stick: so if nobody can go on, somebody waits for a second stick,
\* which is the first one of its neighbour, who therefore does the same.
LEMMA CircleOnly == PhilsInv => OnlyTheCircleBlocks
<1> SUFFICES ASSUME PhilsInv, Stuck
             PROVE  (\A i \in Ids : pc[i] = "second") /\ swapped \in {{}, Ids}
  BY DEF OnlyTheCircleBlocks
<1>1. /\ stick \in [Ids -> {0, 1}] /\ output \in {0, 1} /\ swapped \in SUBSET Ids
      /\ \A s \in Ids : stick[s] = 0 => \E i \in Ids : Holds(i, s)
      /\ \A i, j, s \in Ids : Holds(i, s) /\ Holds(j, s) => i = j
  BY PhilsAssumption DEF PhilsInv, TypeOK, SticksInv, Ids
\* Who prints goes on, so that the output is free.
<1>2. \A i \in Ids : pc[i] \in {"first", "second", "done"}
  <2>1. \A i \in Ids : pc[i] \notin {"printing_munch", "printing_think"}
    BY DEF Stuck, Waits, Done
  <2>2. output = 1
    BY <2>1 DEF PhilsInv, OutputInv
  <2> QED BY <2>2 DEF Stuck, Waits, Done
<1>3. \A i, s \in Ids : Holds(i, s) => pc[i] = "second" /\ s = First(i)
  BY <1>2 DEF Holds, Eating
\* A stick somebody waits for is somebody's first one.
<1>4. \A i \in Ids : pc[i] = "first" => \E j \in Ids : pc[j] = "second"
  BY <1>1, <1>3, Ring DEF Stuck, Waits, Done
<1>5. PICK p \in Ids : pc[p] = "second"
  BY <1>2, <1>4 DEF Stuck, Done
<1>6. ASSUME NEW i \in Ids, pc[i] = "second"
      PROVE  \E j \in Ids \ {i} : pc[j] = "second" /\ First(j) = Second(i)
  <2>1. stick[Second(i)] = 0 /\ Second(i) \in Ids /\ First(i) # Second(i)
    BY <1>6, Ring DEF Stuck, Waits, Done
  <2>2. PICK j \in Ids : Holds(j, Second(i))
    BY <1>1, <2>1
  <2>3. pc[j] = "second" /\ Second(i) = First(j)
    BY <1>3, <2>1, <2>2
  <2> QED BY <2>1, <2>3
<1> DEFINE Rights == {i \in Ids : pc[i] = "second" /\ i \in swapped}
           Lefts == {i \in Ids : pc[i] = "second" /\ i \notin swapped}
\* The one who holds the right stick of somebody began with it as its left
\* one, and sits to the right.
<1>7. \A i \in Lefts : Right(i) \in Lefts
  <2> SUFFICES ASSUME NEW i \in Lefts PROVE Right(i) \in Lefts
    OBVIOUS
  <2>1. PICK j \in Ids \ {i} : pc[j] = "second" /\ First(j) = Right(i)
    BY <1>6 DEF Second
  <2>2. j \notin swapped
    <3> SUFFICES ASSUME j \in swapped PROVE FALSE
      OBVIOUS
    <3>1. Right(j) = Right(i)
      BY <2>1 DEF First
    <3> QED BY <2>1, <3>1, RightIsOne
  <2> QED BY <2>1, <2>2 DEF First, Left
<1>8. \A i \in Rights : \E j \in Rights : Right(j) = i
  <2> SUFFICES ASSUME NEW i \in Rights PROVE \E j \in Rights : Right(j) = i
    OBVIOUS
  <2>1. PICK j \in Ids \ {i} : pc[j] = "second" /\ First(j) = i
    BY <1>6 DEF Second, Left
  <2>2. j \in swapped /\ Right(j) = i
    BY <2>1 DEF First, Left
  <2> QED BY <2>1, <2>2
<1>9. CASE p \in swapped
  <2>1. \A i \in Ids : Right(i) \in Rights => i \in Rights
    BY <1>8, RightIsOne
  <2>2. Rights = Ids
    BY <1>5, <1>9, <2>1, LeftRoundTheTable
  <2> QED BY <1>1, <2>2
<1>10. CASE p \notin swapped
  <2>1. Lefts = Ids
    BY <1>5, <1>7, <1>10, RoundTheTable
  <2> QED BY <1>1, <2>1
<1> QED BY <1>9, <1>10

\* A table stops only when everybody has a first stick and all began on the
\* same side, for any number of philosophers, of cycles, and whoever begins
\* with the right stick: one who begins on the other side is enough.
THEOREM OnlyTheCircleBlocksAlways == Spec => []OnlyTheCircleBlocks
BY PhilsInvariant, CircleOnly, PTL
==============================================================================
