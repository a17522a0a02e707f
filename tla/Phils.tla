--------------------------------- MODULE Phils ---------------------------------
(***************************************************************************)
(* The dining philosophers of chapter 31: a ring of philosopher threads    *)
(* with a chopstick semaphore between neighbours and a semaphore around    *)
(* the printing of the table.                                              *)
(*                                                                         *)
(* sem_wait and sem_post are atomic, as Semaphore and POSIX promise.  The  *)
(* text that is printed is left out.                                       *)
(***************************************************************************)
EXTENDS Integers

CONSTANTS
  size,     \* philosophers and sticks
  cycles,   \* iterations of each philosopher
  Orders    \* the sets of philosophers who take the right stick first: {{}},
            \* or with {0} if the code at the ends of lines 50 and 51, which
            \* is commented out, is considered as well

ASSUME PhilsAssumption ==
  /\ size \in Nat /\ size >= 2
  /\ cycles \in Nat \ {0}
  /\ Orders \subseteq SUBSET (0..(size - 1))

VARIABLES
  swapped, \* who takes the right stick first
  state,   \* phils[i].state
  stick,   \* the values of the chopstick semaphores
  output,  \* the value of the semaphore output
  left,    \* the loop variable of each philosopher
  pc

vars == <<swapped, state, stick, output, left, pc>>

Ids == 0..(size - 1)

\* phils[i].sticks[0] and phils[i].sticks[1].
Left(i) == i
Right(i) == (i + 1) % size

\* Mutant: everybody takes the left stick first.
AlwaysLeft(i) == Left(i)

\* The stick a philosopher waits for first, and the other one.
First(i) == IF i \in swapped THEN Right(i) ELSE Left(i)
Second(i) == IF i \in swapped THEN Left(i) ELSE Right(i)

Goto(i, from, to) == pc[i] = from /\ pc' = [pc EXCEPT ![i] = to]

Take(s) == stick[s] > 0 /\ stick' = [stick EXCEPT ![s] = @ - 1]

Drop(s) == stick' = [stick EXCEPT ![s] = @ + 1]

------------------------------------------------------------------------------
TakeFirst(i) ==
  /\ Goto(i, "first", "second")
  /\ Take(First(i))
  /\ UNCHANGED <<swapped, state, output, left>>

\* Mutant: a philosopher takes the first stick again.
TakeFirstAgain(i) ==
  /\ Goto(i, "second", "munch")
  /\ stick' = [stick EXCEPT ![First(i)] = 0]
  /\ UNCHANGED <<swapped, state, output, left>>

TakeSecond(i) ==
  /\ Goto(i, "second", "munch")
  /\ Take(Second(i))
  /\ UNCHANGED <<swapped, state, output, left>>

Munch(i) ==
  /\ Goto(i, "munch", "print_munch")
  /\ state' = [state EXCEPT ![i] = "Munch"]
  /\ UNCHANGED <<swapped, stick, output, left>>

DropLeft(i) ==
  /\ Goto(i, "drop_left", "drop_right")
  /\ Drop(Left(i))
  /\ UNCHANGED <<swapped, state, output, left>>

DropRight(i) ==
  /\ Goto(i, "drop_right", "think")
  /\ Drop(Right(i))
  /\ UNCHANGED <<swapped, state, output, left>>

\* Only now, when the sticks are back.
Think(i) ==
  /\ Goto(i, "think", "print_think")
  /\ state' = [state EXCEPT ![i] = "Think"]
  /\ UNCHANGED <<swapped, stick, output, left>>

------------------------------------------------------------------------------
(* print, called while munching and while thinking                         *)

WaitOutput(i) ==
  /\ \/ Goto(i, "print_munch", "printing_munch")
     \/ Goto(i, "print_think", "printing_think")
  /\ output > 0
  /\ output' = output - 1
  /\ UNCHANGED <<swapped, state, stick, left>>

\* Mutant: print leaves without its post.
KeepOutput(i) ==
  /\ \/ Goto(i, "printing_munch", "drop_left") /\ UNCHANGED left
     \/ /\ Goto(i, "printing_think", IF left[i] = 1 THEN "done" ELSE "first")
        /\ left' = [left EXCEPT ![i] = @ - 1]
  /\ UNCHANGED <<swapped, state, stick, output>>

\* The post at the end of print, and i-- after the second call.
PostOutput(i) ==
  /\ \/ Goto(i, "printing_munch", "drop_left") /\ UNCHANGED left
     \/ /\ Goto(i, "printing_think", IF left[i] = 1 THEN "done" ELSE "first")
        /\ left' = [left EXCEPT ![i] = @ - 1]
  /\ output' = output + 1
  /\ UNCHANGED <<swapped, state, stick>>

Done(i) == pc[i] = "done"

\* main's joins return, and the program ends.
Joined == (\A i \in Ids : Done(i)) /\ UNCHANGED vars

------------------------------------------------------------------------------
Init ==
  /\ swapped \in Orders
  /\ state = [i \in Ids |-> "Think"]
  /\ stick = [i \in Ids |-> 1]
  /\ output = 1
  /\ left = [i \in Ids |-> cycles]
  /\ pc = [i \in Ids |-> "first"]

Be(i) ==
  \/ TakeFirst(i) \/ TakeSecond(i) \/ Munch(i) \/ DropLeft(i) \/ DropRight(i)
  \/ Think(i) \/ WaitOutput(i) \/ PostOutput(i)

Next == (\E i \in Ids : Be(i)) \/ Joined

Spec == Init /\ [][Next]_vars

\* Every philosopher that can take a step takes one.
FairSpec == Spec /\ \A i \in Ids : WF_vars(Be(i))

------------------------------------------------------------------------------
\* Where a philosopher has both sticks.
Eating == {"munch", "print_munch", "printing_munch", "drop_left"}

Holds(i, s) ==
  \/ pc[i] = "second" /\ s = First(i)
  \/ pc[i] \in Eating /\ s \in {Left(i), Right(i)}
  \/ pc[i] = "drop_right" /\ s = Right(i)

TypeOK ==
  /\ swapped \in Orders
  /\ state \in [Ids -> {"Think", "Munch"}]
  /\ stick \in [Ids -> {0, 1}]
  /\ output \in {0, 1}
  /\ left \in [Ids -> 0..cycles]
  /\ pc \in [Ids -> Eating \cup {"first", "second", "drop_right", "think",
                                 "print_think", "printing_think", "done"}]

\* Neighbours do not munch together, except that a philosopher may still be
\* shown as munching after it has given up a stick: the state is set to Think
\* after the posts.
NeighboursApart ==
  \A i \in Ids :
    /\ ~(pc[i] \in Eating /\ pc[Right(i)] \in Eating)
    /\ state[i] = "Munch" /\ state[Right(i)] = "Munch" =>
         pc[i] \in {"drop_right", "think"} \/ pc[Right(i)] \in {"drop_right", "think"}

\* A philosopher that cannot go on: it is in a sem_wait, and the semaphore
\* is 0.
Waits(i) ==
  \/ pc[i] = "first" /\ stick[First(i)] = 0
  \/ pc[i] = "second" /\ stick[Second(i)] = 0
  \/ pc[i] \in {"print_munch", "print_think"} /\ output = 0

Stuck == (\A i \in Ids : Waits(i) \/ Done(i)) /\ \E i \in Ids : ~Done(i)

\* If the table gets stuck it is because everyone holds one stick and waits
\* for the other, and all began on the same side: neither the output
\* semaphore, held with both sticks in hand, nor a philosopher who has
\* finished ever blocks the rest, and one that begins on the other side is
\* enough to keep the table going.
OnlyTheCircleBlocks ==
  Stuck => (\A i \in Ids : pc[i] = "second") /\ swapped \in {{}, Ids}

\* cycles counts the "think/munch iterations per phil": each of them does
\* them all.
EverybodyDines == <>(\A i \in Ids : Done(i))

\* They do if one or more, but not all, begin with the right stick.
SwappedDine == swapped \notin {{}, Ids} => EverybodyDines

------------------------------------------------------------------------------
(* The inductive invariant of the proofs in PhilsProofs                    *)

\* A stick is on the table exactly while nobody holds it, and two never hold
\* the same one.
SticksInv ==
  \A s \in Ids :
    /\ stick[s] = 1 <=> \A i \in Ids : ~Holds(i, s)
    /\ \A i, j \in Ids : Holds(i, s) /\ Holds(j, s) => i = j

\* state follows the program counter.
StateInv ==
  \A i \in Ids : state[i] = "Munch" <=>
    pc[i] \in {"print_munch", "printing_munch", "drop_left", "drop_right", "think"}

\* output is 0 exactly while somebody prints.
OutputInv ==
  /\ output = 1 <=> \A i \in Ids : pc[i] \notin {"printing_munch", "printing_think"}
  /\ \A i, j \in Ids :
       /\ pc[i] \in {"printing_munch", "printing_think"}
       /\ pc[j] \in {"printing_munch", "printing_think"}
       => i = j

\* A philosopher in its loop has iterations left.
LeftInv == \A i \in Ids : left[i] = 0 <=> Done(i)

PhilsInv == TypeOK /\ SticksInv /\ StateInv /\ OutputInv /\ LeftInv
==============================================================================
