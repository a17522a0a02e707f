------------------------------ MODULE CopyThreads ------------------------------
(***************************************************************************)
(* A file is copied by a thread that reads it and a thread that writes the *)
(* copy: with one buffer and semaphores (threads-sem-cp.c), with two       *)
(* buffers and semaphores (threads-dbl-buf.c), and with one buffer and a   *)
(* plain flag (threads-cp.c).  The main thread joins both and exits.       *)
(*                                                                         *)
(* A file is a sequence of blocks.  read and write may fail, and write may *)
(* write a part of the block only: the rest of it is then lost.            *)
(***************************************************************************)
EXTENDS Integers, Sequences

CONSTANTS
  Programs,    \* the programs under study: "sem", "dbl" or "flag"
  FileBlocks   \* the blocks of the source file

ASSUME CopyAssumption ==
  /\ Programs \subseteq {"sem", "dbl", "flag"}
  /\ FileBlocks \in Nat

VARIABLES
  program,   \* the program that runs
  turn,      \* the values of readers_turn and writers_turn, for each buffer
  flag,      \* threads-cp.c: READ or WRITE, as the thread whose turn it is
  buf,       \* the block in each buffer
  in,        \* what the last read into each buffer returned: a block, 0 or -1
  out,       \* what the last write returned: the block, a part of it, 0 or -1
  src,       \* the blocks read so far, the offset in the file
  dst,       \* the blocks of the copy, each with whether it is whole
  slot,      \* the buffer each thread is at
  pc

vars == <<program, turn, flag, buf, in, out, src, dst, slot, pc>>

Blocks == 1..FileBlocks
Slots == IF program = "dbl" THEN {0, 1} ELSE {0}
NextSlot(s) == IF program = "dbl" THEN 1 - s ELSE s

Threads == {"reader", "writer"}
Other(t) == IF t = "reader" THEN "writer" ELSE "reader"

\* Mutant: the reader does not wait for its turn.
WaitTurnUnlessReader(t) ==
  /\ program # "flag"
  /\ pc[t] = "turn" /\ (turn[t][slot[t]] > 0 \/ t = "reader")
  /\ pc' = [pc EXCEPT ![t] = "copy"]
  /\ turn' = [turn EXCEPT ![t][slot[t]] = IF @ > 0 THEN @ - 1 ELSE 0]
  /\ UNCHANGED <<program, flag, buf, in, out, src, dst, slot>>

\* sem_wait(&readers_turn) or sem_wait(&writers_turn)
WaitTurn(t) ==
  /\ program # "flag"
  /\ pc[t] = "turn" /\ turn[t][slot[t]] > 0
  /\ pc' = [pc EXCEPT ![t] = "copy"]
  /\ turn' = [turn EXCEPT ![t][slot[t]] = @ - 1]
  /\ UNCHANGED <<program, flag, buf, in, out, src, dst, slot>>

\* if (flag == READ), if (flag == WRITE)
SeeFlag(t) ==
  /\ program = "flag"
  /\ pc[t] = "turn" /\ flag = t
  /\ pc' = [pc EXCEPT ![t] = "copy"]
  /\ UNCHANGED <<program, turn, flag, buf, in, out, src, dst, slot>>

\* flag is not volatile, and the optimised build does not load it again in a
\* loop that does nothing else.
SpinForEver(t) ==
  /\ program = "flag"
  /\ pc[t] = "turn" /\ flag # t
  /\ pc' = [pc EXCEPT ![t] = "spin"]
  /\ UNCHANGED <<program, turn, flag, buf, in, out, src, dst, slot>>

------------------------------------------------------------------------------
(* in = read(src, buf, bufsize)                                            *)

Read ==
  /\ pc["reader"] = "copy"
  /\ pc' = [pc EXCEPT !["reader"] = "give"]
  /\ LET s == slot["reader"] IN
     \/ /\ src < FileBlocks
        /\ src' = src + 1
        /\ buf' = [buf EXCEPT ![s] = src + 1]
        /\ in' = [in EXCEPT ![s] = "block"]
     \/ /\ src = FileBlocks
        /\ in' = [in EXCEPT ![s] = "eof"]
        /\ UNCHANGED <<src, buf>>
     \/ /\ in' = [in EXCEPT ![s] = "error"]
        /\ UNCHANGED <<src, buf>>
  /\ UNCHANGED <<program, turn, flag, out, dst, slot>>

(* out = write(dst, buf, in): nothing is written after the end of the file *)
(* (out = 0) or after an error (out = -1, as in is).                       *)

Write ==
  /\ pc["writer"] = "copy"
  /\ pc' = [pc EXCEPT !["writer"] = "give"]
  /\ LET s == slot["writer"] IN
     \/ /\ in[s] = "block"
        /\ out' \in {"block", "part"}
        /\ dst' = Append(dst, <<buf[s], out' = "block">>)
     \/ /\ in[s] = "block"
        /\ out' = "error"
        /\ UNCHANGED dst
     \/ /\ in[s] # "block"
        /\ out' = in[s]
        /\ UNCHANGED dst
  /\ UNCHANGED <<program, turn, flag, buf, in, src, slot>>

\* A thread that got no byte across leaves the loop.
Stops(t) ==
  IF t = "reader" THEN in[slot[t]] # "block" ELSE out \notin {"block", "part"}

\* Mutant: a thread leaves the loop before it gives the turn away.
StopFirst(t) ==
  /\ program # "flag"
  /\ pc[t] = "give"
  /\ IF Stops(t)
     THEN pc' = [pc EXCEPT ![t] = "exit"] /\ UNCHANGED <<turn, slot>>
     ELSE /\ turn' = [turn EXCEPT ![Other(t)][slot[t]] = @ + 1]
          /\ pc' = [pc EXCEPT ![t] = "turn"]
          /\ slot' = [slot EXCEPT ![t] = NextSlot(@)]
  /\ UNCHANGED <<program, flag, buf, in, out, src, dst>>

\* sem_post(&writers_turn) or sem_post(&readers_turn), and the test that
\* ends the loop.
GiveTurn(t) ==
  /\ program # "flag"
  /\ pc[t] = "give"
  /\ turn' = [turn EXCEPT ![Other(t)][slot[t]] = @ + 1]
  /\ pc' = [pc EXCEPT ![t] = IF Stops(t) THEN "exit" ELSE "turn"]
  /\ slot' = [slot EXCEPT ![t] = IF Stops(t) THEN @ ELSE NextSlot(@)]
  /\ UNCHANGED <<program, flag, buf, in, out, src, dst>>

\* flag = WRITE, flag = READ, and the test that ends the loop.
SetFlag(t) ==
  /\ program = "flag"
  /\ pc[t] = "give"
  /\ flag' = Other(t)
  /\ pc' = [pc EXCEPT ![t] = IF Stops(t) THEN "exit" ELSE "turn"]
  /\ UNCHANGED <<program, turn, buf, in, out, src, dst, slot>>

------------------------------------------------------------------------------
\* main: the reader must go first.
Init ==
  /\ program \in Programs
  /\ turn = [t \in Threads |-> [s \in Slots |-> IF t = "reader" THEN 1 ELSE 0]]
  /\ flag = "reader"
  /\ buf = [s \in Slots |-> 0]
  /\ in = [s \in Slots |-> "eof"]
  /\ out = "eof"
  /\ src = 0
  /\ dst = <<>>
  /\ slot = [t \in Threads |-> 0]
  /\ pc = [t \in Threads |-> "turn"]

reader == WaitTurn("reader") \/ SeeFlag("reader") \/ Read
          \/ GiveTurn("reader") \/ SetFlag("reader")

writer == WaitTurn("writer") \/ SeeFlag("writer") \/ Write
          \/ GiveTurn("writer") \/ SetFlag("writer")

Next == reader \/ writer \/ \E t \in Threads : SpinForEver(t)

Spec == Init /\ [][Next]_vars

FairSpec == Spec /\ WF_vars(reader) /\ WF_vars(writer)

------------------------------------------------------------------------------
TypeOK ==
  /\ program \in Programs
  /\ turn \in [Threads -> [Slots -> {0, 1}]]
  /\ flag \in Threads
  /\ buf \in [Slots -> 0..FileBlocks]
  /\ in \in [Slots -> {"block", "eof", "error"}]
  /\ out \in {"block", "part", "eof", "error"}
  /\ src \in 0..FileBlocks
  /\ dst \in Seq(Blocks \X BOOLEAN)
  /\ slot \in [Threads -> Slots]
  /\ pc \in [Threads -> {"turn", "copy", "give", "spin", "exit"}]

\* The copy has the first blocks of the file in their order, and all of them
\* when the writer stops because there is nothing more to write: no block is
\* written twice, left out, or read over by a reader that is a lap ahead.
\* Only a short write takes something away, the end of its own block.
CopyFaithful ==
  /\ \A i \in 1..Len(dst) : dst[i] = <<i, TRUE>> \/ dst[i] = <<i, FALSE>>
  /\ pc["writer"] = "exit" /\ out = "eof" => Len(dst) = FileBlocks

\* A thread that has ended, or finds the semaphore of its turn at 0.
Waits(t) == pc[t] = "exit" \/ (pc[t] = "turn" /\ turn[t][slot[t]] = 0)

\* With semaphores the program stops before the end only after a write failed:
\* the writer gave its turn away and ended, and the reader waits for the turn
\* after that.
OnlyAFailedWriteBlocks ==
  program # "flag" /\ (\A t \in Threads : Waits(t)) =>
    pc["writer"] = "exit" /\ (pc["reader"] = "exit" \/ out = "error")

\* With semaphores the writer ends, and so does the reader unless the writer
\* gave up: then the reader may wait for ever for its turn, and main for the
\* reader.
CopyEnds ==
  program # "flag" =>
    <>[](pc["writer"] = "exit" /\ (pc["reader"] = "exit" \/ out = "error"))
==============================================================================
