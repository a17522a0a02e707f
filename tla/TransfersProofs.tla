---------------------------- MODULE TransfersProofs ----------------------------
(***************************************************************************)
(* Proofs about the systems that MCTransfers runs, each first by itself    *)
(* and then as the runs have them: the two threads that copy a file, for   *)
(* files of any length and all three programs, the fifo device, the        *)
(* monitors, the two programs with a list of jobs and the web server.      *)
(*                                                                         *)
(* That the copy is right so far is not inductive: one has to know which   *)
(* block is in which buffer.  CopyInv follows the blocks that are on their *)
(* way, at most one in each buffer, from the reader to the writer.         *)
(***************************************************************************)
EXTENDS MCTransfers, SequenceTheorems, WellFoundedInduction, TLAPS

\* Thread t has buffer s in hand.
Holds(t, s) == slot[t] = s /\ pc[t] \in {"copy", "give"}

\* A buffer has one turn: it is in a semaphore or a thread has taken it.
OneTurn ==
  program # "flag" =>
    \A s \in Slots :
      turn["reader"][s] + turn["writer"][s]
        + (IF Holds("reader", s) THEN 1 ELSE 0) + (IF Holds("writer", s) THEN 1 ELSE 0) = 1

FlagIsTurn ==
  program = "flag" => \A t \in Threads : pc[t] \in {"copy", "give"} => flag = t

\* What was read into buffer s has not been written.
Handed(s) ==
  \/ program # "flag" /\ turn["writer"][s] = 1
  \/ program = "flag" /\ flag = "writer" /\ pc["writer"] \notin {"copy", "give"}
  \/ slot["writer"] = s /\ pc["writer"] = "copy"
  \/ slot["reader"] = s /\ pc["reader"] = "give"

Full(s) == Handed(s) /\ in[s] = "block"

\* The buffer of the thread's next read or write.
NextOf(t) == IF pc[t] = "give" THEN NextSlot(slot[t]) ELSE slot[t]

ReaderStopped ==
  pc["reader"] = "exit" \/ (pc["reader"] = "give" /\ in[slot["reader"]] # "block")

WriterStopped == pc["writer"] \in {"give", "exit"} /\ out \notin {"block", "part"}

\* The blocks on their way, when the next write is from buffer w and the one
\* after it from v.
OnTheWay(w, v) ==
  /\ ~Full(w) => src = Len(dst) /\ ~Full(v)
  /\ Full(w) => buf[w] = Len(dst) + 1
  /\ Full(w) /\ (v = w \/ ~Full(v)) => src = Len(dst) + 1
  /\ Full(w) /\ v # w /\ Full(v) => src = Len(dst) + 2 /\ buf[v] = Len(dst) + 2
  /\ ~ReaderStopped => NextOf("reader") = (IF Full(w) /\ ~Full(v) THEN v ELSE w)

InOrder ==
  ~WriterStopped =>
    \A w, v \in Slots : w = NextOf("writer") /\ v = NextSlot(w) => OnTheWay(w, v)

EndOfFile ==
  /\ \A s \in Slots : Handed(s) /\ in[s] = "eof" => src = FileBlocks
  /\ pc["writer"] \in {"give", "exit"} /\ out = "eof" => Len(dst) = FileBlocks

InPlace == \A i \in 1..Len(dst) : dst[i] = <<i, TRUE>> \/ dst[i] = <<i, FALSE>>

CopyInv == TypeOK /\ OneTurn /\ FlagIsTurn /\ InOrder /\ EndOfFile /\ InPlace

\* The end of the file, or a failed read, is the last thing the reader hands
\* over, after all its blocks, and the writer ends with it or with an error of
\* its own.
LastHandedOver ==
  /\ \A s \in Slots : Handed(s) /\ in[s] # "block" => ReaderStopped /\ slot["reader"] = s
  /\ ReaderStopped /\ ~WriterStopped =>
       \A r, w \in Slots : r = slot["reader"] /\ w = NextOf("writer") =>
         /\ Handed(r) /\ in[r] # "block"
         /\ r = IF Full(w) THEN NextSlot(w) ELSE w
  /\ WriterStopped /\ out = "eof" => ReaderStopped
  /\ pc["writer"] = "exit" => WriterStopped

------------------------------------------------------------------------------
USE CopyAssumption

\* There are two buffers or one, and after the other one comes the first.
LEMMA TwoSlots ==
  /\ 0 \in Slots
  /\ \A s \in Slots : NextSlot(s) \in Slots /\ NextSlot(NextSlot(s)) = s
  /\ \A s, u \in Slots : u = s \/ u = NextSlot(s)
BY DEF Slots, NextSlot

LEMMA InitCopy == Init => CopyInv
<1> SUFFICES ASSUME Init PROVE CopyInv
  OBVIOUS
<1>1. TypeOK
  BY DEF Init, TypeOK, Threads, Slots
<1>2. OneTurn /\ FlagIsTurn
  BY DEF Init, OneTurn, FlagIsTurn, Holds, Threads, Slots
<1>3. \A s \in Slots : ~Handed(s)
  BY DEF Init, Handed, Threads, Slots
<1>4. InOrder
  <2>1. NextOf("writer") = 0 /\ NextOf("reader") = 0 /\ 0 \in Slots
        /\ NextSlot(0) \in Slots
    BY DEF Init, NextOf, NextSlot, Threads, Slots
  <2>2. src = 0 /\ Len(dst) = 0
    BY DEF Init
  <2> QED
    BY <1>3, <2>1, <2>2 DEF InOrder, OnTheWay, Full
<1>5. EndOfFile /\ InPlace
  BY <1>3 DEF EndOfFile, InPlace, Init, Threads
<1> QED
  BY <1>1, <1>2, <1>4, <1>5 DEF CopyInv

\* Programs do not change while they run, nor do the buffers they have.
LEMMA SameSlots ==
  ASSUME program' = program
  PROVE  Slots' = Slots /\ \A s : NextSlot(s)' = NextSlot(s)
BY DEF Slots, NextSlot

\* A step that moves no turn into or out of a buffer that holds a block keeps
\* the blocks that are on their way.
LEMMA SameOrder ==
  ASSUME CopyInv, program' = program,
         UNCHANGED <<src, dst, buf, in>>,
         \A s \in Slots : Handed(s)' <=> Handed(s),
         NextOf("writer") \in Slots,
         WriterStopped => WriterStopped',
         ~WriterStopped' => NextOf("writer")' = NextOf("writer"),
         ReaderStopped => ReaderStopped',
         ~ReaderStopped' => NextOf("reader")' = NextOf("reader")
  PROVE  InOrder'
<1> SUFFICES ASSUME ~WriterStopped',
                    NEW w \in Slots, NEW v \in Slots,
                    w = NextOf("writer")', v = NextSlot(w)'
             PROVE  OnTheWay(w, v)'
  BY SameSlots DEF InOrder
<1>1. w = NextOf("writer") /\ v = NextSlot(w)
  BY DEF NextSlot
<1>2. OnTheWay(w, v)
  BY <1>1 DEF CopyInv, InOrder
<1>3. (Full(w)' <=> Full(w)) /\ (Full(v)' <=> Full(v))
  BY DEF Full
<1> QED
  BY <1>2, <1>3 DEF OnTheWay

\* To take a turn moves no block.
LEMMA TurnTaken ==
  ASSUME CopyInv, NEW t \in Threads, WaitTurn(t) \/ SeeFlag(t) \/ SpinForEver(t)
  PROVE  /\ program' = program /\ UNCHANGED <<src, dst, buf, in, out, slot>>
         /\ \A s \in Slots : Handed(s)' <=> Handed(s)
         /\ \A u \in Threads : NextOf(u)' = NextOf(u)
         /\ (WriterStopped' <=> WriterStopped) /\ (ReaderStopped' <=> ReaderStopped)
         /\ pc'["writer"] = "exit" => pc["writer"] = "exit"
<1> USE DEF CopyInv, Threads
<1>1. \A s \in Slots : Handed(s)' <=> Handed(s)
  BY DEF TypeOK, WaitTurn, SeeFlag, SpinForEver, Handed, Slots, OneTurn
<1>2. program' = program /\ UNCHANGED <<src, dst, buf, in, out, slot>>
  BY DEF WaitTurn, SeeFlag, SpinForEver
<1>3. \A u \in Threads : pc'[u] # pc[u] => pc[u] = "turn"
      /\ pc'[u] \in {"copy", "spin"}
  BY DEF TypeOK, WaitTurn, SeeFlag, SpinForEver
<1>4. \A u \in Threads : NextOf(u)' = NextOf(u)
  BY <1>2, <1>3 DEF NextOf, NextSlot
<1>5. (WriterStopped' <=> WriterStopped) /\ (ReaderStopped' <=> ReaderStopped)
  BY <1>2, <1>3 DEF WriterStopped, ReaderStopped
<1> QED BY <1>1, <1>2, <1>3, <1>4, <1>5

LEMMA TakeTurn ==
  ASSUME CopyInv, NEW t \in Threads, WaitTurn(t) \/ SeeFlag(t) \/ SpinForEver(t)
  PROVE  CopyInv'
<1> USE DEF CopyInv, Threads
<1>1. TypeOK'
  BY TwoSlots DEF TypeOK, WaitTurn, SeeFlag, SpinForEver, Slots
<1>2. OneTurn' /\ FlagIsTurn'
  <2>1. CASE WaitTurn("reader")
    BY <2>1 DEF TypeOK, OneTurn, FlagIsTurn, WaitTurn, Holds, Slots
  <2>2. CASE WaitTurn("writer")
    BY <2>2 DEF TypeOK, OneTurn, FlagIsTurn, WaitTurn, Holds, Slots
  <2>3. CASE SeeFlag(t) \/ SpinForEver(t)
    BY <2>3 DEF TypeOK, OneTurn, FlagIsTurn, SeeFlag, SpinForEver
  <2> QED
    BY <2>1, <2>2, <2>3
<1>3. \A s \in Slots : Handed(s)' <=> Handed(s)
  BY TurnTaken
<1>4. InOrder'
  <2>1. NextOf("writer") \in Slots
    BY TwoSlots DEF TypeOK, NextOf
  <2> QED
    BY <2>1, TurnTaken, SameOrder
<1>5. EndOfFile' /\ InPlace'
  BY <1>3 DEF EndOfFile, InPlace, TypeOK, WaitTurn, SeeFlag, SpinForEver, Slots
<1> QED
  BY <1>1, <1>2, <1>4, <1>5

\* To give a turn away moves no block either: what a buffer holds is handed
\* over when it is read, and taken when it is written.
LEMMA TurnGiven ==
  ASSUME CopyInv, NEW t \in Threads, GiveTurn(t) \/ SetFlag(t)
  PROVE  /\ program' = program /\ UNCHANGED <<src, dst, buf, in, out>>
         /\ \A u \in Slots : Handed(u)' <=> Handed(u)
         /\ (WriterStopped' <=> WriterStopped) /\ (ReaderStopped' <=> ReaderStopped)
         /\ ~WriterStopped' => NextOf("writer")' = NextOf("writer")
         /\ ~ReaderStopped' => NextOf("reader")' = NextOf("reader")
         /\ ReaderStopped => slot'["reader"] = slot["reader"]
         /\ pc'["writer"] = "exit" => pc["writer"] = "exit" \/ WriterStopped
<1> USE DEF CopyInv, Threads
<1> DEFINE s == slot[t]
<1>1. turn'[t] = turn[t] /\ slot'[Other(t)] = slot[Other(t)]
      /\ pc'[Other(t)] = pc[Other(t)]
  BY DEF TypeOK, GiveTurn, SetFlag, Other
<1>2. /\ slot'[t] = IF Stops(t) THEN s ELSE NextSlot(s)
      /\ pc'[t] = IF Stops(t) THEN "exit" ELSE "turn"
  BY DEF TypeOK, GiveTurn, SetFlag, NextSlot
<1>3. program' = program /\ UNCHANGED <<src, dst, buf, in, out>>
  BY DEF GiveTurn, SetFlag
<1>4. (WriterStopped' <=> WriterStopped) /\ (ReaderStopped' <=> ReaderStopped)
  BY <1>1, <1>2, <1>3
     DEF WriterStopped, ReaderStopped, Stops, TypeOK, GiveTurn, SetFlag, Other
<1>5. \A u \in Slots : Handed(u)' <=> Handed(u)
  <2>1. CASE GiveTurn("reader")
    BY <2>1, TwoSlots DEF TypeOK, OneTurn, Holds, Handed, GiveTurn, Other, Slots
  <2>2. CASE GiveTurn("writer")
    BY <2>2, TwoSlots DEF TypeOK, OneTurn, Holds, Handed, GiveTurn, Other, Slots
  <2>3. CASE SetFlag(t)
    BY <2>3 DEF TypeOK, FlagIsTurn, Handed, SetFlag, Other, Slots
  <2> QED
    BY <2>1, <2>2, <2>3
<1>6. /\ ~WriterStopped' => NextOf("writer")' = NextOf("writer")
      /\ ~ReaderStopped' => NextOf("reader")' = NextOf("reader")
  BY <1>1, <1>2, <1>3
     DEF WriterStopped, ReaderStopped, Stops, NextOf, NextSlot, GiveTurn, SetFlag, Other
<1>7. /\ ReaderStopped => slot'["reader"] = slot["reader"]
      /\ pc'["writer"] = "exit" => pc["writer"] = "exit" \/ WriterStopped
  BY <1>1, <1>2 DEF WriterStopped, ReaderStopped, Stops, GiveTurn, SetFlag, Other
<1> QED BY <1>3, <1>4, <1>5, <1>6, <1>7

LEMMA GiveTurnAway ==
  ASSUME CopyInv, NEW t \in Threads, GiveTurn(t) \/ SetFlag(t)
  PROVE  CopyInv'
<1> USE DEF CopyInv, Threads
<1> DEFINE s == slot[t]
<1>1. turn'[t] = turn[t] /\ slot'[Other(t)] = slot[Other(t)]
      /\ pc'[Other(t)] = pc[Other(t)]
  BY DEF TypeOK, GiveTurn, SetFlag, Other
<1>2. /\ slot'[t] = IF Stops(t) THEN s ELSE NextSlot(s)
      /\ pc'[t] = IF Stops(t) THEN "exit" ELSE "turn"
  BY DEF TypeOK, GiveTurn, SetFlag, NextSlot
<1>3. TypeOK'
  <2>1. CASE GiveTurn(t)
    <3>1. turn[Other(t)][slot[t]] = 0
      <4> PICK u \in Slots : u = slot[t]
        BY DEF TypeOK
      <4>1. program # "flag" /\ pc[t] = "give" /\ Holds(t, u)
        BY <2>1 DEF GiveTurn, Holds
      <4>2. turn["reader"][u] \in {0, 1} /\ turn["writer"][u] \in {0, 1}
        BY DEF TypeOK
      <4>3. turn["reader"][u] + turn["writer"][u]
              + (IF Holds("reader", u) THEN 1 ELSE 0) + (IF Holds("writer", u) THEN 1 ELSE 0) = 1
        BY <4>1 DEF OneTurn
      <4> QED
        BY <4>1, <4>2, <4>3 DEF Other
    <3>2. turn' \in [Threads -> [Slots -> {0, 1}]]
      BY <2>1, <3>1 DEF TypeOK, GiveTurn, Other
    <3> QED
      BY <2>1, <3>2, TwoSlots DEF TypeOK, GiveTurn, Slots
  <2>2. CASE SetFlag(t)
    BY <2>2 DEF TypeOK, SetFlag, Other, Slots
  <2> QED
    BY <2>1, <2>2
<1>4. OneTurn' /\ FlagIsTurn'
  <2>1. CASE GiveTurn("reader")
    BY <2>1, TwoSlots DEF TypeOK, OneTurn, FlagIsTurn, Holds, GiveTurn, Other, Slots
  <2>2. CASE GiveTurn("writer")
    BY <2>2, TwoSlots DEF TypeOK, OneTurn, FlagIsTurn, Holds, GiveTurn, Other, Slots
  <2>3. CASE SetFlag(t)
    BY <2>3 DEF TypeOK, OneTurn, FlagIsTurn, SetFlag, Other
  <2> QED
    BY <2>1, <2>2, <2>3
<1>5. \A u \in Slots : Handed(u)' <=> Handed(u)
  BY TurnGiven
<1>6. InOrder'
  <2>1. NextOf("writer") \in Slots
    BY TwoSlots DEF TypeOK, NextOf
  <2> QED
    BY <2>1, TurnGiven, SameOrder
<1>7. EndOfFile' /\ InPlace'
  BY <1>1, <1>2, <1>5 DEF EndOfFile, InPlace, TypeOK, GiveTurn, SetFlag, Other, Slots
<1> QED
  BY <1>3, <1>4, <1>6, <1>7

\* A read hands its buffer over.
LEMMA ReadHands ==
  ASSUME CopyInv, Read, NEW r \in Slots, r = slot["reader"]
  PROVE  ~Handed(r) /\ \A s \in Slots : Handed(s)' <=> (Handed(s) \/ s = r)
<1> USE DEF CopyInv, Threads
<1>1. /\ pc["reader"] = "copy" /\ pc'["reader"] = "give"
         /\ pc'["writer"] = pc["writer"]
      /\ UNCHANGED <<program, turn, flag, out, dst, slot>>
  BY DEF TypeOK, Read
<1>2. ~Handed(r)
  <2>1. CASE program = "flag"
    BY <1>1, <2>1 DEF TypeOK, Handed, FlagIsTurn, Slots
  <2>2. CASE program # "flag"
    BY <1>1, <2>2 DEF TypeOK, Handed, OneTurn, Holds
  <2> QED
    BY <2>1, <2>2
<1>3. \A s \in Slots : Handed(s)' <=> (Handed(s) \/ s = r)
  BY <1>1 DEF Handed, Slots
<1> QED BY <1>2, <1>3

LEMMA ReadKeepsInv == CopyInv /\ Read => CopyInv'
<1> SUFFICES ASSUME CopyInv, Read PROVE CopyInv'
  OBVIOUS
<1> USE DEF CopyInv, Threads
<1> PICK r \in Slots : r = slot["reader"]
  BY DEF TypeOK
<1>1. /\ pc["reader"] = "copy" /\ pc'["reader"] = "give"
         /\ pc'["writer"] = pc["writer"]
      /\ UNCHANGED <<program, turn, flag, out, dst, slot>>
  BY DEF TypeOK, Read
<1>2. /\ in'[r] \in {"block", "eof", "error"}
      /\ in'[r] = "block" => src < FileBlocks /\ src' = src + 1 /\ buf'[r] = src + 1
      /\ in'[r] # "block" => UNCHANGED <<src, buf>>
      /\ in'[r] = "eof" => src' = FileBlocks
      /\ src' # src => src < FileBlocks
      /\ \A s \in Slots : s # r => in'[s] = in[s] /\ buf'[s] = buf[s]
  BY DEF TypeOK, Read
<1>3. TypeOK'
  BY DEF TypeOK, Read, Slots
<1>4. OneTurn' /\ FlagIsTurn'
  BY <1>1 DEF OneTurn, FlagIsTurn, Holds, Slots
<1>5. ~Handed(r)
  BY ReadHands
<1>6. \A s \in Slots : Handed(s)' <=> (Handed(s) \/ s = r)
  BY ReadHands
<1>7. InOrder'
  <2> SUFFICES ASSUME ~WriterStopped',
                      NEW w \in Slots, NEW v \in Slots,
                      w = NextOf("writer")', v = NextSlot(w)'
               PROVE  OnTheWay(w, v)'
    BY <1>1, SameSlots DEF InOrder
  <2>1. w = NextOf("writer") /\ v = NextSlot(w) /\ NextSlot(v) = w /\ ~WriterStopped
    BY <1>1, TwoSlots DEF NextOf, NextSlot, WriterStopped
  <2>2. OnTheWay(w, v)
    BY <2>1 DEF InOrder
  <2>3. ~ReaderStopped /\ NextOf("reader") = r
    BY <1>1 DEF ReaderStopped, NextOf
  <2>4. ~Full(r) /\ \A s \in Slots : s # r => (Full(s)' <=> Full(s))
    BY <1>2, <1>5, <1>6 DEF Full
  <2>5. r = w \/ r = v
    BY <2>1, <1>1, TwoSlots
  <2>6. CASE in'[r] # "block"
    <3>1. ~Full(r)' /\ ReaderStopped'
      BY <1>1, <2>6 DEF Full, ReaderStopped
    <3>2. (Full(w)' <=> Full(w)) /\ (Full(v)' <=> Full(v))
      BY <2>4, <3>1
    <3> QED
      BY <1>1, <1>2, <2>2, <2>6, <3>1, <3>2 DEF OnTheWay
  <2>7. CASE in'[r] = "block"
    <3>1. Full(r)'
      BY <1>1, <1>6, <2>7 DEF Full
    <3>2. NextOf("reader")' = NextSlot(r)
      BY <1>1 DEF NextOf, NextSlot
    <3>3. Len(dst) \in Nat /\ src \in Nat /\ src' = src + 1 /\ buf'[r] = src + 1
      BY <1>2, <2>7 DEF TypeOK
    <3>4. CASE Full(w)
      <4>1. r = v /\ v # w /\ ~Full(v) /\ src = Len(dst) + 1 /\ buf[w] = Len(dst) + 1
        BY <2>2, <2>3, <2>4, <2>5, <3>4 DEF OnTheWay
      <4>2. buf'[w] = buf[w] /\ Full(w)'
        BY <1>2, <2>4, <3>4, <4>1
      <4> QED
        BY <1>1, <2>1, <3>1, <3>2, <3>3, <4>1, <4>2 DEF OnTheWay
    <3>5. CASE ~Full(w)
      <4>1. r = w /\ ~Full(v) /\ src = Len(dst)
        BY <2>2, <2>3, <3>5 DEF OnTheWay
      <4>2. v = w \/ ~Full(v)'
        BY <2>4, <4>1
      <4> QED
        BY <1>1, <2>1, <3>1, <3>2, <3>3, <4>1, <4>2 DEF OnTheWay
    <3> QED
      BY <3>4, <3>5
  <2> QED
    BY <1>2, <2>6, <2>7
<1>8. EndOfFile'
  <2>1. \A s \in Slots : Handed(s)' /\ in'[s] = "eof" => src' = FileBlocks
    <3> SUFFICES ASSUME NEW s \in Slots, Handed(s)', in'[s] = "eof"
                 PROVE  src' = FileBlocks
      OBVIOUS
    <3>1. CASE s = r
      BY <1>2, <3>1
    <3>2. CASE s # r
      BY <1>2, <1>6, <3>2 DEF EndOfFile, TypeOK, Read
    <3> QED
      BY <3>1, <3>2
  <2> QED
    BY <1>1, <2>1, SameSlots DEF EndOfFile
<1>9. InPlace'
  BY <1>1 DEF InPlace
<1> QED
  BY <1>3, <1>4, <1>7, <1>8, <1>9

\* A write takes what its buffer holds.
LEMMA WriteHands ==
  ASSUME CopyInv, Write, NEW w \in Slots, w = slot["writer"]
  PROVE  ~Handed(w)' /\ \A s \in Slots : s # w => (Handed(s)' <=> Handed(s))
<1> USE DEF CopyInv, Threads
<1>1. /\ pc["writer"] = "copy" /\ pc'["writer"] = "give"
         /\ pc'["reader"] = pc["reader"]
      /\ UNCHANGED <<program, turn, flag, buf, in, src, slot>>
  BY DEF TypeOK, Write
<1>2. ~Handed(w)' /\ \A s \in Slots : s # w => (Handed(s)' <=> Handed(s))
  <2>1. CASE program = "flag"
    BY <1>1, <2>1 DEF TypeOK, Handed, FlagIsTurn, Slots
  <2>2. CASE program # "flag"
    <3>1. Holds("writer", w)
      BY <1>1 DEF Holds
    <3>2. turn["reader"][w] \in {0, 1} /\ turn["writer"][w] \in {0, 1}
      BY DEF TypeOK
    <3>3. turn["writer"][w] = 0 /\ ~Holds("reader", w)
      BY <2>2, <3>1, <3>2 DEF OneTurn
    <3> QED
      BY <1>1, <2>2, <3>3 DEF Handed, Holds
  <2> QED
    BY <2>1, <2>2
<1> QED BY <1>2

LEMMA WriteKeepsInv == CopyInv /\ Write => CopyInv'
<1> SUFFICES ASSUME CopyInv, Write PROVE CopyInv'
  OBVIOUS
<1> USE DEF CopyInv, Threads
<1> PICK w \in Slots, v \in Slots : w = slot["writer"] /\ v = NextSlot(w)
  BY TwoSlots DEF TypeOK
<1>1. /\ pc["writer"] = "copy" /\ pc'["writer"] = "give"
         /\ pc'["reader"] = pc["reader"]
      /\ UNCHANGED <<program, turn, flag, buf, in, src, slot>>
  BY DEF TypeOK, Write
<1>2. Handed(w) /\ ~WriterStopped /\ NextOf("writer") = w /\ OnTheWay(w, v)
  BY <1>1 DEF Handed, WriterStopped, NextOf, InOrder
<1>3. NextSlot(v) = w /\ NextSlot(v)' = w /\ NextOf("writer")' = v
  BY <1>1, TwoSlots DEF NextOf, NextSlot
<1>4. ~Handed(w)' /\ \A s \in Slots : s # w => (Handed(s)' <=> Handed(s))
  BY WriteHands
<1>5. OneTurn' /\ FlagIsTurn'
  BY <1>1 DEF OneTurn, FlagIsTurn, Holds, Slots
<1>6. \A s \in Slots : Handed(s)' /\ in'[s] = "eof" => src' = FileBlocks
  BY <1>1, <1>4 DEF EndOfFile
<1>7. Len(dst) \in Nat /\ src \in Nat
  BY DEF TypeOK
<1>8. CASE out' \in {"block", "part"}
  <2> DEFINE block == <<buf[w], out' = "block">>
  <2>1. in[w] = "block" /\ dst' = Append(dst, block)
    BY <1>8 DEF Write, TypeOK
  <2>2. Full(w) /\ buf[w] = Len(dst) + 1 /\ src >= Len(dst) + 1
    BY <1>2, <1>7, <2>1 DEF Full, OnTheWay
  <2>3. TypeOK'
    <3>1. buf[w] \in Blocks
      BY <1>7, <2>2 DEF TypeOK, Blocks
    <3>2. block \in Blocks \X BOOLEAN
      BY <3>1
    <3>3. dst' \in Seq(Blocks \X BOOLEAN)
      <4> HIDE DEF block
      <4> QED
        BY <2>1, <3>2 DEF TypeOK
    <3> QED
      <4>1. pc' \in [Threads -> {"turn", "copy", "give", "spin", "exit"}]
        BY DEF TypeOK, Write
      <4> QED
        BY <1>1, <1>8, <3>3, <4>1 DEF TypeOK, Slots
  <2>4. Len(dst') = Len(dst) + 1
    BY <2>1 DEF TypeOK
  <2>5. InPlace'
    <3>1. \A i \in 1..Len(dst) : dst'[i] = dst[i]
      BY <2>1 DEF TypeOK
    <3>2. dst'[Len(dst) + 1] = block
      BY <2>1 DEF TypeOK
    <3>3. \A i \in 1..Len(dst') : i \in 1..Len(dst) \/ i = Len(dst) + 1
      BY <1>7, <2>4
    <3> QED
      BY <2>2, <3>1, <3>2, <3>3 DEF InPlace
  <2>6. ~Full(w)' /\ (v # w => (Full(v)' <=> Full(v)))
    BY <1>1, <1>4 DEF Full
  <2>7. OnTheWay(v, w)'
    <3>1. (ReaderStopped' <=> ReaderStopped) /\ NextOf("reader")' = NextOf("reader")
      BY <1>1 DEF ReaderStopped, NextOf, NextSlot
    <3> QED
      BY <1>1, <1>2, <1>7, <2>2, <2>4, <2>6, <3>1 DEF OnTheWay
  <2>8. InOrder'
    BY <1>3, <2>7 DEF InOrder
  <2>9. EndOfFile'
    BY <1>1, <1>6, <1>8, SameSlots DEF EndOfFile
  <2> QED
    BY <1>5, <2>3, <2>5, <2>8, <2>9
<1>9. CASE out' \notin {"block", "part"}
  <2>1. dst' = dst /\ out' \in {"eof", "error"}
    BY <1>9 DEF Write, TypeOK
  <2>2. TypeOK'
    BY <1>1, <2>1 DEF TypeOK, Write, Slots
  <2>3. InOrder'
    BY <1>1, <1>9 DEF InOrder, WriterStopped
  <2>4. out' = "eof" => Len(dst') = FileBlocks
    <3> SUFFICES ASSUME out' = "eof" PROVE Len(dst) = FileBlocks
      BY <2>1
    <3>1. in[w] = "eof"
      BY <1>9 DEF Write
    <3>2. src = FileBlocks /\ ~Full(w)
      BY <1>2, <3>1 DEF EndOfFile, Full
    <3> QED
      BY <1>2, <3>2 DEF OnTheWay
  <2>5. EndOfFile'
    BY <1>1, <1>6, <2>4, SameSlots DEF EndOfFile
  <2>6. InPlace'
    BY <2>1 DEF InPlace
  <2> QED
    BY <1>5, <2>2, <2>3, <2>5, <2>6
<1> QED
  BY <1>8, <1>9

LEMMA CopyStep == CopyInv /\ [Next]_vars => CopyInv'
<1> SUFFICES ASSUME CopyInv, [Next]_vars PROVE CopyInv'
  OBVIOUS
<1>1. CASE UNCHANGED vars
  <2> USE <1>1 DEF vars, CopyInv
  <2>1. \A s \in Slots : Handed(s)' <=> Handed(s)
    BY DEF Handed
  <2>2. NextOf("writer") \in Slots /\ \A t \in Threads : NextOf(t)' = NextOf(t)
    BY TwoSlots DEF NextOf, NextSlot, TypeOK, Threads
  <2>3. (WriterStopped' <=> WriterStopped) /\ (ReaderStopped' <=> ReaderStopped)
    BY DEF WriterStopped, ReaderStopped
  <2>4. InOrder'
    BY <2>1, <2>2, <2>3, SameOrder DEF Threads
  <2>5. TypeOK' /\ FlagIsTurn' /\ InPlace'
    BY DEF TypeOK, FlagIsTurn, InPlace, Slots
  <2>6. OneTurn'
    BY DEF OneTurn, Holds, Slots
  <2>7. EndOfFile'
    BY <2>1, SameSlots DEF EndOfFile
  <2> QED
    BY <2>4, <2>5, <2>6, <2>7
<1>2. CASE Read
  BY <1>2, ReadKeepsInv
<1>3. CASE Write
  BY <1>3, WriteKeepsInv
<1>4. CASE \E t \in Threads : WaitTurn(t) \/ SeeFlag(t) \/ SpinForEver(t)
  BY <1>4, TakeTurn
<1>5. CASE \E t \in Threads : GiveTurn(t) \/ SetFlag(t)
  BY <1>5, GiveTurnAway
<1> QED
  BY <1>1, <1>2, <1>3, <1>4, <1>5 DEF Next, reader, writer, Threads

\* CopyInv holds in every state.
LEMMA AlwaysCopyInv == Spec => []CopyInv
BY InitCopy, CopyStep, PTL DEF Spec

\* Type correctness of the copying threads.
THEOREM CopyTypeCorrect == Spec => []TypeOK
BY AlwaysCopyInv, PTL DEF CopyInv

\* In all three programs, for files of any length and whatever read and write
\* return, the copy has the blocks of the file in order, each once, and all
\* of them when the writer stops at the end of the file.
THEOREM CopyIsFaithful == Spec => []CopyFaithful
<1>1. CopyInv => CopyFaithful
  BY DEF CopyInv, EndOfFile, InPlace, CopyFaithful
<1> QED
  BY <1>1, AlwaysCopyInv, PTL

------------------------------------------------------------------------------
(* Who waits for whom: why nothing but a failed write leaves a thread      *)
(* behind.                                                                 *)

\* A step that hands nothing over and stops nobody keeps the end of the copy.
LEMMA SameEnd ==
  ASSUME CopyInv, LastHandedOver, program' = program, UNCHANGED <<in, out>>,
         \A s \in Slots : Handed(s)' <=> Handed(s),
         (WriterStopped' <=> WriterStopped) /\ (ReaderStopped' <=> ReaderStopped),
         ~WriterStopped' => NextOf("writer")' = NextOf("writer"),
         ReaderStopped => slot'["reader"] = slot["reader"],
         pc'["writer"] = "exit" => pc["writer"] = "exit" \/ WriterStopped
  PROVE  LastHandedOver'
<1>1. \A s \in Slots : Full(s)' <=> Full(s)
  BY DEF Full
<1> QED BY <1>1, SameSlots DEF LastHandedOver

LEMMA ReadKeepsEnd == CopyInv /\ LastHandedOver /\ Read => LastHandedOver'
<1> SUFFICES ASSUME CopyInv, LastHandedOver, Read PROVE LastHandedOver'
  OBVIOUS
<1> USE DEF CopyInv, Threads
<1> PICK r \in Slots : r = slot["reader"]
  BY DEF TypeOK
<1>1. /\ pc["reader"] = "copy" /\ pc'["reader"] = "give"
         /\ pc'["writer"] = pc["writer"]
      /\ UNCHANGED <<program, turn, flag, out, dst, slot>>
      /\ \A s \in Slots : s # r => in'[s] = in[s]
  BY DEF TypeOK, Read
<1>2. ~Handed(r) /\ \A s \in Slots : Handed(s)' <=> (Handed(s) \/ s = r)
  BY <1>1, ReadHands
<1>3. ~ReaderStopped /\ (ReaderStopped' <=> in'[r] # "block")
      /\ (WriterStopped' <=> WriterStopped)
  BY <1>1 DEF ReaderStopped, WriterStopped
<1>4. \A s \in Slots : Handed(s)' /\ in'[s] # "block" => s = r
  BY <1>1, <1>2, <1>3 DEF LastHandedOver
<1>5. ASSUME ReaderStopped', ~WriterStopped', NEW w \in Slots, w = NextOf("writer")'
      PROVE  r = IF Full(w)' THEN NextSlot(w)' ELSE w
  <2>1. w = NextOf("writer") /\ NextSlot(w) \in Slots /\ NextSlot(w)' = NextSlot(w)
    BY <1>1, <1>5, TwoSlots DEF NextOf, NextSlot
  <2>2. OnTheWay(w, NextSlot(w)) /\ NextOf("reader") = r
    BY <1>1, <1>3, <1>5, <2>1 DEF InOrder, NextOf
  <2>3. r = IF Full(w) /\ ~Full(NextSlot(w)) THEN NextSlot(w) ELSE w
    BY <1>3, <2>2 DEF OnTheWay
  <2>4. ~Full(r) /\ ~Full(r)' /\ \A s \in Slots : s # r => (Full(s)' <=> Full(s))
    BY <1>1, <1>2, <1>3, <1>5 DEF Full
  <2> QED BY <2>1, <2>3, <2>4
<1> QED BY <1>1, <1>2, <1>3, <1>4, <1>5, SameSlots DEF LastHandedOver

LEMMA WriteKeepsEnd == CopyInv /\ LastHandedOver /\ Write => LastHandedOver'
<1> SUFFICES ASSUME CopyInv, LastHandedOver, Write PROVE LastHandedOver'
  OBVIOUS
<1> USE DEF CopyInv, Threads
<1> PICK w \in Slots, v \in Slots : w = slot["writer"] /\ v = NextSlot(w)
  BY TwoSlots DEF TypeOK
<1>1. /\ pc["writer"] = "copy" /\ pc'["writer"] = "give"
         /\ pc'["reader"] = pc["reader"]
      /\ UNCHANGED <<program, turn, flag, buf, in, src, slot>>
  BY DEF TypeOK, Write
<1>2. Handed(w) /\ ~WriterStopped /\ NextOf("writer") = w /\ NextOf("writer")' = v
  BY <1>1 DEF Handed, WriterStopped, NextOf, NextSlot
<1>3. ~Handed(w)' /\ \A s \in Slots : s # w => (Handed(s)' <=> Handed(s))
  BY <1>1, WriteHands
<1>4. ReaderStopped' <=> ReaderStopped
  BY <1>1 DEF ReaderStopped
<1>5. out' = "eof" => ReaderStopped
  BY <1>2 DEF LastHandedOver, Write
<1>6. ASSUME ReaderStopped', ~WriterStopped', NEW r \in Slots, r = slot["reader"]
      PROVE  /\ Handed(r)' /\ in'[r] # "block"
             /\ r = IF Full(v)' THEN NextSlot(v)' ELSE v
  <2>1. in[w] = "block"
    BY <1>1, <1>6 DEF Write, WriterStopped, TypeOK
  <2>2. Handed(r) /\ in[r] # "block" /\ r = v
    BY <1>2, <1>4, <1>6, <2>1 DEF LastHandedOver, Full
  <2> QED BY <1>1, <1>3, <2>1, <2>2 DEF Full
<1> QED BY <1>1, <1>2, <1>3, <1>4, <1>5, <1>6, SameSlots DEF LastHandedOver

\* The end of the copy is kept in order by every step.
LEMMA EndStep == CopyInv /\ LastHandedOver /\ [Next]_vars => LastHandedOver'
<1> SUFFICES ASSUME CopyInv, LastHandedOver, [Next]_vars PROVE LastHandedOver'
  OBVIOUS
<1>1. CASE UNCHANGED vars
  BY <1>1, SameEnd DEF vars, Handed, NextOf, NextSlot, WriterStopped, ReaderStopped
<1>2. CASE Read
  BY <1>2, ReadKeepsEnd
<1>3. CASE Write
  BY <1>3, WriteKeepsEnd
<1>4. CASE \E t \in Threads : WaitTurn(t) \/ SeeFlag(t) \/ SpinForEver(t)
  BY <1>4, TurnTaken, SameEnd DEF Threads
<1>5. CASE \E t \in Threads : GiveTurn(t) \/ SetFlag(t)
  BY <1>5, TurnGiven, SameEnd
<1> QED BY <1>1, <1>2, <1>3, <1>4, <1>5 DEF Next, reader, writer, Threads

\* With semaphores, one buffer or two, only a failed write leaves a thread
\* behind: the reader cannot wait for a turn the writer waits for too, since
\* the turn of the writer's next buffer is in one of its two semaphores.
THEOREM CopyBlocksAfterAnError == Spec => []OnlyAFailedWriteBlocks
<1>1. Init => LastHandedOver
  <2> SUFFICES ASSUME Init PROVE LastHandedOver
    OBVIOUS
  <2>1. \A s \in Slots : ~Handed(s)
    BY DEF Init, Handed, Threads, Slots
  <2> QED BY <2>1 DEF Init, LastHandedOver, ReaderStopped, WriterStopped, Threads
<1>2. CopyInv /\ LastHandedOver => OnlyAFailedWriteBlocks
  <2> SUFFICES ASSUME CopyInv, LastHandedOver, program # "flag", \A t \in Threads : Waits(t)
               PROVE  pc["writer"] = "exit" /\ (pc["reader"] = "exit" \/ out = "error")
    BY DEF OnlyAFailedWriteBlocks
  <2>1. \A t \in Threads : pc[t] = "exit" \/ (pc[t] = "turn" /\ turn[t][slot[t]] = 0)
    BY DEF Waits
  <2>2. CASE pc["writer"] = "exit"
    <3>1. WriterStopped /\ out \in {"eof", "error"}
      BY <2>2 DEF CopyInv, TypeOK, LastHandedOver, WriterStopped
    <3> QED BY <2>1, <2>2, <3>1 DEF LastHandedOver, ReaderStopped, Threads
  <2>3. CASE pc["writer"] = "turn"
    <3> PICK w \in Slots, v \in Slots : w = slot["writer"] /\ v = NextSlot(w)
      BY TwoSlots DEF CopyInv, TypeOK, Threads
    <3>1. turn["writer"][w] = 0
      BY <2>1, <2>3 DEF Threads
    <3>2. ~WriterStopped /\ NextOf("writer") = w /\ ~Handed(w) /\ ~Full(w)
      BY <2>1, <2>3, <3>1 DEF WriterStopped, NextOf, Handed, Full, Threads
    <3>3. ~ReaderStopped
      BY <3>2 DEF LastHandedOver, CopyInv, TypeOK, Threads
    <3>4. pc["reader"] = "turn" /\ NextOf("reader") = slot["reader"]
      BY <2>1, <3>3 DEF ReaderStopped, NextOf, Threads
    <3>5. slot["reader"] = w
      BY <3>2, <3>3, <3>4 DEF CopyInv, InOrder, OnTheWay
    <3>6. turn["reader"][w] = 0 /\ ~Holds("reader", w) /\ ~Holds("writer", w)
      BY <2>1, <2>3, <3>4, <3>5 DEF Holds, Threads
    <3>7. turn["reader"][w] + turn["writer"][w]
            + (IF Holds("reader", w) THEN 1 ELSE 0) + (IF Holds("writer", w) THEN 1 ELSE 0) = 1
      BY DEF CopyInv, OneTurn
    <3> QED BY <3>1, <3>6, <3>7
  <2> QED BY <2>1, <2>2, <2>3 DEF Threads
<1>3. Spec => []LastHandedOver
  BY <1>1, AlwaysCopyInv, EndStep, PTL DEF Spec
<1> QED BY <1>2, <1>3, AlwaysCopyInv, PTL

------------------------------------------------------------------------------
(* The fifo device is a queue.                                             *)

\* The inductive invariant of the device: the cells in use lie from head on,
\* around the end of the array, up to tail.
FifoInv ==
  /\ data \in [F!Slots -> Data]
  /\ head \in F!Slots /\ tail \in F!Slots
  /\ contents \in 0..FIFO_LEN
  /\ tail = (head + contents) % FIFO_LEN
  /\ readers_got \in [Readers -> Data]

\* An index below twice the length of the array wraps around once.
LEMMA Cell ==
  ASSUME F!FifoAssumption, NEW k \in Nat, k < 2 * FIFO_LEN
  PROVE  /\ k % FIFO_LEN = IF k < FIFO_LEN THEN k ELSE k - FIFO_LEN
         /\ k % FIFO_LEN \in F!Slots
<1> USE DEF F!FifoAssumption, F!Slots
<1>1. CASE k < FIFO_LEN
  BY <1>1
<1>2. CASE k >= FIFO_LEN
  BY <1>2
<1> QED BY <1>1, <1>2

\* So many cells of the array D from cell h on.
Ring(D, h, len) == [i \in 1..len |-> D[(h + i - 1) % FIFO_LEN]]

\* They are a sequence, and where each of its elements lies.
LEMMA RingIsSeq ==
  ASSUME F!FifoAssumption, NEW D \in [F!Slots -> Data], NEW h \in F!Slots,
         NEW len \in 0..FIFO_LEN
  PROVE  /\ Ring(D, h, len) \in Seq(Data) /\ Len(Ring(D, h, len)) = len
         /\ \A i \in 1..len :
              Ring(D, h, len)[i] = D[IF h + i - 1 < FIFO_LEN THEN h + i - 1
                                                            ELSE h + i - 1 - FIFO_LEN]
<1>1. FIFO_LEN \in Nat \ {0} /\ len \in Nat /\ len <= FIFO_LEN /\ h \in Nat
      /\ h < FIFO_LEN
  BY DEF F!FifoAssumption, F!Slots
<1>2. ASSUME NEW i \in 1..len
      PROVE  /\ (h + i - 1) % FIFO_LEN = IF h + i - 1 < FIFO_LEN THEN h + i - 1
                                                            ELSE h + i - 1 - FIFO_LEN
             /\ D[(h + i - 1) % FIFO_LEN] \in Data
  <2>1. PICK k \in Nat : k = h + i - 1 /\ k < 2 * FIFO_LEN
    BY <1>1
  <2>2. k % FIFO_LEN \in F!Slots
        /\ k % FIFO_LEN = IF k < FIFO_LEN THEN k ELSE k - FIFO_LEN
    BY <2>1, Cell
  <2>3. (h + i - 1) % FIFO_LEN = k % FIFO_LEN
    BY <2>1, Zenon
  <2>4. D[k % FIFO_LEN] \in Data
    BY <2>2
  <2>5. D[(h + i - 1) % FIFO_LEN] \in Data
    BY <2>3, <2>4, Zenon
  <2>6. (h + i - 1) % FIFO_LEN = IF k < FIFO_LEN THEN k ELSE k - FIFO_LEN
    BY <2>2, <2>3, Zenon
  <2> QED BY <1>1, <2>1, <2>5, <2>6
<1>3. Ring(D, h, len) \in [1..len -> Data]
  BY <1>2 DEF Ring
<1>4. Ring(D, h, len) \in Seq(Data)
  BY <1>1, <1>3, SeqDef
<1>5. Len(Ring(D, h, len)) = len
  BY <1>1, <1>3, <1>4, LenProperties
<1> QED BY <1>2, <1>4, <1>5 DEF Ring

\* The contents of the device are such a ring.
LEMMA ContentsAre ==
  ASSUME F!FifoAssumption, FifoInv
  PROVE  /\ F!Contents \in Seq(Data) /\ Len(F!Contents) = contents
         /\ \A i \in 1..contents :
              F!Contents[i] = data[IF head + i - 1 < FIFO_LEN THEN head + i - 1
                                                            ELSE head + i - 1 - FIFO_LEN]
<1>1. F!Contents = Ring(data, head, contents)
  BY DEF F!Contents, Ring
<1> QED BY <1>1, RingIsSeq DEF FifoInv

\* The same in the next state.
LEMMA ContentsAreNext ==
  ASSUME F!FifoAssumption, FifoInv'
  PROVE  /\ F!Contents' \in Seq(Data) /\ Len(F!Contents') = contents'
         /\ \A i \in 1..contents' :
              F!Contents'[i] = data'[IF head' + i - 1 < FIFO_LEN THEN head' + i - 1
                                                            ELSE head' + i - 1 - FIFO_LEN]
<1>1. F!Contents' = Ring(data', head', contents')
  BY DEF F!Contents, Ring
<1> QED BY <1>1, RingIsSeq DEF FifoInv

\* push_char appends to the contents.
LEMMA PushKeepsInv ==
  ASSUME F!FifoAssumption, FifoInv, NEW x \in Data, F!push_char(x),
         contents # FIFO_LEN, UNCHANGED readers_got
  PROVE  FifoInv' /\ F!Contents' = Append(F!Contents, x)
<1>1. /\ FIFO_LEN \in Nat \ {0} /\ contents \in Nat /\ contents < FIFO_LEN
      /\ head \in Nat /\ head < FIFO_LEN /\ tail \in Nat /\ tail < FIFO_LEN
  BY DEF F!FifoAssumption, FifoInv, F!Slots
<1>2. data' = [data EXCEPT ![tail] = x] /\ tail' = (tail + 1) % FIFO_LEN
      /\ contents' = contents + 1 /\ head' = head
  BY DEF F!push_char
<1>3. tail = IF head + contents < FIFO_LEN THEN head + contents ELSE head + contents - FIFO_LEN
  <2>1. PICK k \in Nat : k = head + contents /\ k < 2 * FIFO_LEN
    BY <1>1
  <2>2. k % FIFO_LEN = IF k < FIFO_LEN THEN k ELSE k - FIFO_LEN
    BY <2>1, Cell
  <2>3. tail = k % FIFO_LEN
    BY <2>1, Zenon DEF FifoInv
  <2>4. tail = IF k < FIFO_LEN THEN k ELSE k - FIFO_LEN
    BY <2>2, <2>3, Zenon
  <2> QED BY <1>1, <2>1, <2>4
<1>4. tail' \in F!Slots /\ tail' = (head + (contents + 1)) % FIFO_LEN
  <2>1. PICK k \in Nat : k = tail + 1 /\ k < 2 * FIFO_LEN
    BY <1>1
  <2>2. k % FIFO_LEN \in F!Slots
        /\ k % FIFO_LEN = IF k < FIFO_LEN THEN k ELSE k - FIFO_LEN
    BY <2>1, Cell
  <2>3. PICK m \in Nat : m = head + (contents + 1) /\ m < 2 * FIFO_LEN
    BY <1>1
  <2>4. m % FIFO_LEN = IF m < FIFO_LEN THEN m ELSE m - FIFO_LEN
    BY <2>3, Cell
  <2>5. k % FIFO_LEN = m % FIFO_LEN
    BY <1>1, <1>3, <2>1, <2>2, <2>3, <2>4
  <2> QED BY <1>2, <2>1, <2>2, <2>3, <2>5
<1>5. FifoInv'
  BY <1>1, <1>2, <1>4 DEF FifoInv
<1>6. /\ F!Contents' \in Seq(Data) /\ Len(F!Contents') = contents + 1
      /\ \A i \in 1..(contents + 1) :
           F!Contents'[i] = data'[IF head + i - 1 < FIFO_LEN THEN head + i - 1
                                                          ELSE head + i - 1 - FIFO_LEN]
  BY <1>2, <1>5, ContentsAreNext
<1>7. /\ Append(F!Contents, x) \in Seq(Data)
         /\ Len(Append(F!Contents, x)) = contents + 1
      /\ \A i \in 1..contents : Append(F!Contents, x)[i] = F!Contents[i]
      /\ Append(F!Contents, x)[contents + 1] = x
  BY <1>1, ContentsAre
<1>8. ASSUME NEW i \in 1..(contents + 1)
      PROVE  F!Contents'[i] = Append(F!Contents, x)[i]
  <2> DEFINE cell == IF head + i - 1 < FIFO_LEN THEN head + i - 1 ELSE head + i - 1 - FIFO_LEN
  <2>1. cell \in F!Slots
    BY <1>1 DEF F!Slots
  <2>2. CASE i = contents + 1
    <3>1. cell = tail
      BY <1>1, <1>3, <2>2
    <3>2. data'[tail] = x
      BY <1>2 DEF FifoInv
    <3> HIDE DEF cell
    <3>3. F!Contents'[i] = data'[cell]
      BY <1>6 DEF cell
    <3> QED BY <1>7, <2>2, <3>1, <3>2, <3>3
  <2>3. CASE i \in 1..contents
    <3>1. cell # tail
      BY <1>1, <1>3, <2>3
    <3> HIDE DEF cell
    <3>2. data'[cell] = data[cell]
      BY <1>2, <2>1, <3>1 DEF FifoInv
    <3>3. F!Contents[i] = data[cell]
      BY <2>3, ContentsAre DEF cell
    <3>4. F!Contents'[i] = data'[cell]
      BY <1>6 DEF cell
    <3> QED BY <1>7, <2>3, <3>2, <3>3, <3>4
  <2>4. i = contents + 1 \/ i \in 1..contents
    BY <1>1
  <2> QED BY <2>2, <2>3, <2>4
<1>9. F!Contents' = Append(F!Contents, x)
  BY <1>6, <1>7, <1>8, SeqEqual
<1> QED BY <1>5, <1>9

\* pull_char takes the first of the contents.
LEMMA PullKeepsInv ==
  ASSUME F!FifoAssumption, FifoInv, NEW r \in Readers, F!pull_char, contents # 0,
         readers_got' = [readers_got EXCEPT ![r] = data[head]]
  PROVE  FifoInv' /\ F!Contents # <<>> /\ data[head] = Head(F!Contents)
         /\ F!Contents' = Tail(F!Contents)
<1>1. /\ FIFO_LEN \in Nat \ {0} /\ contents \in Nat \ {0} /\ contents <= FIFO_LEN
      /\ head \in Nat /\ head < FIFO_LEN /\ contents - 1 \in 0..FIFO_LEN
  BY DEF F!FifoAssumption, FifoInv, F!Slots
<1>2. head' = (head + 1) % FIFO_LEN /\ contents' = contents - 1 /\ data' = data
      /\ tail' = tail
  BY DEF F!pull_char
<1>3. head' \in F!Slots /\ head' = IF head + 1 < FIFO_LEN THEN head + 1 ELSE 0
  <2>1. PICK k \in Nat : k = head + 1 /\ k < 2 * FIFO_LEN
    BY <1>1
  <2>2. k % FIFO_LEN \in F!Slots
        /\ k % FIFO_LEN = IF k < FIFO_LEN THEN k ELSE k - FIFO_LEN
    BY <2>1, Cell
  <2> QED BY <1>1, <1>2, <2>1, <2>2
<1>4. tail = (head' + (contents - 1)) % FIFO_LEN
  <2>1. PICK k \in Nat : k = head + contents /\ k < 2 * FIFO_LEN
    BY <1>1
  <2>2. k % FIFO_LEN = IF k < FIFO_LEN THEN k ELSE k - FIFO_LEN
    BY <2>1, Cell
  <2>3. PICK m \in Nat : m = head' + (contents - 1) /\ m < 2 * FIFO_LEN
    BY <1>1, <1>3
  <2>4. m % FIFO_LEN = IF m < FIFO_LEN THEN m ELSE m - FIFO_LEN
    BY <2>3, Cell
  <2>5. k % FIFO_LEN = m % FIFO_LEN
    BY <1>1, <1>3, <2>1, <2>2, <2>3, <2>4
  <2> QED BY <2>1, <2>3, <2>5 DEF FifoInv
<1>5. FifoInv'
  BY <1>1, <1>2, <1>3, <1>4 DEF FifoInv
<1>6. /\ F!Contents' \in Seq(Data) /\ Len(F!Contents') = contents - 1
      /\ \A i \in 1..(contents - 1) :
           F!Contents'[i] = data[IF head' + i - 1 < FIFO_LEN THEN head' + i - 1
                                                          ELSE head' + i - 1 - FIFO_LEN]
  BY <1>2, <1>5, ContentsAreNext
<1>7. F!Contents \in Seq(Data) /\ Len(F!Contents) = contents
      /\ F!Contents[1] = data[head]
  <2>1. (IF head + 1 - 1 < FIFO_LEN THEN head + 1 - 1 ELSE head + 1 - 1 - FIFO_LEN) = head
    BY <1>1
  <2>2. 1 \in 1..contents
    BY <1>1
  <2> QED BY <2>1, <2>2, ContentsAre
<1>8. /\ F!Contents # <<>> /\ Head(F!Contents) = F!Contents[1]
         /\ Tail(F!Contents) \in Seq(Data)
      /\ Len(Tail(F!Contents)) = contents - 1
      /\ \A i \in 1..(contents - 1) : Tail(F!Contents)[i] = F!Contents[i + 1]
  BY <1>1, <1>7
<1>9. ASSUME NEW i \in 1..(contents - 1) PROVE F!Contents'[i] = F!Contents[i + 1]
  <2>1. i + 1 \in 1..contents
    BY <1>1
  <2>2. (IF head' + i - 1 < FIFO_LEN THEN head' + i - 1 ELSE head' + i - 1 - FIFO_LEN)
        = (IF head + (i + 1) - 1 < FIFO_LEN THEN head + (i + 1) - 1 ELSE head + (i + 1) - 1 - FIFO_LEN)
    BY <1>1, <1>3
  <2> QED BY <1>6, <2>1, <2>2, ContentsAre
<1>10. F!Contents' = Tail(F!Contents)
  BY <1>6, <1>8, <1>9, SeqEqual
<1> QED BY <1>5, <1>7, <1>8, <1>10

\* The device starts empty.
LEMMA InitFifo == ASSUME F!FifoAssumption, F!Init PROVE FifoInv /\ F!Abstract!Init
<1>1. FifoInv
  <2>1. FIFO_LEN \in Nat \ {0} /\ 0 \in Nat /\ 0 < 2 * FIFO_LEN /\ 0 < FIFO_LEN
    BY DEF F!FifoAssumption
  <2>2. 0 % FIFO_LEN = 0
    BY <2>1, Cell
  <2> QED BY <2>1, <2>2 DEF F!FifoAssumption, F!Init, FifoInv, F!Slots
<1>2. F!Contents = <<>>
  BY <1>1, ContentsAre, EmptySeq DEF F!Init
<1> QED BY <1>1, <1>2 DEF FifoInv, F!Abstract!Init

\* Every step of the device is a put, a get or no step of the queue.
LEMMA NextFifo ==
  ASSUME F!FifoAssumption, FifoInv, [F!Next]_(F!vars)
  PROVE  FifoInv' /\ [F!Abstract!Next]_(F!Abstract!vars)
<1>1. ASSUME UNCHANGED <<data, head, tail, contents, readers_got>>
      PROVE  FifoInv' /\ [F!Abstract!Next]_(F!Abstract!vars)
  BY <1>1 DEF FifoInv, F!Contents, F!Abstract!vars
<1>2. ASSUME NEW r \in Readers, F!ReadChar(r)
      PROVE  FifoInv' /\ [F!Abstract!Next]_(F!Abstract!vars)
  <2>1. /\ FifoInv' /\ F!Contents # <<>> /\ data[head] = Head(F!Contents)
           /\ F!Contents' = Tail(F!Contents)
        /\ readers_got' = [readers_got EXCEPT ![r] = data[head]]
    BY <1>2, PullKeepsInv DEF F!ReadChar
  <2> QED BY <2>1 DEF F!Abstract!Next, F!Abstract!Get
<1>3. ASSUME NEW w \in Writers, F!WriteChar(w)
      PROVE  FifoInv' /\ [F!Abstract!Next]_(F!Abstract!vars)
  <2>1. PICK x \in Data : F!push_char(x)
    BY <1>3 DEF F!WriteChar
  <2>2. contents # FIFO_LEN /\ readers_got' = readers_got
    BY <1>3 DEF F!WriteChar
  <2>3. FifoInv' /\ F!Contents' = Append(F!Contents, x)
    BY <2>1, <2>2, PushKeepsInv
  <2>4. Len(F!Contents) < FIFO_LEN
    BY <2>2, ContentsAre DEF FifoInv, F!FifoAssumption
  <2> QED BY <2>2, <2>3, <2>4 DEF F!Abstract!Next, F!Abstract!Put
<1>4. CASE UNCHANGED F!vars
  BY <1>1, <1>4 DEF F!vars, F!queueVars
<1>5. CASE \E r \in Readers : F!OpenRead(r) \/ F!ReadEOF(r) \/ F!ReadSleep(r)
           \/ F!CloseRead(r)
  BY <1>1, <1>5 DEF F!OpenRead, F!ReadEOF, F!ReadSleep, F!CloseRead, F!queueVars
<1>6. CASE \E w \in Writers : F!OpenWrite(w) \/ F!WriteSleep(w) \/ F!CloseWrite(w)
  BY <1>1, <1>6 DEF F!OpenWrite, F!WriteSleep, F!CloseWrite, F!queueVars
<1>7. CASE \E p \in F!Procs : F!Interrupt(p)
  BY <1>1, <1>7 DEF F!Interrupt, F!queueVars
<1> QED BY <1>2, <1>3, <1>4, <1>5, <1>6, <1>7 DEF F!Next, F!read_char, F!write_char

\* ImplementsQueue: the circular array of the fifo device is a bounded fifo
\* queue, for any length of the array and any readers and writers,
\* interrupted or not.
THEOREM FifoIsQueue == ASSUME F!FifoAssumption PROVE F!Spec => F!ImplementsQueue
<1>1. F!Init => FifoInv /\ F!Abstract!Init BY InitFifo
<1>2. FifoInv /\ [F!Next]_(F!vars) => FifoInv' /\ [F!Abstract!Next]_(F!Abstract!vars)
  BY NextFifo
<1> QED BY <1>1, <1>2, PTL DEF F!Spec, F!ImplementsQueue, F!Abstract!Spec

------------------------------------------------------------------------------
(* The monitors: at a box a thread gets its own message back, nobody waits *)
(* without a reason, and the whole is a queue.                             *)

\* The types of the monitors, and the room in the queue.
MonitorTypes ==
  /\ monitor \in MonitorPrograms
  /\ queue \in Seq(Messages) /\ Len(queue) <= M!Capacity
  /\ op \in [M!Threads -> {"put", "get"}]
  /\ {msg, monitor_got} \subseteq [M!Threads -> Messages]
  /\ monitor_pc \in [M!Threads -> {"begin", "waiting", "woken", "signal", "done"}]
  /\ \A t \in M!Threads : monitor_pc[t] = "signal" => monitor = "BoxMon"

\* Thread t has put its message into the box and not got it back.
Owns(t) ==
  \/ op[t] = "put" /\ monitor_pc[t] = "signal"
  \/ op[t] = "get" /\ monitor_pc[t] \in {"begin", "waiting", "woken"}

\* At a box with room for one message the thread that has put its own owns
\* the box until it has got it back, and does not wait.
BoxInv ==
  monitor # "PC" =>
    /\ \A t \in M!Threads : Owns(t) => queue = <<msg[t]>> /\ monitor_pc[t] # "waiting"
    /\ \A t, u \in M!Threads : Owns(t) /\ Owns(u) => t = u
    /\ queue # <<>> => \E t \in M!Threads : Owns(t)
    /\ \A t \in M!Threads : op[t] = "get"
       /\ monitor_pc[t] \in {"signal", "done"} => monitor_got[t] = msg[t]
    /\ \A t \in M!Threads : monitor_pc[t] = "done" => op[t] = "get"

\* The inductive invariant of the monitors.
MonitorsInv == MonitorTypes /\ BoxInv /\ M!WaitersHaveReason

\* RemoveFirst of the head of a sequence is its tail.
LEMMA RemoveHead ==
  ASSUME NEW S, NEW q \in Seq(S), q # <<>>
  PROVE  M!RemoveFirst(q, Head(q)) = Tail(q)
<1> DEFINE I == {i \in 1..Len(q) : q[i] = Head(q)}
<1>1. Len(q) \in Nat \ {0} /\ Head(q) = q[1]
  OBVIOUS
<1>2. 1 \in I /\ \A j \in I : j \in Nat /\ 1 <= j
  BY <1>1
<1>3. M!Min(I) = 1
  BY <1>2 DEF M!Min
<1>a. M!RemoveFirst(q, Head(q)) = M!RemoveAt(q, M!Min(I))
  BY <1>2 DEF M!RemoveFirst, M!SelectInSeq
<1>4. M!RemoveFirst(q, Head(q)) = SubSeq(q, 1, 0) \o SubSeq(q, 2, Len(q))
  <2>1. M!RemoveAt(q, 1) = SubSeq(q, 1, 1 - 1) \o SubSeq(q, 1 + 1, Len(q))
    BY Zenon DEF M!RemoveAt
  <2>2. 1 - 1 = 0 /\ 1 + 1 = 2
    OBVIOUS
  <2> QED BY <1>a, <1>3, <2>1, <2>2, Zenon
<1>5. SubSeq(q, 1, 0) = <<>> /\ SubSeq(q, 2, Len(q)) = Tail(q)
  BY <1>1
<1>6. Tail(q) \in Seq(S)
  BY <1>1
<1> QED BY <1>4, <1>5, <1>6

\* Every monitor starts empty, with nobody at it.
LEMMA MonitorsInit == ASSUME M!MonitorsAssumption, M!Init PROVE MonitorsInv
<1>1. M!NoMessageYet \in Messages
  BY DEF M!NoMessageYet, M!MonitorsAssumption
<1>2. MonitorTypes
  BY <1>1 DEF MonitorTypes, M!Init, M!Capacity, M!MonitorsAssumption
<1>3. BoxInv
  BY DEF M!Init, BoxInv, Owns, M!Threads, M!MonitorsAssumption
<1>4. M!WaitersHaveReason
  BY DEF M!Init, M!WaitersHaveReason, M!Waiting
<1> QED BY <1>2, <1>3, <1>4 DEF MonitorsInv

\* Who signals moves itself, and at most one waiting thread, which wakes up.
LEMMA OneSignalled ==
  ASSUME NEW t \in M!Threads, NEW p \in {"begin", "done"}, MonitorTypes,
         UNCHANGED monitor,
         M!SignalOne(t, M!Threads, p), monitor_pc[t] # "waiting"
  PROVE  /\ monitor_pc' \in [M!Threads -> {"begin", "waiting", "woken", "signal", "done"}]
         /\ monitor_pc'[t] = p
         /\ \A u \in M!Threads \ {t} : monitor_pc'[u] = monitor_pc[u]
            \/ (monitor_pc[u] = "waiting" /\ monitor_pc'[u] = "woken")
<1>1. CASE monitor_pc' = [monitor_pc EXCEPT ![t] = p]
  BY <1>1 DEF MonitorTypes
<1>2. CASE \E w \in M!Waiting(M!Threads) : monitor_pc' = [monitor_pc EXCEPT ![t] = p, ![w] = "woken"]
  <2>1. PICK w \in M!Threads : monitor_pc[w] = "waiting"
        /\ monitor_pc' = [monitor_pc EXCEPT ![t] = p, ![w] = "woken"]
    BY <1>2 DEF M!Waiting
  <2>2. w # t
    BY <2>1
  <2> QED BY <2>1, <2>2 DEF MonitorTypes
<1> QED BY <1>1, <1>2 DEF M!SignalOne

\* After a broadcast nobody waits.
LEMMA AllSignalled ==
  ASSUME NEW t \in M!Threads, NEW p \in {"begin", "done"}, MonitorTypes,
         UNCHANGED monitor,
         M!SignalAll(t, M!Threads, p)
  PROVE  /\ monitor_pc' \in [M!Threads -> {"begin", "waiting", "woken", "signal", "done"}]
         /\ \A u \in M!Threads : monitor_pc'[u] # "waiting"
            /\ (monitor_pc'[u] = "signal" => monitor_pc[u] = "signal")
  BY DEF MonitorTypes, M!SignalAll, M!Waiting

\* What a put or a get does to the queue and to what the thread has got.
LEMMA TransferTypes ==
  ASSUME M!MonitorsAssumption, MonitorTypes, NEW t \in M!Threads, M!Enter(t),
         M!Transfer(t)
  PROVE  /\ queue' \in Seq(Messages) /\ Len(queue') <= M!Capacity
         /\ monitor_got' \in [M!Threads -> Messages]
         /\ \A u \in M!Threads \ {t} : monitor_got'[u] = monitor_got[u]
         /\ op[t] = "put" => /\ queue' = Append(queue, msg[t]) /\ msg[t] \in Messages
                             /\ Len(queue) < M!Capacity /\ monitor_got' = monitor_got
         /\ op[t] = "get" => /\ queue' = Tail(queue) /\ queue # <<>>
                             /\ monitor_got' = [monitor_got EXCEPT ![t] = Head(queue)] /\ monitor_got'[t] = Head(queue)
<1>0. M!Capacity \in Nat
  BY DEF M!MonitorsAssumption, M!Capacity
<1>1. CASE op[t] = "put"
  BY <1>0, <1>1 DEF MonitorTypes, M!Enter, M!MustWait, M!Transfer
<1>2. CASE op[t] = "get"
  <2>1. queue # <<>>
    BY <1>2 DEF M!Enter, M!MustWait
  <2>2. queue' = Tail(queue) /\ monitor_got' = [monitor_got EXCEPT ![t] = Head(queue)]
    BY <1>2, <2>1, RemoveHead DEF M!Transfer, MonitorTypes
  <2>3. Head(queue) \in Messages /\ Tail(queue) \in Seq(Messages)
        /\ Len(Tail(queue)) = Len(queue) - 1
        /\ Len(queue) \in Nat
    BY <2>1 DEF MonitorTypes
  <2> QED BY <1>0, <1>2, <2>1, <2>2, <2>3 DEF MonitorTypes
<1> QED BY <1>1, <1>2 DEF MonitorTypes

\* At a box a put finds it empty, and a get finds the thread's own message.
LEMMA BoxTransfer ==
  ASSUME M!MonitorsAssumption, MonitorsInv, NEW t \in M!Threads, monitor # "PC",
         M!Enter(t), M!Transfer(t)
  PROVE  /\ op[t] = "put" => queue = <<>> /\ queue' = <<msg[t]>>
            /\ monitor_got' = monitor_got /\ \A u \in M!Threads : ~Owns(u)
         /\ op[t] = "get" => queue' = <<>> /\ monitor_got'[t] = msg[t] /\ Owns(t)
<1>1. CASE op[t] = "put"
  <2>1. Len(queue) < 1 /\ queue' = Append(queue, msg[t]) /\ monitor_got' = monitor_got
    BY <1>1, TransferTypes DEF MonitorsInv, M!Capacity
  <2>2. queue = <<>>
    BY <2>1 DEF MonitorsInv, MonitorTypes
  <2>3. \A u \in M!Threads : ~Owns(u)
    BY <2>2 DEF MonitorsInv, BoxInv
  <2> QED BY <1>1, <2>1, <2>2, <2>3
<1>2. CASE op[t] = "get"
  <2>1. Owns(t)
    BY <1>2 DEF Owns, M!Enter
  <2>2. queue = <<msg[t]>>
    BY <2>1 DEF MonitorsInv, BoxInv
  <2>3. queue' = Tail(queue) /\ monitor_got'[t] = Head(queue)
    BY <1>2, TransferTypes DEF MonitorsInv
  <2> QED BY <1>2, <2>1, <2>2, <2>3
<1> QED BY <1>1, <1>2 DEF MonitorsInv, MonitorTypes

\* Only a thread that must wait does so, and at a box that is no owner.
LEMMA WaitStep ==
  ASSUME M!MonitorsAssumption, MonitorsInv, NEW t \in M!Threads, M!Wait(t)
  PROVE  MonitorsInv'
<1>a. /\ monitor_pc[t] \in {"begin", "woken"} /\ M!MustWait(t)
         /\ monitor_pc' = [monitor_pc EXCEPT ![t] = "waiting"]
      /\ UNCHANGED <<monitor, queue, op, msg, monitor_got>> /\ M!Threads' = M!Threads
  BY DEF M!Wait, M!Threads
<1>b. monitor_pc'[t] = "waiting"
      /\ \A u \in M!Threads \ {t} : monitor_pc'[u] = monitor_pc[u]
  BY <1>a DEF MonitorsInv, MonitorTypes
<1>1. MonitorTypes'
  BY <1>a DEF MonitorsInv, MonitorTypes, M!Threads, M!Capacity
<1>2. BoxInv'
  <2> SUFFICES ASSUME monitor # "PC" PROVE BoxInv'
    BY <1>a DEF BoxInv
  <2>1. op[t] = "put"
    <3> SUFFICES ASSUME op[t] = "get" PROVE FALSE
      BY DEF MonitorsInv, MonitorTypes
    <3>1. queue = <<msg[t]>>
      BY <1>a DEF MonitorsInv, BoxInv, Owns
    <3> QED BY <1>a, <3>1 DEF M!MustWait
  <2>2. \A u \in M!Threads : Owns(u)' <=> Owns(u)
    BY <1>a, <1>b, <2>1 DEF Owns
  <2>3. \A u \in M!Threads : monitor_pc'[u] \in {"signal", "done"} =>
          monitor_pc'[u] = monitor_pc[u]
    BY <1>b
  <2>4. \A u \in M!Threads : Owns(u) => monitor_pc'[u] # "waiting"
    BY <1>a, <1>b, <2>1 DEF MonitorsInv, BoxInv, Owns
  <2> QED BY <1>a, <2>2, <2>3, <2>4 DEF MonitorsInv, BoxInv
<1>3. M!WaitersHaveReason'
  BY <1>a, <1>b
     DEF MonitorsInv, M!WaitersHaveReason, M!Waiting, M!MustWait, M!Capacity
<1> QED BY <1>1, <1>2, <1>3 DEF MonitorsInv

\* BoxMon: a thread transfers its message and goes to signal.
LEMMA BoxMonStep ==
  ASSUME M!MonitorsAssumption, MonitorsInv, NEW t \in M!Threads, M!BoxMon(t)
  PROVE  MonitorsInv'
<1>a. /\ monitor = "BoxMon" /\ M!Enter(t) /\ M!Transfer(t)
         /\ monitor_pc' = [monitor_pc EXCEPT ![t] = "signal"]
      /\ UNCHANGED <<monitor, op, msg>> /\ M!Threads' = M!Threads
  BY DEF M!BoxMon, M!Threads
<1>b. monitor_pc'[t] = "signal"
      /\ \A u \in M!Threads \ {t} : monitor_pc'[u] = monitor_pc[u]
  BY <1>a DEF MonitorsInv, MonitorTypes
<1>c. /\ queue' \in Seq(Messages) /\ Len(queue') <= M!Capacity
      /\ monitor_got' \in [M!Threads -> Messages]
         /\ \A u \in M!Threads \ {t} : monitor_got'[u] = monitor_got[u]
  BY <1>a, TransferTypes DEF MonitorsInv
<1>1. MonitorTypes'
  BY <1>a, <1>c DEF MonitorsInv, MonitorTypes, M!Threads, M!Capacity
<1>2. BoxInv'
  <2>0. /\ op[t] = "put" => queue = <<>> /\ queue' = <<msg[t]>>
           /\ monitor_got' = monitor_got /\ \A u \in M!Threads : ~Owns(u)
        /\ op[t] = "get" => queue' = <<>> /\ monitor_got'[t] = msg[t] /\ Owns(t)
    BY <1>a, BoxTransfer
  <2>1. \A u \in M!Threads \ {t} : Owns(u)' <=> Owns(u)
    BY <1>a, <1>b DEF Owns
  <2>2. Owns(t)' <=> op[t] = "put"
    BY <1>a, <1>b DEF Owns
  <2>3. CASE op[t] = "put"
    BY <1>a, <1>b, <2>0, <2>1, <2>2, <2>3 DEF MonitorsInv, BoxInv
  <2>4. CASE op[t] = "get"
    <3>1. \A u \in M!Threads : ~Owns(u)'
      BY <1>a, <2>0, <2>1, <2>2, <2>4 DEF MonitorsInv, BoxInv
    <3> QED BY <1>a, <1>b, <1>c, <2>0, <2>4, <3>1 DEF MonitorsInv, BoxInv
  <2> QED BY <2>3, <2>4 DEF MonitorsInv, MonitorTypes
<1>3. M!WaitersHaveReason'
  BY <1>a DEF M!WaitersHaveReason
<1> QED BY <1>1, <1>2, <1>3 DEF MonitorsInv

\* BoxMon: the signal wakes at most one thread, and the signaller goes on.
LEMMA SignalStep ==
  ASSUME M!MonitorsAssumption, MonitorsInv, NEW t \in M!Threads, M!Signal(t),
         monitor = "BoxMon"
  PROVE  MonitorsInv'
<1>a. /\ monitor_pc[t] = "signal" /\ M!SignalOne(t, M!Threads, M!After(t))
         /\ M!Threads' = M!Threads
      /\ op' = [op EXCEPT ![t] = "get"]
      /\ UNCHANGED <<monitor, queue, msg, monitor_got>>
  BY DEF M!Signal, M!Threads, M!Continue
<1>b. M!After(t) = IF op[t] = "get" THEN "done" ELSE "begin"
  BY DEF M!After
<1>c. /\ monitor_pc' \in [M!Threads -> {"begin", "waiting", "woken", "signal", "done"}]
      /\ monitor_pc'[t] = M!After(t)
      /\ \A u \in M!Threads \ {t} : monitor_pc'[u] = monitor_pc[u]
         \/ (monitor_pc[u] = "waiting" /\ monitor_pc'[u] = "woken")
  BY <1>a, <1>b, OneSignalled DEF MonitorsInv
<1>d. op'[t] = "get" /\ op' \in [M!Threads -> {"put", "get"}]
      /\ \A u \in M!Threads \ {t} : op'[u] = op[u]
  BY <1>a DEF MonitorsInv, MonitorTypes
<1>1. MonitorTypes'
  BY <1>a, <1>c, <1>d DEF MonitorsInv, MonitorTypes, M!Threads, M!Capacity
<1>2. BoxInv'
  <2>1. \A u \in M!Threads : Owns(u)' <=> Owns(u)
    BY <1>a, <1>b, <1>c, <1>d DEF Owns, MonitorsInv, MonitorTypes
  <2>2. \A u \in M!Threads : Owns(u) => monitor_pc'[u] # "waiting"
    BY <1>a, <1>b, <1>c DEF MonitorsInv, BoxInv
  <2>3. \A u \in M!Threads : op'[u] = "get"
        /\ monitor_pc'[u] \in {"signal", "done"} =>
          op[u] = "get" /\ monitor_pc[u] \in {"signal", "done"}
    BY <1>a, <1>b, <1>c, <1>d
  <2>4. \A u \in M!Threads : monitor_pc'[u] = "done" => op'[u] = "get"
    BY <1>a, <1>c, <1>d DEF MonitorsInv, BoxInv
  <2> QED BY <1>a, <2>1, <2>2, <2>3, <2>4 DEF MonitorsInv, BoxInv
<1>3. M!WaitersHaveReason'
  BY <1>a DEF M!WaitersHaveReason
<1> QED BY <1>1, <1>2, <1>3 DEF MonitorsInv

\* TryBox: a thread transfers its message, signals and goes on in one step.
LEMMA TryBoxStep ==
  ASSUME M!MonitorsAssumption, MonitorsInv, NEW t \in M!Threads, M!TryBox(t)
  PROVE  MonitorsInv'
<1>a. /\ monitor = "TryBox" /\ M!Enter(t) /\ M!Transfer(t)
         /\ M!SignalOne(t, M!Threads, M!After(t))
      /\ M!Threads' = M!Threads
      /\ op' = [op EXCEPT ![t] = "get"]
      /\ UNCHANGED <<monitor, msg>>
  BY DEF M!TryBox, M!Threads, M!Continue
<1>b. M!After(t) = (IF op[t] = "get" THEN "done" ELSE "begin")
      /\ monitor_pc[t] \in {"begin", "woken"}
  BY <1>a DEF M!After, M!Enter
<1>c. /\ monitor_pc' \in [M!Threads -> {"begin", "waiting", "woken", "signal", "done"}]
      /\ monitor_pc'[t] = M!After(t)
      /\ \A u \in M!Threads \ {t} : monitor_pc'[u] = monitor_pc[u]
         \/ (monitor_pc[u] = "waiting" /\ monitor_pc'[u] = "woken")
  BY <1>a, <1>b, OneSignalled DEF MonitorsInv
<1>d. op'[t] = "get" /\ op' \in [M!Threads -> {"put", "get"}]
      /\ \A u \in M!Threads \ {t} : op'[u] = op[u]
  BY <1>a DEF MonitorsInv, MonitorTypes
<1>e. /\ queue' \in Seq(Messages) /\ Len(queue') <= M!Capacity
      /\ monitor_got' \in [M!Threads -> Messages]
         /\ \A u \in M!Threads \ {t} : monitor_got'[u] = monitor_got[u]
  BY <1>a, TransferTypes DEF MonitorsInv
<1>f. \A u \in M!Threads : monitor_pc'[u] # "signal"
  BY <1>a, <1>b, <1>c DEF MonitorsInv, MonitorTypes
<1>1. MonitorTypes'
  BY <1>a, <1>c, <1>d, <1>e, <1>f DEF MonitorsInv, MonitorTypes, M!Threads, M!Capacity
<1>2. BoxInv'
  <2>0. /\ op[t] = "put" => queue = <<>> /\ queue' = <<msg[t]>>
           /\ monitor_got' = monitor_got /\ \A u \in M!Threads : ~Owns(u)
        /\ op[t] = "get" => queue' = <<>> /\ monitor_got'[t] = msg[t] /\ Owns(t)
    BY <1>a, BoxTransfer
  <2>1. \A u \in M!Threads \ {t} : Owns(u)' => Owns(u)
    BY <1>c, <1>d DEF Owns
  <2>2. Owns(t)' <=> op[t] = "put"
    BY <1>b, <1>c, <1>d DEF Owns, MonitorsInv, MonitorTypes
  <2>3. \A u \in M!Threads \ {t} : op'[u] = "get"
        /\ monitor_pc'[u] \in {"signal", "done"} =>
          op[u] = "get" /\ monitor_pc[u] \in {"signal", "done"}
    BY <1>c, <1>d
  <2>4. \A u \in M!Threads : monitor_pc'[u] = "done" => op'[u] = "get"
    BY <1>a, <1>c, <1>d DEF MonitorsInv, BoxInv
  <2>5. CASE op[t] = "put"
    BY <1>a, <1>b, <1>c, <2>0, <2>1, <2>2, <2>3, <2>4, <2>5 DEF MonitorsInv, BoxInv
  <2>6. CASE op[t] = "get"
    <3>1. \A u \in M!Threads : ~Owns(u)'
      BY <1>a, <2>0, <2>1, <2>2, <2>6 DEF MonitorsInv, BoxInv
    <3> QED BY <1>a, <1>e, <2>0, <2>6, <2>3, <2>4, <3>1 DEF MonitorsInv, BoxInv
  <2> QED BY <2>5, <2>6 DEF MonitorsInv, MonitorTypes
<1>3. M!WaitersHaveReason'
  BY <1>a DEF M!WaitersHaveReason
<1> QED BY <1>1, <1>2, <1>3 DEF MonitorsInv

\* The producers and consumers transfer and wake all.
LEMMA PCStep ==
  ASSUME M!MonitorsAssumption, MonitorsInv, NEW t \in M!Threads, M!PC(t)
  PROVE  MonitorsInv'
<1>a. /\ monitor = "PC" /\ M!Enter(t) /\ M!Transfer(t)
         /\ M!SignalAll(t, M!Threads, "begin")
      /\ M!Threads' = M!Threads /\ M!Capacity' = M!Capacity
      /\ op' = [op EXCEPT ![t] = op[t]]
      /\ (\E m \in Messages : msg' = [msg EXCEPT ![t] = m]) \/ UNCHANGED msg
      /\ UNCHANGED <<monitor>>
  BY DEF M!PC, M!Threads, M!Continue, M!Capacity, M!After
<1>b. /\ monitor_pc' \in [M!Threads -> {"begin", "waiting", "woken", "signal", "done"}]
      /\ \A u \in M!Threads : monitor_pc'[u] # "waiting"
         /\ (monitor_pc'[u] = "signal" => monitor_pc[u] = "signal")
  BY <1>a, AllSignalled DEF MonitorsInv
<1>c. /\ queue' \in Seq(Messages) /\ Len(queue') <= M!Capacity
         /\ monitor_got' \in [M!Threads -> Messages]
  BY <1>a, TransferTypes DEF MonitorsInv
<1>d. msg' \in [M!Threads -> Messages] /\ op' \in [M!Threads -> {"put", "get"}]
  BY <1>a DEF MonitorsInv, MonitorTypes
<1>1. MonitorTypes'
  BY <1>a, <1>b, <1>c, <1>d DEF MonitorsInv, MonitorTypes
<1>2. BoxInv'
  BY <1>a DEF BoxInv
<1>3. M!WaitersHaveReason'
  BY <1>a, <1>b DEF M!WaitersHaveReason, M!Waiting
<1> QED BY <1>1, <1>2, <1>3 DEF MonitorsInv

\* A spurious wakeup changes neither the queue nor who owns it.
LEMMA MonitorWakeupStep ==
  ASSUME M!MonitorsAssumption, MonitorsInv, NEW t \in M!Threads, M!SpuriousWakeup(t)
  PROVE  MonitorsInv'
<1>a. /\ monitor_pc[t] = "waiting"
         /\ monitor_pc' = [monitor_pc EXCEPT ![t] = "woken"] /\ M!Threads' = M!Threads
      /\ UNCHANGED <<monitor, queue, op, msg, monitor_got>>
  BY DEF M!SpuriousWakeup, M!WakeSpuriously, M!Threads
<1>b. monitor_pc'[t] = "woken"
      /\ \A u \in M!Threads \ {t} : monitor_pc'[u] = monitor_pc[u]
  BY <1>a DEF MonitorsInv, MonitorTypes
<1>1. MonitorTypes'
  BY <1>a DEF MonitorsInv, MonitorTypes, M!Threads, M!Capacity
<1>2. BoxInv'
  <2> SUFFICES ASSUME monitor # "PC" PROVE BoxInv'
    BY <1>a DEF BoxInv
  <2>1. \A u \in M!Threads : Owns(u)' <=> Owns(u)
    BY <1>a, <1>b DEF Owns
  <2> QED BY <1>a, <1>b, <2>1 DEF MonitorsInv, BoxInv
<1>3. M!WaitersHaveReason'
  BY <1>a, <1>b
     DEF MonitorsInv, M!WaitersHaveReason, M!Waiting, M!MustWait, M!Capacity
<1> QED BY <1>1, <1>2, <1>3 DEF MonitorsInv

\* Every step of a monitor keeps the invariant.
LEMMA MonitorsNext ==
  ASSUME M!MonitorsAssumption, MonitorsInv, [M!Next]_(M!vars)
  PROVE  MonitorsInv'
<1>1. CASE UNCHANGED M!vars
  BY <1>1
     DEF M!vars, MonitorsInv, MonitorTypes, BoxInv, M!WaitersHaveReason, Owns,
         M!Threads, M!Capacity, M!MustWait, M!Waiting
<1>2. ASSUME NEW t \in M!Threads, M!Signal(t) PROVE monitor = "BoxMon"
  BY <1>2 DEF MonitorsInv, MonitorTypes, M!Signal
<1> QED
  BY <1>1, <1>2, WaitStep, BoxMonStep, SignalStep, TryBoxStep, PCStep,
     MonitorWakeupStep
     DEF M!Next, M!Step

\* The invariant holds always.
THEOREM MonitorsInvariant == ASSUME M!MonitorsAssumption PROVE M!Spec => []MonitorsInv
<1>1. M!Init => MonitorsInv BY MonitorsInit
<1>2. MonitorsInv /\ [M!Next]_(M!vars) => MonitorsInv' BY MonitorsNext
<1> QED BY <1>1, <1>2, PTL DEF M!Spec

\* BoxGivesOwn and WaitersHaveReason for any number of threads and any
\* capacity: in BoxMon.c and TryBox.java a thread gets back the message it
\* has put and waits only to put, and nobody waits at SharedQueue.java for a
\* message or a place that is there.
THEOREM MonitorsWaitRightly ==
  ASSUME M!MonitorsAssumption
  PROVE  M!Spec => [](M!BoxGivesOwn /\ M!WaitersHaveReason)
<1>1. MonitorsInv => M!BoxGivesOwn /\ M!WaitersHaveReason
  <2> SUFFICES ASSUME MonitorsInv, monitor # "PC", NEW t \in M!Threads
               PROVE  (monitor_pc[t] = "waiting" => op[t] = "put")
                      /\ (monitor_pc[t] = "done" => monitor_got[t] = msg[t])
    BY DEF MonitorsInv, M!BoxGivesOwn
  <2> QED BY DEF MonitorsInv, BoxInv, MonitorTypes, Owns
<1> QED BY <1>1, MonitorsInvariant, PTL

\* An empty monitor is an empty queue.
LEMMA MonitorsStartAsQueue ==
  ASSUME M!MonitorsAssumption, M!Init
  PROVE  M!Abstract!Init
<1>1. M!NoMessageYet \in Messages
  BY DEF M!NoMessageYet, M!MonitorsAssumption
<1> QED BY <1>1 DEF M!Init, M!Abstract!Init

\* A transfer is a put or a get of the queue.
LEMMA TransferAsQueue ==
  ASSUME M!MonitorsAssumption, MonitorsInv, NEW t \in M!Threads, M!Enter(t),
         M!Transfer(t), UNCHANGED monitor
  PROVE  M!Abstract!Next
<1> DEFINE agot == [u \in M!AllThreads |-> IF u \in M!Threads THEN monitor_got[u] ELSE M!NoMessageYet]
<1>0. M!Threads' = M!Threads /\ t \in M!AllThreads /\ M!Capacity <= maxSize
      /\ M!Capacity \in Nat /\ maxSize \in Nat
  BY DEF M!Threads, M!AllThreads, M!Capacity, M!MonitorsAssumption
<1>1. CASE op[t] = "put"
  <2>1. /\ queue' = Append(queue, msg[t]) /\ msg[t] \in Messages
        /\ Len(queue) < M!Capacity /\ monitor_got' = monitor_got
    BY <1>1, TransferTypes DEF MonitorsInv
  <2>2. Len(queue) < maxSize
    BY <1>0, <2>1 DEF MonitorsInv, MonitorTypes
  <2>3. M!Abstract!Put(msg[t])
    BY <1>0, <2>1, <2>2 DEF M!Abstract!Put
  <2> QED BY <2>1, <2>3 DEF M!Abstract!Next
<1>2. CASE op[t] = "get"
  <2>1. /\ queue' = Tail(queue) /\ queue # <<>>
        /\ monitor_got' = [monitor_got EXCEPT ![t] = Head(queue)]
    BY <1>2, TransferTypes DEF MonitorsInv
  <2>2. agot' = [agot EXCEPT ![t] = Head(queue)]
    BY <1>0, <2>1 DEF MonitorsInv, MonitorTypes
  <2>3. M!Abstract!Get(t)
    BY <2>1, <2>2 DEF M!Abstract!Get
  <2> QED BY <1>0, <2>3 DEF M!Abstract!Next
<1> QED BY <1>1, <1>2 DEF MonitorsInv, MonitorTypes

\* Every step of a monitor is a put, a get or no step of the queue.
LEMMA MonitorsStepAsQueue ==
  ASSUME M!MonitorsAssumption, MonitorsInv, [M!Next]_(M!vars)
  PROVE  [M!Abstract!Next]_(M!Abstract!vars)
<1>1. ASSUME NEW t \in M!Threads, M!BoxMon(t) \/ M!TryBox(t) \/ M!PC(t)
      PROVE  M!Abstract!Next
  BY <1>1, TransferAsQueue DEF M!BoxMon, M!TryBox, M!PC
<1>2. ASSUME UNCHANGED <<monitor, queue, monitor_got>> PROVE UNCHANGED M!Abstract!vars
  BY <1>2 DEF M!Abstract!vars, M!Threads
<1>3. CASE UNCHANGED M!vars
  BY <1>2, <1>3 DEF M!vars
<1>4. ASSUME NEW t \in M!Threads, M!Wait(t) \/ M!Signal(t) \/ M!SpuriousWakeup(t)
      PROVE  UNCHANGED M!Abstract!vars
  BY <1>2, <1>4 DEF M!Wait, M!Signal, M!SpuriousWakeup
<1> QED BY <1>1, <1>3, <1>4 DEF M!Next, M!Step

\* ImplementsQueue: the boxes of BoxMon.c and TryBox.java and the shared queue
\* of SharedQueue.java are a bounded fifo queue, for any threads, messages and capacity.
THEOREM MonitorIsQueue ==
  ASSUME M!MonitorsAssumption
  PROVE  M!Spec => M!ImplementsQueue
<1>1. M!Init => M!Abstract!Init BY MonitorsStartAsQueue
<1>2. MonitorsInv /\ [M!Next]_(M!vars) => [M!Abstract!Next]_(M!Abstract!vars)
  BY MonitorsStepAsQueue
<1> QED
  BY <1>1, <1>2, MonitorsInvariant, PTL DEF M!Spec, M!ImplementsQueue, M!Abstract!Spec

------------------------------------------------------------------------------
(* The list of jobs.  The file is a front part of the jobs from the rear,  *)
(* and the list that is restored has them in their places; what one        *)
(* program prints is found by an induction over the nodes it meets.        *)

\* What every job of SaveList has as its info, and what stands for its size
\* in the file.
JobInfo == "cmd args"
InfoSize == "infoSize"

\* What the file is made of.
Values == Nat \cup {InfoSize, JobInfo}

\* The k-th job that SaveList makes, and so the k-th from the rear.
JobAt(k) == [jobid |-> k - 1, info |-> JobInfo]

\* The list of m jobs, the last one made in front.
Jobs(m) == [i \in 1..m |-> JobAt(m + 1 - i)]

\* The nodes stand in the order in which they were added, each in front of
\* the one before.
ListInv ==
  /\ size \in 0..MaxSize
  /\ list_head = size
  /\ list_tail = IF size = 0 THEN J!NULL ELSE 1
  /\ next = [i \in J!Nodes |-> IF i <= size THEN i - 1 ELSE J!NULL]
  /\ prev = [i \in J!Nodes |-> IF i < size THEN i + 1 ELSE J!NULL]
  /\ DOMAIN list_data = J!Nodes
  /\ n \in 0..MaxSize

\* f is the front part of the file of m jobs.
FileOf(f, m) ==
  /\ f \in Seq(Values)
  /\ Len(f) <= 1 + 3 * m
  /\ Len(f) >= 1 => f[1] = m
  /\ \A j \in 1..m : /\ 3 * j - 1 <= Len(f) => f[3 * j - 1] = j - 1
                     /\ 3 * j + 1 <= Len(f) => f[3 * j + 1] = JobInfo

\* The file is a front part of what was last opened for writing, all of it
\* if nobody was killed.
FileInv ==
  /\ Len(opened) \in 0..MaxSize
  /\ opened = Jobs(Len(opened))
  /\ job_pc # "write" /\ file # None =>
       /\ FileOf(file, Len(opened))
       /\ ~killed => Len(file) = 1 + 3 * Len(opened)

\* The list of SaveList has the jobs it has made.
BuildInv ==
  job_pc \in {"build", "write"} =>
    size <= n /\ \A i \in 1..size : list_data[i] = JobAt(i)

\* How many jobs have been written.
JobsWritten == IF node = J!NULL THEN size ELSE node - 1

\* What has been written is the size and the jobs from the rear up to node.
WriteInv ==
  job_pc = "write" =>
    /\ size = Len(opened) /\ size # 0
    /\ node \in 0..size
    /\ FileOf(written, size) /\ Len(written) = 1 + 3 * JobsWritten

\* What a fread at place k of the file leaves in its variable.
ReadAt(k) == IF k <= Len(file) THEN file[k] ELSE Garbage

\* The list of RestoreList has the jobs of the file from its front, and the
\* rest is to be read.
RestoreInv ==
  job_pc = "restore" =>
    /\ file # None
    /\ size + n <= MaxSize
    /\ file # <<>> => size + n = Len(opened)
    /\ \A i \in 1..size : list_data[i] = [jobid |-> ReadAt(3 * i - 1), info |-> ReadAt(3 * i + 1)]
    /\ written \in Seq(Values)
    /\ Len(written) = IF Len(file) >= 1 + 3 * size THEN Len(file) - 1 - 3 * size ELSE 0
    /\ \A k \in 1..Len(written) : written[k] = file[1 + 3 * size + k]

\* The inductive invariant of the two programs.
JobsInv ==
  /\ job_pc \in {"idle", "build", "write", "restore"}
  /\ ListInv /\ FileInv /\ BuildInv /\ WriteInv /\ RestoreInv

\* A set of natural numbers that is not empty has a least element.
LEMMA Least ==
  ASSUME NEW T, T \subseteq Nat, T # {}
  PROVE  \E x \in T : \A y \in T : x <= y
<1>1. PICK x \in T : \A y \in T : <<y, x>> \notin OpToRel(<, Nat)
  BY NatLessThanWellFounded, WFMin, Zenon
<1>2. \A y \in T : ~(y < x)
  BY <1>1 DEF OpToRel
<1> QED BY <1>2

\* Induction over the natural numbers, stated with a set: the theorems of
\* the library take an operator.
LEMMA SetInduction ==
  ASSUME NEW S, 0 \in S, \A k \in Nat : k \in S => k + 1 \in S
  PROVE  Nat \subseteq S
<1> SUFFICES ASSUME Nat \ S # {} PROVE FALSE
  OBVIOUS
<1>1. PICK m \in Nat \ S : \A k \in Nat \ S : m <= k
  BY Least
<1>2. m - 1 \in Nat /\ m - 1 \in S
  BY <1>1
<1> QED BY <1>1, <1>2

\* What a sequence is with one element in front.
LEMMA InFront ==
  ASSUME NEW S, NEW x \in S, NEW s \in Seq(S)
  PROVE  /\ <<x>> \o s \in Seq(S) /\ Len(<<x>> \o s) = Len(s) + 1 /\ Len(s) \in Nat
         /\ (<<x>> \o s)[1] = x
         /\ \A i \in 1..Len(s) : (<<x>> \o s)[i + 1] = s[i]
OBVIOUS

\* The jobs from each node on, for so much fuel and with f for less of it.
WalkRow(f, fuel) ==
  [k \in J!Nodes \cup {J!NULL} |->
     IF k = J!NULL
     \/ fuel = 0 THEN <<>> ELSE <<list_data[k]>> \o f[fuel - 1][next[k]]]

\* f is the function by which JobsFrom is defined.
Walks(f) == f = [fuel \in 0..MaxSize |-> WalkRow(f, fuel)]

\* How many jobs there are from node k on, for so much fuel.
ReachedFrom(k, fuel) ==
  IF k = J!NULL
  \/ fuel = 0 THEN 0 ELSE IF k > size THEN 1 ELSE IF k <= fuel THEN k ELSE fuel

\* The jobs of m nodes from k on, each the one that was added before.
JobsBehind(k, m) == [j \in 1..m |-> list_data[k + 1 - j]]

\* That function, in a closed form.
Walked == [fuel \in 0..MaxSize |-> [k \in J!Nodes \cup {J!NULL} |-> JobsBehind(k, ReachedFrom(k, fuel))]]

\* The closed form satisfies the recursive definition.
LEMMA WalkedWalks == ASSUME J!JobListAssumption, ListInv PROVE Walks(Walked)
<1> USE DEF J!JobListAssumption, J!Nodes, J!NULL
<1> DEFINE D == {list_data[k] : k \in J!Nodes}
<1>0. ASSUME NEW k \in J!Nodes, NEW fuel \in 1..MaxSize
      PROVE  JobsBehind(k, ReachedFrom(k, fuel)) = <<list_data[k]>> \o JobsBehind(next[k], ReachedFrom(next[k], fuel - 1))
  <2> DEFINE m == ReachedFrom(k, fuel)
             s == JobsBehind(next[k], ReachedFrom(next[k], fuel - 1))
  <2>1. next[k] = IF k <= size THEN k - 1 ELSE 0
    BY DEF ListInv
  <2>2. m \in Nat \ {0} /\ ReachedFrom(next[k], fuel - 1) = m - 1
        /\ (m # 1 => next[k] = k - 1) /\ m <= k
    BY <2>1 DEF ListInv, ReachedFrom
  <2>3. \A j \in 1..m - 1 : next[k] + 1 - j \in J!Nodes /\ next[k] + 1 - j = k - j
    BY <2>2
  <2> HIDE DEF m
  <2>4. s \in Seq(D) /\ Len(s) = m - 1 /\ \A j \in 1..m - 1 : s[j] = list_data[k - j]
    BY <2>2, <2>3 DEF JobsBehind
  <2>5. \A j \in 1..m : k + 1 - j \in J!Nodes
    BY <2>2
  <2>6. JobsBehind(k, m) \in Seq(D) /\ Len(JobsBehind(k, m)) = m
        /\ \A j \in 1..m : JobsBehind(k, m)[j] = list_data[k + 1 - j]
    BY <2>2, <2>5 DEF JobsBehind
  <2> HIDE DEF s, D
  <2>7. list_data[k] \in D
    BY DEF D
  <2>8. /\ <<list_data[k]>> \o s \in Seq(D) /\ Len(<<list_data[k]>> \o s) = m
        /\ (<<list_data[k]>> \o s)[1] = list_data[k]
        /\ \A i \in 1..m - 1 : (<<list_data[k]>> \o s)[i + 1] = s[i]
    BY <2>2, <2>4, <2>7, InFront
  <2>9. ASSUME NEW j \in 1..m PROVE JobsBehind(k, m)[j] = (<<list_data[k]>> \o s)[j]
    <3>1. CASE j = 1
      BY <2>6, <2>8, <3>1
    <3>2. CASE j # 1
      <4>1. j - 1 \in 1..m - 1 /\ (j - 1) + 1 = j /\ k - (j - 1) = k + 1 - j
        BY <2>2, <3>2
      <4>2. (<<list_data[k]>> \o s)[(j - 1) + 1] = s[j - 1]
            /\ s[j - 1] = list_data[k - (j - 1)]
        BY <2>4, <2>8, <4>1
      <4> QED BY <2>6, <4>1, <4>2
    <3> QED BY <3>1, <3>2
  <2>10. JobsBehind(k, m) = <<list_data[k]>> \o s
    BY <2>6, <2>8, <2>9, SeqEqual
  <2> QED BY <2>10 DEF m, s
<1>1. ASSUME NEW fuel \in 0..MaxSize
      PROVE  Walked[fuel] = WalkRow(Walked, fuel)
  <2>1. ASSUME NEW k \in J!Nodes \cup {J!NULL}
        PROVE  Walked[fuel][k] = WalkRow(Walked, fuel)[k]
    <3>1. Walked[fuel][k] = JobsBehind(k, ReachedFrom(k, fuel))
      BY DEF Walked
    <3>2. CASE k = J!NULL \/ fuel = 0
      <4>1. JobsBehind(k, 0) = <<>>
        BY DEF JobsBehind
      <4> QED BY <3>1, <3>2, <4>1 DEF ReachedFrom, WalkRow
    <3>3. CASE k \in J!Nodes /\ fuel \in 1..MaxSize
      <4>1. next[k] \in J!Nodes \cup {J!NULL} /\ fuel - 1 \in 0..MaxSize
        BY <3>3 DEF ListInv
      <4>2. Walked[fuel - 1][next[k]] = JobsBehind(next[k], ReachedFrom(next[k], fuel - 1))
        BY <4>1 DEF Walked
      <4>3. WalkRow(Walked, fuel)[k] = <<list_data[k]>> \o Walked[fuel - 1][next[k]]
        BY <3>3 DEF WalkRow
      <4> QED BY <1>0, <3>1, <3>3, <4>2, <4>3
    <3> QED BY <3>2, <3>3
  <2>2. Walked[fuel] = [k \in J!Nodes \cup {J!NULL} |-> Walked[fuel][k]]
    BY DEF Walked
  <2>3. WalkRow(Walked, fuel) = [k \in J!Nodes \cup {J!NULL} |-> WalkRow(Walked, fuel)[k]]
    BY DEF WalkRow
  <2> QED BY <2>1, <2>2, <2>3
<1>2. Walked = [fuel \in 0..MaxSize |-> Walked[fuel]]
  BY DEF Walked
<1> QED BY <1>1, <1>2 DEF Walks

\* What printList meets are the jobs of all nodes, the last one first.
LEMMA ListWalk ==
  ASSUME J!JobListAssumption, ListInv
  PROVE  J!JobsFrom(list_head) = JobsBehind(size, size)
<1> USE DEF J!JobListAssumption
<1> DEFINE f == CHOOSE g : Walks(g)
<1>1. J!JobsFrom(list_head) = f[MaxSize][list_head]
  BY Zenon DEF J!JobsFrom, Walks, WalkRow
<1>2. Walks(f)
  BY WalkedWalks
<1>3. Walks(Walked)
  BY WalkedWalks
<1> HIDE DEF f
<1> DEFINE S == {m \in Nat : m <= MaxSize => f[m] = Walked[m]}
<1>4. 0 \in S
  <2>0. 0 \in 0..MaxSize
    OBVIOUS
  <2>1. f[0] = WalkRow(f, 0) /\ Walked[0] = WalkRow(Walked, 0)
    BY <1>2, <1>3, <2>0, Zenon DEF Walks
  <2>2. WalkRow(f, 0) = WalkRow(Walked, 0)
    BY DEF WalkRow
  <2> QED BY <2>1, <2>2
<1>5. ASSUME NEW m \in Nat, m \in S PROVE m + 1 \in S
  <2> SUFFICES ASSUME m + 1 <= MaxSize PROVE f[m + 1] = Walked[m + 1]
    OBVIOUS
  <2>0. m + 1 \in 0..MaxSize
    OBVIOUS
  <2>1. f[m + 1] = WalkRow(f, m + 1) /\ Walked[m + 1] = WalkRow(Walked, m + 1)
    BY <1>2, <1>3, <2>0, Zenon DEF Walks
  <2>2. f[m] = Walked[m] /\ (m + 1) - 1 = m /\ m + 1 # 0
    BY <1>5
  <2>3. WalkRow(f, m + 1) = WalkRow(Walked, m + 1)
    BY <2>2 DEF WalkRow
  <2> QED BY <2>1, <2>3
<1>6. f[MaxSize] = Walked[MaxSize]
  <2> HIDE DEF S
  <2>1. MaxSize \in S
    BY <1>4, <1>5, SetInduction
  <2> QED BY <2>1 DEF S
<1>7. size \in J!Nodes \cup {J!NULL} /\ list_head = size
      /\ ReachedFrom(size, MaxSize) = size
  BY DEF ListInv, J!Nodes, J!NULL, ReachedFrom
<1> QED BY <1>1, <1>6, <1>7 DEF Walked

\* A list of m jobs is a sequence of that length.
LEMMA JobsSeq ==
  ASSUME NEW m \in Nat
  PROVE  Jobs(m) \in Seq([jobid : Nat, info : {JobInfo}]) /\ Len(Jobs(m)) = m
BY DEF Jobs, JobAt

\* If the nodes hold the first jobs then the list is that of the jobs.
LEMMA BuiltList ==
  ASSUME J!JobListAssumption, ListInv, \A i \in 1..size : list_data[i] = JobAt(i)
  PROVE  J!JobsFrom(list_head) = Jobs(size)
<1>1. J!JobsFrom(list_head) = JobsBehind(size, size)
  BY ListWalk
<1>2. size \in Nat
  BY DEF ListInv, J!JobListAssumption
<1>3. \A j \in 1..size : list_data[size + 1 - j] = JobAt(size + 1 - j)
  BY <1>2
<1> QED BY <1>1, <1>3 DEF JobsBehind, Jobs

\* createList makes an empty list.
LEMMA CreatedList ==
  ASSUME J!JobListAssumption, J!createList, n' \in 0..MaxSize
  PROVE  ListInv' /\ size' = 0
BY DEF J!JobListAssumption, J!createList, ListInv, J!Nodes, J!NULL

\* addAtFront puts the new node in front, and changes no other job.
LEMMA AddedNode ==
  ASSUME J!JobListAssumption, ListInv, size < MaxSize, NEW job,
         J!addAtFront(size + 1, job),
         n' \in 0..MaxSize
  PROVE  /\ ListInv' /\ size' = size + 1
         /\ list_data'[size + 1] = job
            /\ \A i \in 1..size : list_data'[i] = list_data[i]
<1> USE DEF J!JobListAssumption, J!addAtFront, J!Nodes, J!NULL
<1>1. size \in Nat /\ size' = size + 1 /\ size + 1 \in J!Nodes /\ list_head' = size'
      /\ size' \in 0..MaxSize
  BY DEF ListInv
<1>2. list_tail' = IF size' = 0 THEN J!NULL ELSE 1
  BY <1>1 DEF ListInv
<1>3. next' = [i \in J!Nodes |-> IF i <= size' THEN i - 1 ELSE J!NULL]
  <2>1. next' = [i \in J!Nodes |-> IF i = size + 1 THEN size ELSE next[i]]
    BY <1>1 DEF ListInv
  <2>2. \A i \in J!Nodes : (IF i = size + 1 THEN size ELSE next[i])
                         = (IF i <= size' THEN i - 1 ELSE J!NULL)
    BY <1>1 DEF ListInv
  <2> QED BY <2>1, <2>2
<1>4. prev' = [i \in J!Nodes |-> IF i < size' THEN i + 1 ELSE J!NULL]
  <2>1. prev' = [i \in J!Nodes |-> IF i = size THEN size + 1 ELSE prev[i]]
    <3>1. CASE size = 0
      BY <1>1, <3>1 DEF ListInv
    <3>2. CASE size # 0
      BY <1>1, <3>2 DEF ListInv
    <3> QED BY <3>1, <3>2
  <2>2. \A i \in J!Nodes : (IF i = size THEN size + 1 ELSE prev[i])
                         = (IF i < size' THEN i + 1 ELSE J!NULL)
    BY <1>1 DEF ListInv
  <2> QED BY <2>1, <2>2
<1>5. DOMAIN list_data' = J!Nodes /\ list_data'[size + 1] = job
      /\ \A i \in 1..size : list_data'[i] = list_data[i]
  BY <1>1 DEF ListInv
<1> QED BY <1>1, <1>2, <1>3, <1>4, <1>5 DEF ListInv

\* At first there is no file and no list.
LEMMA InitJobs == ASSUME J!JobListAssumption, J!Init PROVE JobsInv
<1> USE DEF J!Init, J!JobListAssumption
<1>1. ListInv
  BY DEF ListInv, J!Nodes, J!NULL
<1>2. FileInv
  <2>1. Jobs(0) = <<>>
    BY DEF Jobs
  <2> QED BY <2>1 DEF FileInv
<1> QED BY <1>1, <1>2 DEF JobsInv, BuildInv, WriteInv, RestoreInv

\* A program that exits leaves nothing behind in memory.
LEMMA ExitKeepsInv ==
  ASSUME J!JobListAssumption, NEW from, J!Exit(from)
  PROVE  ListInv' /\ BuildInv' /\ WriteInv' /\ RestoreInv' /\ job_pc' = "idle"
<1>1. J!createList /\ n' \in 0..MaxSize /\ job_pc' = "idle"
  BY DEF J!Exit, J!Goto, J!JobListAssumption
<1> QED BY <1>1, CreatedList DEF BuildInv, WriteInv, RestoreInv

\* SaveList starts with an empty list.
LEMMA StartSaveStep == ASSUME J!JobListAssumption, JobsInv, J!StartSave PROVE JobsInv'
<1>1. /\ job_pc = "idle" /\ job_pc' = "build" /\ n' \in 0..MaxSize /\ J!createList
      /\ UNCHANGED <<file, opened, killed>>
  BY DEF J!StartSave, J!Goto, J!ghosts
<1>2. ListInv' /\ size' = 0
  BY <1>1, CreatedList
<1>3. FileInv'
  BY <1>1 DEF JobsInv, FileInv
<1>4. BuildInv' /\ WriteInv' /\ RestoreInv'
  BY <1>1, <1>2 DEF BuildInv, WriteInv, RestoreInv, J!JobListAssumption
<1> QED BY <1>1, <1>2, <1>3, <1>4 DEF JobsInv

\* SaveList makes one more job.
LEMMA BuildJobStep == ASSUME J!JobListAssumption, JobsInv, J!Build PROVE JobsInv'
<1>1. /\ job_pc = "build" /\ job_pc' = "build" /\ size < n /\ n' = n
         /\ n \in 0..MaxSize
      /\ J!addAtFront(size + 1, JobAt(size + 1))
      /\ UNCHANGED <<file, opened, killed>>
  <2>1. size \in Nat /\ (size + 1) - 1 = size
    BY DEF JobsInv, ListInv
  <2>2. JobAt(size + 1) = [jobid |-> size, info |-> "cmd args"]
    BY <2>1 DEF JobAt, JobInfo
  <2> QED BY <2>2 DEF J!Build, J!ghosts, JobsInv, ListInv
<1>2. /\ ListInv' /\ size' = size + 1 /\ size \in Nat
      /\ list_data'[size + 1] = JobAt(size + 1)
         /\ \A i \in 1..size : list_data'[i] = list_data[i]
  BY <1>1, AddedNode DEF JobsInv, ListInv, J!JobListAssumption
<1>3. FileInv'
  BY <1>1 DEF JobsInv, FileInv
<1>4. BuildInv'
  <2>1. \A i \in 1..size + 1 : i \in 1..size \/ i = size + 1
    BY <1>2
  <2> QED BY <1>1, <1>2, <2>1 DEF JobsInv, BuildInv, ListInv
<1>5. WriteInv' /\ RestoreInv'
  BY <1>1 DEF WriteInv, RestoreInv
<1> QED BY <1>1, <1>2, <1>3, <1>4, <1>5 DEF JobsInv

\* What a sequence is with three more elements.
LEMMA ThreeMore ==
  ASSUME NEW S, NEW f \in Seq(S), NEW a \in S, NEW b \in S, NEW c \in S
  PROVE  /\ f \o <<a, b, c>> \in Seq(S) /\ Len(f \o <<a, b, c>>) = Len(f) + 3
            /\ Len(f) \in Nat
         /\ \A q \in 1..Len(f) : (f \o <<a, b, c>>)[q] = f[q]
         /\ (f \o <<a, b, c>>)[Len(f) + 1] = a
         /\ (f \o <<a, b, c>>)[Len(f) + 3] = c
OBVIOUS

\* What the front part of a sequence is.
LEMMA FrontPart ==
  ASSUME NEW S, NEW f \in Seq(S), NEW k \in 0..Len(f)
  PROVE  /\ SubSeq(f, 1, k) \in Seq(S) /\ Len(SubSeq(f, 1, k)) = k /\ Len(f) \in Nat
         /\ \A q \in 1..k : SubSeq(f, 1, k)[q] = f[q]
OBVIOUS

\* What was written of the first jobs, and one more.
LEMMA OneMoreJob ==
  ASSUME NEW m \in Nat, NEW k \in Nat, k < m, NEW f, FileOf(f, m), Len(f) = 1 + 3 * k
  PROVE  /\ FileOf(f \o <<k, InfoSize, JobInfo>>, m)
         /\ Len(f \o <<k, InfoSize, JobInfo>>) = 1 + 3 * (k + 1)
<1> DEFINE g == f \o <<k, InfoSize, JobInfo>>
<1>1. f \in Seq(Values) /\ k \in Values /\ InfoSize \in Values /\ JobInfo \in Values
  BY DEF FileOf, Values
<1>2. /\ g \in Seq(Values) /\ Len(g) = Len(f) + 3
      /\ \A q \in 1..Len(f) : g[q] = f[q]
      /\ g[Len(f) + 1] = k /\ g[Len(f) + 3] = JobInfo
  BY <1>1, ThreeMore
<1> HIDE DEF g
<1>3. Len(g) = 1 + 3 * (k + 1) /\ Len(g) <= 1 + 3 * m
  BY <1>2
<1>4. 1 \in 1..Len(f)
  OBVIOUS
<1>5. g[1] = m
  BY <1>2, <1>4 DEF FileOf
<1>6. ASSUME NEW j \in 1..m
      PROVE  /\ 3 * j - 1 <= Len(g) => g[3 * j - 1] = j - 1
             /\ 3 * j + 1 <= Len(g) => g[3 * j + 1] = JobInfo
  <2>1. CASE j <= k
    <3>1. 3 * j - 1 \in 1..Len(f) /\ 3 * j + 1 \in 1..Len(f)
      BY <2>1
    <3> QED BY <1>2, <3>1 DEF FileOf
  <2>2. CASE j = k + 1
    <3>1. 3 * j - 1 = Len(f) + 1 /\ 3 * j + 1 = Len(f) + 3 /\ j - 1 = k
      BY <2>2
    <3> QED BY <1>2, <3>1
  <2>3. CASE j > k + 1
    <3>1. ~(3 * j - 1 <= Len(g)) /\ ~(3 * j + 1 <= Len(g))
      BY <1>3, <2>3
    <3> QED BY <3>1
  <2> QED BY <2>1, <2>2, <2>3
<1> QED BY <1>2, <1>3, <1>5, <1>6 DEF FileOf, g

\* The front part of a front part of a file is one.
LEMMA FrontOfFile ==
  ASSUME NEW m \in Nat, NEW f, FileOf(f, m), NEW k \in 0..Len(f)
  PROVE  FileOf(SubSeq(f, 1, k), m)
<1> DEFINE g == SubSeq(f, 1, k)
<1>0. f \in Seq(Values)
  BY DEF FileOf
<1>1. g \in Seq(Values) /\ Len(g) = k /\ Len(f) \in Nat /\ \A q \in 1..k : g[q] = f[q]
  BY <1>0, FrontPart
<1> HIDE DEF g
<1>2. ASSUME NEW j \in 1..m
      PROVE  /\ 3 * j - 1 <= Len(g) => g[3 * j - 1] = j - 1
             /\ 3 * j + 1 <= Len(g) => g[3 * j + 1] = JobInfo
  <2>1. 3 * j - 1 <= k => 3 * j - 1 \in 1..k /\ 3 * j - 1 <= Len(f)
    BY <1>1
  <2>2. 3 * j + 1 <= k => 3 * j + 1 \in 1..k /\ 3 * j + 1 <= Len(f)
    BY <1>1
  <2> QED BY <1>1, <2>1, <2>2 DEF FileOf
<1>3. Len(g) >= 1 => g[1] = m
  <2>1. k >= 1 => 1 \in 1..k /\ Len(f) >= 1
    BY <1>1
  <2> QED BY <1>1, <2>1 DEF FileOf
<1>4. Len(g) <= 1 + 3 * m
  <2>1. Len(f) <= 1 + 3 * m
    BY DEF FileOf
  <2> QED BY <1>1, <2>1
<1> QED BY <1>1, <1>2, <1>3, <1>4 DEF FileOf, g

\* An empty list is not written, and the file stays.
LEMMA CheckpointEmptyStep ==
  ASSUME J!JobListAssumption, JobsInv, J!CheckpointEmpty
  PROVE  JobsInv'
<1>1. ListInv' /\ BuildInv' /\ WriteInv' /\ RestoreInv' /\ job_pc' = "idle"
  BY ExitKeepsInv DEF J!CheckpointEmpty
<1>2. job_pc = "build" /\ UNCHANGED <<file, opened, killed>>
  BY DEF J!CheckpointEmpty
<1>3. FileInv'
  BY <1>2 DEF JobsInv, FileInv
<1> QED BY <1>1, <1>3 DEF JobsInv

\* The file is emptied and the size is written, or fopen fails.
LEMMA OpenForWritingStep ==
  ASSUME J!JobListAssumption, JobsInv, J!OpenForWriting
  PROVE  JobsInv'
<1>1. job_pc = "build" /\ size = n /\ size # 0 /\ killed' = killed /\ size \in Nat
      /\ size <= MaxSize
  BY DEF J!OpenForWriting, JobsInv, ListInv, J!JobListAssumption
<1>2. CASE /\ J!Goto("build", "write") /\ written' = <<size>> /\ node' = list_tail
           /\ opened' = J!JobsFrom(list_head) /\ UNCHANGED <<J!listVars, n>>
  <2>1. /\ job_pc' = "write" /\ node' = 1 /\ opened' = Jobs(size)
        /\ UNCHANGED <<list_head, list_tail, size, next, prev, list_data, n>>
    BY <1>1, <1>2, BuiltList DEF J!Goto, J!listVars, JobsInv, BuildInv, ListInv
  <2>2. ListInv' /\ BuildInv' /\ RestoreInv'
    BY <1>1, <2>1 DEF JobsInv, ListInv, BuildInv, RestoreInv
  <2>3. Len(opened') = size
    BY <1>1, <2>1, JobsSeq
  <2>4. FileInv'
    BY <1>1, <2>1, <2>3 DEF FileInv, J!JobListAssumption
  <2>5. FileOf(written', size) /\ Len(written') = 1
    <3>1. written' \in Seq(Values) /\ Len(written') = 1 /\ written'[1] = size
      BY <1>1, <1>2 DEF Values
    <3>2. \A j \in 1..size : ~(3 * j - 1 <= 1) /\ ~(3 * j + 1 <= 1)
      BY <1>1
    <3>3. 1 <= 1 + 3 * size
      BY <1>1
    <3> QED BY <3>1, <3>2, <3>3 DEF FileOf
  <2>6. JobsWritten' = 0
    BY <2>1 DEF JobsWritten, J!NULL
  <2>7. WriteInv'
    BY <1>1, <2>1, <2>3, <2>5, <2>6 DEF WriteInv
  <2> QED BY <2>1, <2>2, <2>4, <2>7 DEF JobsInv
<1>3. CASE J!Exit("build") /\ UNCHANGED <<file, opened>>
  <2>1. ListInv' /\ BuildInv' /\ WriteInv' /\ RestoreInv' /\ job_pc' = "idle"
    BY <1>3, ExitKeepsInv
  <2>2. FileInv'
    BY <1>1, <1>3 DEF JobsInv, FileInv
  <2> QED BY <2>1, <2>2 DEF JobsInv
<1> QED BY <1>2, <1>3 DEF J!OpenForWriting

\* checkpointNode writes the next job from the rear.
LEMMA WriteNodeStep == ASSUME J!JobListAssumption, JobsInv, J!WriteNode PROVE JobsInv'
<1>1. /\ job_pc = "write" /\ job_pc' = "write" /\ node # J!NULL /\ node' = prev[node]
      /\ UNCHANGED <<list_head, list_tail, size, next, prev, list_data, n, file,
                     opened, killed>>
  BY DEF J!WriteNode, J!listVars, J!ghosts
<1>2. /\ size \in Nat /\ size <= MaxSize /\ node \in 1..size
      /\ size = Len(opened) /\ size # 0
      /\ FileOf(written, size) /\ Len(written) = 1 + 3 * (node - 1)
  BY <1>1 DEF JobsInv, ListInv, WriteInv, JobsWritten, J!NULL, J!JobListAssumption
<1>3. node' = IF node < size THEN node + 1 ELSE J!NULL
  BY <1>1, <1>2 DEF JobsInv, ListInv, J!Nodes, J!JobListAssumption
<1>4. list_data[node].jobid = node - 1 /\ list_data[node].info = JobInfo
  <2>1. list_data[node] = JobAt(node)
    BY <1>1, <1>2 DEF JobsInv, BuildInv
  <2> QED BY <2>1 DEF JobAt
<1>5. FileOf(written', size) /\ Len(written') = 1 + 3 * ((node - 1) + 1)
  <2>1. written' = written \o <<node - 1, InfoSize, JobInfo>>
    BY <1>4 DEF J!WriteNode, InfoSize
  <2>2. node - 1 \in Nat /\ node - 1 < size
    BY <1>2
  <2> QED BY <1>2, <2>1, <2>2, OneMoreJob
<1>6. JobsWritten' = node
  BY <1>1, <1>2, <1>3 DEF JobsWritten, J!NULL
<1>7. WriteInv'
  <2>1. node' \in 0..size
    BY <1>2, <1>3 DEF J!NULL
  <2> QED BY <1>1, <1>2, <1>5, <1>6, <2>1 DEF WriteInv
<1>8. ListInv' /\ BuildInv' /\ RestoreInv' /\ FileInv'
  BY <1>1 DEF JobsInv, ListInv, BuildInv, RestoreInv, FileInv
<1> QED BY <1>1, <1>7, <1>8 DEF JobsInv

\* After the last job the file is that of all jobs.
LEMMA CloseWrittenStep ==
  ASSUME J!JobListAssumption, JobsInv, J!CloseWritten
  PROVE  JobsInv'
<1>1. ListInv' /\ BuildInv' /\ WriteInv' /\ RestoreInv' /\ job_pc' = "idle"
  BY ExitKeepsInv DEF J!CloseWritten
<1>2. /\ job_pc = "write" /\ node = J!NULL /\ file' = written /\ opened' = opened
  BY DEF J!CloseWritten, J!Exit, J!Goto
<1>3. FileOf(written, Len(opened)) /\ Len(written) = 1 + 3 * Len(opened)
  BY <1>2 DEF JobsInv, WriteInv, JobsWritten
<1>4. FileInv'
  BY <1>2, <1>3 DEF JobsInv, FileInv
<1> QED BY <1>1, <1>4 DEF JobsInv

\* A kill leaves a front part of what was written.
LEMMA KillSaveStep == ASSUME J!JobListAssumption, JobsInv, J!KillSave PROVE JobsInv'
<1>1. ListInv' /\ BuildInv' /\ WriteInv' /\ RestoreInv' /\ job_pc' = "idle"
  BY ExitKeepsInv DEF J!KillSave
<1>2. /\ job_pc = "write" /\ killed' = TRUE /\ opened' = opened
  BY DEF J!KillSave, J!Exit, J!Goto
<1>3. PICK k \in 0..Len(written) : file' = SubSeq(written, 1, k)
  BY DEF J!KillSave
<1>4. Len(opened) \in Nat /\ FileOf(written, Len(opened))
  BY <1>2 DEF JobsInv, WriteInv, FileInv, J!JobListAssumption
<1>5. FileOf(file', Len(opened))
  BY <1>3, <1>4, FrontOfFile
<1>6. FileInv'
  BY <1>2, <1>5 DEF JobsInv, FileInv
<1> QED BY <1>1, <1>6 DEF JobsInv

\* g is what is left of f after its first k items.
RestOf(g, f, k) ==
  /\ g \in Seq(Values) /\ Len(f) \in Nat
  /\ Len(g) = IF Len(f) >= k THEN Len(f) - k ELSE 0
  /\ \A q \in 1..Len(g) : g[q] = f[k + q]

\* SubSeq leaves that.
LEMMA RestPart ==
  ASSUME NEW f \in Seq(Values), NEW k \in Nat, NEW from, from = k + 1,
         NEW g, g = SubSeq(f, from, Len(f))
  PROVE  RestOf(g, f, k)
BY DEF RestOf

\* RestoreList reads the size, or what the variable held.
LEMMA StartRestoreStep ==
  ASSUME J!JobListAssumption, JobsInv, J!StartRestore
  PROVE  JobsInv'
<1>1. job_pc = "idle" /\ file # None /\ UNCHANGED <<file, opened, killed>>
  BY DEF J!StartRestore, J!ghosts
<1>2. PICK m \in IF file = <<>> THEN 0..MaxSize ELSE {file[1]} :
        IF m > 0 THEN /\ job_pc' = "restore" /\ n' = m
        /\ written' = SubSeq(file, 2, Len(file))
                      /\ J!createList
                 ELSE UNCHANGED <<job_pc, n, written, J!listVars>>
  BY DEF J!StartRestore
<1>3. /\ FileOf(file, Len(opened)) /\ Len(opened) \in Nat /\ Len(opened) <= MaxSize
      /\ file \in Seq(Values)
  BY <1>1 DEF JobsInv, FileInv, FileOf, J!JobListAssumption
<1>4. m \in 0..MaxSize /\ (file # <<>> => m = Len(opened))
  <2>1. CASE file = <<>>
    BY <1>2, <2>1
  <2>2. CASE file # <<>>
    <3>1. Len(file) >= 1
      BY <1>3, <2>2
    <3>2. m = file[1]
      BY <1>2, <2>2
    <3> QED BY <1>3, <3>1, <3>2 DEF FileOf, J!JobListAssumption
  <2> QED BY <2>1, <2>2
<1>5. FileInv'
  <2>1. job_pc' # "write"
    BY <1>1, <1>2
  <2> QED BY <1>1, <2>1 DEF JobsInv, FileInv
<1>6. CASE m > 0
  <2>1. job_pc' = "restore" /\ n' = m /\ written' = SubSeq(file, 2, Len(file))
        /\ J!createList
    BY <1>2, <1>6
  <2>2. ListInv' /\ size' = 0
    BY <1>4, <2>1, CreatedList
  <2>3. BuildInv' /\ WriteInv'
    BY <2>1 DEF BuildInv, WriteInv
  <2>4. RestoreInv'
    <3>1. 1 \in Nat /\ 2 = 1 + 1 /\ 1 + 3 * 0 = 1
          /\ Len(file) - 1 - 3 * 0 = Len(file) - 1
      BY <1>3
    <3>2. /\ written' \in Seq(Values)
          /\ Len(written') = IF Len(file) >= 1 THEN Len(file) - 1 ELSE 0
          /\ \A q \in 1..Len(written') : written'[q] = file[1 + q]
      <4>1. RestOf(written', file, 1)
        BY <1>3, <2>1, <3>1, RestPart
      <4> QED BY <4>1 DEF RestOf
    <3>3. size' + n' <= MaxSize /\ (file # <<>> => size' + n' = Len(opened))
      BY <1>4, <2>1, <2>2 DEF J!JobListAssumption
    <3> QED BY <1>1, <2>1, <2>2, <3>1, <3>2, <3>3 DEF RestoreInv
  <2> QED BY <1>5, <2>1, <2>2, <2>3, <2>4 DEF JobsInv
<1>7. CASE ~(m > 0)
  <2>1. UNCHANGED <<job_pc, n, written, list_head, list_tail, size, next, prev,
                    list_data>>
    BY <1>2, <1>7 DEF J!listVars
  <2>2. ListInv' /\ BuildInv' /\ WriteInv' /\ RestoreInv'
    BY <1>1, <2>1 DEF JobsInv, ListInv, BuildInv, WriteInv, RestoreInv
  <2> QED BY <1>1, <1>5, <2>1, <2>2 DEF JobsInv
<1> QED BY <1>6, <1>7

\* restoreNode reads the next job of the file, or leaves its variables as
\* they were.
LEMMA RestoreNodeStep ==
  ASSUME J!JobListAssumption, JobsInv, J!RestoreNode
  PROVE  JobsInv'
<1>1. /\ job_pc = "restore" /\ job_pc' = "restore" /\ n > 0 /\ n' = n - 1
      /\ written' = SubSeq(written, 4, Len(written))
      /\ J!addAtFront(size + 1, [jobid |-> J!Field(1), info |-> J!Field(3)])
      /\ UNCHANGED <<file, opened, killed>>
  BY DEF J!RestoreNode, J!ghosts
<1>2. /\ size \in Nat /\ n \in Nat /\ size + n <= MaxSize /\ n' \in 0..MaxSize
         /\ MaxSize \in Nat
      /\ file # None /\ (file # <<>> => size + n = Len(opened))
      /\ written \in Seq(Values)
      /\ Len(written) = IF Len(file) >= 1 + 3 * size THEN Len(file) - 1 - 3 * size ELSE 0
      /\ \A q \in 1..Len(written) : written[q] = file[1 + 3 * size + q]
  BY <1>1 DEF JobsInv, ListInv, RestoreInv, J!JobListAssumption
<1>3. /\ ListInv' /\ size' = size + 1
      /\ list_data'[size + 1] = [jobid |-> J!Field(1), info |-> J!Field(3)]
      /\ \A i \in 1..size : list_data'[i] = list_data[i]
  <2>1. size < MaxSize
    BY <1>1, <1>2
  <2> QED BY <1>1, <1>2, <2>1, AddedNode DEF JobsInv
<1>4. FileInv' /\ BuildInv' /\ WriteInv'
  BY <1>1 DEF JobsInv, FileInv, BuildInv, WriteInv
<1>5. Len(file) \in Nat
  BY <1>1, <1>2 DEF JobsInv, FileInv, FileOf
<1>6. J!Field(1) = ReadAt(3 * (size + 1) - 1)
      /\ J!Field(3) = ReadAt(3 * (size + 1) + 1)
  <2>1. ASSUME NEW q \in {1, 3}
        PROVE  J!Field(q) = ReadAt(1 + 3 * size + q)
    <3>1. q <= Len(written) <=> 1 + 3 * size + q <= Len(file)
      BY <1>2, <1>5
    <3>2. q <= Len(written) => q \in 1..Len(written)
      BY <1>2
    <3> QED BY <1>2, <3>1, <3>2 DEF J!Field, ReadAt
  <2>2. 3 * (size + 1) - 1 = 1 + 3 * size + 1 /\ 3 * (size + 1) + 1 = 1 + 3 * size + 3
    BY <1>2
  <2> QED BY <2>1, <2>2
<1>7. \A i \in 1..size + 1 : list_data'[i] = [jobid |-> ReadAt(3 * i - 1), info |-> ReadAt(3 * i + 1)]
  <2>1. \A i \in 1..size : list_data[i] = [jobid |-> ReadAt(3 * i - 1), info |-> ReadAt(3 * i + 1)]
    BY <1>1 DEF JobsInv, RestoreInv
  <2>2. \A i \in 1..size + 1 : i \in 1..size \/ i = size + 1
    BY <1>2
  <2> QED BY <1>3, <1>6, <2>1, <2>2
<1>8. /\ written' \in Seq(Values)
      /\ Len(written') = IF Len(file) >= 1 + 3 * (size + 1)
                         THEN Len(file) - 1 - 3 * (size + 1) ELSE 0
      /\ \A q \in 1..Len(written') : written'[q] = file[1 + 3 * (size + 1) + q]
  <2>0. 3 \in Nat /\ 4 = 3 + 1
    OBVIOUS
  <2>1. /\ written' \in Seq(Values) /\ Len(written) \in Nat
        /\ Len(written') = IF Len(written) >= 3 THEN Len(written) - 3 ELSE 0
        /\ \A q \in 1..Len(written') : written'[q] = written[3 + q]
    <3>1. RestOf(written', written, 3)
      BY <1>1, <1>2, <2>0, RestPart
    <3> QED BY <3>1 DEF RestOf
  <2>2. Len(written') = IF Len(file) >= 1 + 3 * (size + 1)
                        THEN Len(file) - 1 - 3 * (size + 1) ELSE 0
    BY <1>2, <1>5, <2>1
  <2>3. ASSUME NEW q \in 1..Len(written')
        PROVE  written'[q] = file[1 + 3 * (size + 1) + q]
    <3>1. 3 + q \in 1..Len(written) /\ 1 + 3 * size + (3 + q) = 1 + 3 * (size + 1) + q
      BY <1>2, <2>1
    <3>2. written'[q] = written[3 + q]
          /\ written[3 + q] = file[1 + 3 * size + (3 + q)]
      BY <1>2, <2>1, <3>1
    <3> QED BY <3>1, <3>2
  <2> QED BY <2>1, <2>2, <2>3
<1>9. size' + n' <= MaxSize /\ (file # <<>> => size' + n' = Len(opened))
  <2>1. size' + n' = size + n
    BY <1>1, <1>2, <1>3
  <2> QED BY <1>2, <2>1
<1>10. RestoreInv'
  <2>1. ReadAt(1)' = ReadAt(1) /\ \A k : ReadAt(k)' = ReadAt(k)
    BY <1>1 DEF ReadAt
  <2> QED BY <1>1, <1>2, <1>3, <1>7, <1>8, <1>9, <2>1 DEF RestoreInv
<1> QED BY <1>1, <1>3, <1>4, <1>10 DEF JobsInv

\* RestoreList exits, and the file stays.
LEMMA PrintRestoredStep ==
  ASSUME J!JobListAssumption, JobsInv, J!PrintRestored
  PROVE  JobsInv'
<1>1. ListInv' /\ BuildInv' /\ WriteInv' /\ RestoreInv' /\ job_pc' = "idle"
  BY ExitKeepsInv DEF J!PrintRestored
<1>2. job_pc = "restore" /\ UNCHANGED <<file, opened, killed>>
  BY DEF J!PrintRestored, J!Exit, J!Goto, J!ghosts
<1>3. FileInv'
  BY <1>2 DEF JobsInv, FileInv
<1> QED BY <1>1, <1>3 DEF JobsInv

\* Every step of the programs keeps the invariant.
LEMMA JobsNext ==
  ASSUME J!JobListAssumption, JobsInv, [J!Next]_(J!vars)
  PROVE  JobsInv'
<1>1. CASE UNCHANGED J!vars
  <2>1. UNCHANGED <<list_head, list_tail, size, next, prev, list_data, node, n, file,
                    written, opened, killed, job_pc>>
    BY <1>1 DEF J!vars, J!listVars, J!ghosts
  <2>2. ListInv' /\ FileInv' /\ BuildInv'
    BY <2>1 DEF JobsInv, ListInv, FileInv, BuildInv
  <2>3. WriteInv' /\ RestoreInv'
    BY <2>1 DEF JobsInv, WriteInv, JobsWritten, RestoreInv, ReadAt
  <2> QED BY <2>1, <2>2, <2>3 DEF JobsInv
<1> QED
  BY <1>1, StartSaveStep, BuildJobStep, CheckpointEmptyStep, OpenForWritingStep,
     WriteNodeStep, CloseWrittenStep,
     KillSaveStep, StartRestoreStep, RestoreNodeStep, PrintRestoredStep DEF J!Next

\* What JobsRestored asks of the list that was printed.
IsRestored(list) ==
  IF ~killed
  THEN list = opened
  ELSE LET fromRear(l, j) == l[Len(l) + 1 - j]
       IN  \A j \in 1..Len(list) :
             \/ fromRear(list, j).info = Garbage
             \/ j <= Len(opened) /\ fromRear(list, j) = fromRear(opened, j)

\* By the invariant the list that is printed is the one that was saved, or
\* what a kill left of it.
LEMMA PrintedIsRestored ==
  ASSUME J!JobListAssumption, JobsInv, J!PrintRestored
  PROVE  IsRestored(printed')
<1>1. job_pc = "restore" /\ n = 0 /\ printed' = J!JobsFrom(list_head)
  BY DEF J!PrintRestored, J!Exit, J!Goto
<1>2. printed' = JobsBehind(size, size) /\ size \in Nat
  BY <1>1, ListWalk DEF JobsInv, ListInv
<1>3. /\ file # None /\ FileOf(file, Len(opened))
         /\ (~killed => Len(file) = 1 + 3 * Len(opened))
      /\ Len(opened) \in Nat /\ opened = Jobs(Len(opened))
      /\ file \in Seq(Values)
      /\ file # <<>> => size + 0 = Len(opened)
      /\ \A i \in 1..size : list_data[i] = [jobid |-> ReadAt(3 * i - 1), info |-> ReadAt(3 * i + 1)]
  BY <1>1 DEF JobsInv, FileInv, RestoreInv, FileOf, J!JobListAssumption
<1>4. Len(file) \in Nat /\ Len(file) <= 1 + 3 * Len(opened)
  BY <1>3 DEF FileOf
<1>5. ASSUME NEW i \in 1..size, 3 * i + 1 <= Len(file)
      PROVE  i <= Len(opened) /\ list_data[i] = JobAt(i)
  <2>1. i \in 1..Len(opened) /\ 3 * i - 1 <= Len(file)
    BY <1>2, <1>3, <1>4, <1>5
  <2>2. file[3 * i - 1] = i - 1 /\ file[3 * i + 1] = JobInfo
    BY <1>3, <1>5, <2>1 DEF FileOf
  <2>3. ReadAt(3 * i - 1) = i - 1 /\ ReadAt(3 * i + 1) = JobInfo
    BY <1>5, <2>1, <2>2 DEF ReadAt
  <2> QED BY <1>3, <2>1, <2>3 DEF JobAt
<1>6. CASE ~killed
  <2>1. Len(file) = 1 + 3 * Len(opened) /\ size = Len(opened)
    BY <1>2, <1>3, <1>4, <1>6
  <2>2. \A i \in 1..size : list_data[i] = JobAt(i)
    BY <1>2, <1>5, <2>1
  <2>3. printed' = Jobs(size)
    BY <1>1, <2>2, BuiltList DEF JobsInv
  <2> QED BY <1>3, <1>6, <2>1, <2>3 DEF IsRestored
<1>7. CASE killed
  <2>1. Len(printed') = size
        /\ \A j \in 1..size : printed'[size + 1 - j] = list_data[j]
    <3>1. \A i \in 1..size : size + 1 - i \in 1..size /\ size + 1 - (size + 1 - i) = i
      BY <1>2
    <3> DEFINE D == {list_data[i] : i \in 1..size}
    <3>2. printed' = [i \in 1..size |-> list_data[size + 1 - i]]
      BY <1>2 DEF JobsBehind
    <3>3. \A i \in 1..size : list_data[size + 1 - i] \in D
      BY <3>1
    <3> HIDE DEF D
    <3>4. printed' \in Seq(D) /\ Len(printed') = size
      BY <1>2, <3>2, <3>3
    <3> QED BY <3>1, <3>2, <3>4
  <2>2. ASSUME NEW j \in 1..size
        PROVE  \/ printed'[size + 1 - j].info = Garbage
               \/ j <= Len(opened)
                  /\ printed'[size + 1 - j] = opened[Len(opened) + 1 - j]
    <3>1. printed'[size + 1 - j] = list_data[j]
      BY <2>1
    <3>2. CASE 3 * j + 1 <= Len(file)
      <4>1. j <= Len(opened) /\ list_data[j] = JobAt(j)
        BY <1>5, <3>2
      <4>2. Len(opened) + 1 - j \in 1..Len(opened)
            /\ Len(opened) + 1 - (Len(opened) + 1 - j) = j
        BY <1>3, <4>1
      <4>3. Jobs(Len(opened))[Len(opened) + 1 - j] = JobAt(j)
        BY <4>2 DEF Jobs
      <4> QED BY <1>3, <3>1, <4>1, <4>3
    <3>3. CASE ~(3 * j + 1 <= Len(file))
      <4>1. ReadAt(3 * j + 1) = Garbage
        BY <3>3 DEF ReadAt
      <4>2. list_data[j] = [jobid |-> ReadAt(3 * j - 1), info |-> ReadAt(3 * j + 1)]
        BY <1>3
      <4>3. list_data[j].info = Garbage
        BY <4>1, <4>2
      <4> QED BY <3>1, <4>3
    <3> QED BY <3>2, <3>3
  <2> QED BY <1>7, <2>1, <2>2 DEF IsRestored
<1> QED BY <1>6, <1>7

\* JobsRestored for lists of any length and kills at any point: RestoreList
\* prints the jobs that SaveList last wrote, in their order, and after a
\* kill the jobs that reached the file.
THEOREM JobsAreRestored == ASSUME J!JobListAssumption PROVE J!Spec => J!JobsRestored
<1>1. J!Init => JobsInv BY InitJobs
<1>2. JobsInv /\ [J!Next]_(J!vars) => JobsInv' BY JobsNext
<1>3. JobsInv
      /\ [J!Next]_(J!vars) => [J!PrintRestored => IsRestored(printed')]_(J!vars)
  BY PrintedIsRestored
<1>4. [J!PrintRestored => IsRestored(printed')]_(J!vars) =>
        [J!PrintRestored =>
           IF ~killed
           THEN printed' = opened
           ELSE LET fromRear(list, j) == list[Len(list) + 1 - j]
                IN  \A j \in 1..Len(printed') :
                  \/ fromRear(printed', j).info = Garbage
                  \/ j <= Len(opened)
                     /\ fromRear(printed', j) = fromRear(opened, j)]_(J!vars)
  BY DEF IsRestored
<1> QED BY <1>1, <1>2, <1>3, <1>4, PTL DEF J!Spec, J!JobsRestored

------------------------------------------------------------------------------
(* The web server: where the key of each client is.                        *)

\* Client c waits in the queue.
InQueue(c) == \E i \in 1..Len(readyClients) : readyClients[i] = c

\* A worker has the key of client c.
WithWorker(c) == \E w \in Workers : key[w] = c

\* A worker with a key in hand is here.
Holding == {"handle", "want_read", "want_write"}

\* The types of the server.
HTypes ==
  /\ channel \in [Clients -> {"none", "connecting", "open", "closed"}]
  /\ arrived \in [Clients -> {"nothing", "part", "end"}]
  /\ interest \in [Clients -> {"none", "read", "write"}]
  /\ readyOps \in [Clients -> {"none", "read", "write"}]
  /\ writes_left \in [Clients -> 0..MaxWrites]
  /\ selected \subseteq Clients \cup {Nobody}
  /\ inHand \in Clients \cup {Nobody}
  /\ readyClients \in Seq(Clients)
  /\ key \in [Workers -> Clients \cup {Nobody}]
  /\ httpd_pc \in [Workers \cup {H!Main} -> {"select", "iterate", "add", "next", "waiting", "woken"} \cup Holding]
  /\ httpd_pc[H!Main] \in {"select", "iterate", "add"}
  /\ \A w \in Workers : httpd_pc[w] \in {"next", "waiting", "woken"} \cup Holding

\* A thread has a key in hand exactly where its code has one.
Hands ==
  /\ inHand # Nobody <=> httpd_pc[H!Main] = "add"
  /\ \A w \in Workers : key[w] # Nobody <=> httpd_pc[w] \in Holding

\* What the selector has found ready is what was asked of it.
SelectedInv ==
  \A c \in selected \ {Nobody} : interest[c] # "none" /\ readyOps[c] = interest[c]

\* A channel is open as long as its key is somewhere, or lost to an
\* exception.
Somewhere ==
  \A c \in Clients :
       channel[c] = "open" <=>
         interest[c] # "none" \/ c = inHand \/ InQueue(c) \/ WithWorker(c)
         \/ c \in dropped

\* No key is in two places.
OnePlace ==
  /\ \A c \in Clients : interest[c] # "none" => c # inHand
  /\ \A c \in Clients : interest[c] # "none" \/ c = inHand => ~InQueue(c)
  /\ \A i, j \in 1..Len(readyClients) : readyClients[i] = readyClients[j] => i = j
  /\ \A w \in Workers : key[w] # Nobody =>
       /\ interest[key[w]] = "none" /\ key[w] # inHand /\ ~InQueue(key[w])
       /\ \A v \in Workers : key[v] = key[w] => v = w
  /\ \A c \in dropped :
       interest[c] = "none" /\ c # inHand /\ ~InQueue(c) /\ ~WithWorker(c)
  /\ dropped \subseteq broken /\ dropped \subseteq Clients

\* The key has been taken from the selector, and no worker has it yet.
Taken(c) == c = inHand \/ InQueue(c)

\* An answer that is to be written has something left to write.
LeftInv ==
  /\ \A c \in Clients : interest[c] = "write" => writes_left[c] > 0
  /\ \A c \in Clients : Taken(c) => readyOps[c] # "none"
     /\ (readyOps[c] = "write" => writes_left[c] > 0)
  /\ \A w \in Workers :
       /\ httpd_pc[w] = "handle" => readyOps[key[w]] # "none"
          /\ (readyOps[key[w]] = "write" => writes_left[key[w]] > 0)
       /\ httpd_pc[w] = "want_write" => writes_left[key[w]] > 0

\* The inductive invariant of the server: where each key is, and what is
\* left to do with it.
HttpdInv == HTypes /\ Hands /\ SelectedInv /\ Somewhere /\ OnePlace /\ LeftInv

\* What a queue is when a client is added to it.
LEMMA QueueAppend ==
  ASSUME NEW S, NEW q \in Seq(S), NEW x \in S
  PROVE  /\ Append(q, x) \in Seq(S) /\ Len(Append(q, x)) = Len(q) + 1
            /\ Len(q) \in Nat
         /\ \A i \in 1..Len(q) : Append(q, x)[i] = q[i]
         /\ Append(q, x)[Len(q) + 1] = x
  OBVIOUS

\* What a queue is when its first client is taken.
LEMMA QueueTail ==
  ASSUME NEW S, NEW q \in Seq(S), q # <<>>
  PROVE  /\ Tail(q) \in Seq(S) /\ Len(Tail(q)) = Len(q) - 1 /\ Len(q) \in Nat \ {0}
         /\ \A i \in 1..Len(Tail(q)) : Tail(q)[i] = q[i + 1]
         /\ Head(q) = q[1] /\ q[1] \in S
  OBVIOUS

\* The server starts with no client, and every key nowhere.
LEMMA HttpdInit == ASSUME H!HttpdAssumption, H!Init PROVE HttpdInv
<1> USE DEF H!HttpdAssumption, H!Init, H!Main
<1>1. HTypes BY DEF HTypes, Holding
<1>2. Hands BY DEF Hands, Holding
<1>3. SelectedInv BY DEF SelectedInv
<1>3a. Somewhere BY DEF Somewhere, InQueue, WithWorker
<1>4. OnePlace BY DEF OnePlace, InQueue, WithWorker
<1>5. LeftInv BY DEF LeftInv, InQueue, Taken
<1> QED BY <1>1, <1>2, <1>3, <1>3a, <1>4, <1>5 DEF HttpdInv

\* As long as the queue and the keys of the workers stay, so does who is in
\* them.
LEMMA SameQueueAndKeys ==
  ASSUME UNCHANGED <<readyClients, key>>
  PROVE  \A d : (InQueue(d)' <=> InQueue(d)) /\ (WithWorker(d)' <=> WithWorker(d))
  BY DEF InQueue, WithWorker

\* What clients do moves no key.
LEMMA ClientStep ==
  ASSUME H!HttpdAssumption, HttpdInv, NEW c \in Clients,
         H!Connect(c) \/ H!Send(c) \/ H!Break(c)
  PROVE  HttpdInv'
<1> USE DEF H!HttpdAssumption, HttpdInv, H!Connect, H!Send, H!Break, H!clientVars,
            H!selectorVars
<1>1. HTypes'
  <2>1. CASE H!Connect(c)
    BY <2>1 DEF HTypes
  <2>2. CASE H!Send(c)
    BY <2>2 DEF HTypes
  <2>3. CASE H!Break(c)
    BY <2>3 DEF HTypes
  <2> QED BY <2>1, <2>2, <2>3
<1>2. Hands' BY DEF Hands
<1>3. SelectedInv' BY DEF SelectedInv
<1>3a. Somewhere' BY SameQueueAndKeys DEF Somewhere, HTypes
<1>4. OnePlace' BY DEF OnePlace, InQueue, WithWorker, HTypes
<1>5. LeftInv' BY DEF LeftInv, InQueue, Taken
<1> QED BY <1>1, <1>2, <1>3, <1>3a, <1>4, <1>5

\* select() moves no key: what it finds ready stays with the selector.
LEMMA SelectStep ==
  ASSUME H!HttpdAssumption, HttpdInv, H!Select
  PROVE  HttpdInv'
<1> USE DEF H!HttpdAssumption, HttpdInv, H!Select, H!clientVars, H!selectorVars,
            H!Goto, H!Main
<1>1. HTypes' BY DEF HTypes, H!Ready, Holding
<1>2. Hands' BY DEF Hands, HTypes, Holding
<1>3. SelectedInv' BY DEF SelectedInv, H!Ready, HTypes
<1>3a. Somewhere' BY DEF Somewhere, OnePlace, InQueue, WithWorker
<1>4. OnePlace' BY DEF OnePlace, InQueue, WithWorker
<1>5. LeftInv'
  <2>1. \A c \in Clients : interest[c] = "none" => readyOps'[c] = readyOps[c]
    BY DEF H!Ready, HTypes
  <2>2. \A c \in Clients : Taken(c) => interest[c] = "none"
    BY DEF OnePlace, Taken
  <2> QED
    BY <2>1, <2>2
       DEF LeftInv, InQueue, Taken, OnePlace, Hands, HTypes, Holding, WithWorker
<1> QED BY <1>1, <1>2, <1>3, <1>3a, <1>4, <1>5

\* The end of the loop over the selected keys moves no key.
LEMMA EndIterationStep ==
  ASSUME H!HttpdAssumption, HttpdInv, H!EndIteration
  PROVE  HttpdInv'
<1> USE DEF H!HttpdAssumption, HttpdInv, H!EndIteration, H!clientVars,
            H!selectorVars, H!Goto, H!Main
<1>1. HTypes' BY DEF HTypes, Holding
<1>2. Hands' BY DEF Hands, HTypes, Holding
<1>3. SelectedInv' BY DEF SelectedInv
<1>3a. Somewhere' BY DEF Somewhere, OnePlace, InQueue, WithWorker
<1>4. OnePlace' BY DEF OnePlace, InQueue, WithWorker
<1>5. LeftInv' BY DEF LeftInv, InQueue, Taken, HTypes
<1> QED BY <1>1, <1>2, <1>3, <1>3a, <1>4, <1>5

\* An accept that throws moves no key.
LEMMA AcceptThrowsStep ==
  ASSUME H!HttpdAssumption, HttpdInv, H!acceptThrows
  PROVE  HttpdInv'
<1> USE DEF H!HttpdAssumption, HttpdInv, H!acceptThrows, H!clientVars,
            H!selectorVars, H!Goto, H!Main
<1>1. HTypes' BY DEF HTypes, Holding
<1>2. Hands' BY DEF Hands, HTypes, Holding
<1>3. SelectedInv' BY DEF SelectedInv, HTypes
<1>3a. Somewhere' BY DEF Somewhere, OnePlace, InQueue, WithWorker
<1>4. OnePlace' BY DEF OnePlace, InQueue, WithWorker
<1>5. LeftInv' BY DEF LeftInv, InQueue, Taken, HTypes
<1> QED BY <1>1, <1>2, <1>3, <1>3a, <1>4, <1>5

\* acceptClient gives a new client to the selector, which no one had before.
LEMMA AcceptStep ==
  ASSUME H!HttpdAssumption, HttpdInv, H!acceptClient
  PROVE  HttpdInv'
<1> USE DEF H!HttpdAssumption, HttpdInv, H!clientVars, H!selectorVars, H!Main
<1>0. PICK c \in Clients : /\ channel[c] = "connecting"
       /\ channel' = [channel EXCEPT ![c] = "open"]
       /\ interest' = [interest EXCEPT ![c] = "read"]
  BY DEF H!acceptClient
<1>a. /\ selected' = selected \ {Nobody}
      /\ UNCHANGED <<arrived, parts, broken, readyOps, inHand, readyClients, key,
                     writes_left, dropped, httpd_pc>>
  BY DEF H!acceptClient
<1>1. HTypes' BY <1>0, <1>a DEF HTypes
<1>2. Hands' BY <1>a DEF Hands
<1>b. interest[c] = "none" /\ c # inHand /\ ~InQueue(c) /\ ~WithWorker(c)
      /\ c \notin dropped
  BY <1>0 DEF OnePlace, Somewhere
<1>3. SelectedInv' BY <1>0, <1>a, <1>b DEF SelectedInv, HTypes
<1>3a. Somewhere' BY <1>0, <1>a, <1>b, SameQueueAndKeys DEF Somewhere, HTypes
<1>c. \A w \in Workers : key[w] # c
  BY <1>b DEF WithWorker
<1>d. \A d \in Clients \ {c} : interest'[d] = interest[d]
  BY <1>0 DEF HTypes
<1>4. OnePlace' BY <1>0, <1>a, <1>b, <1>c, <1>d, SameQueueAndKeys DEF OnePlace, HTypes
<1>5. LeftInv' BY <1>0, <1>a, <1>b DEF LeftInv, InQueue, Taken, HTypes
<1> QED BY <1>1, <1>2, <1>3, <1>3a, <1>4, <1>5

\* The selecting thread takes a key from the selector into its hand.
LEMMA DisarmStep ==
  ASSUME H!HttpdAssumption, HttpdInv, H!Disarm
  PROVE  HttpdInv'
<1> USE DEF H!HttpdAssumption, HttpdInv, H!clientVars, H!selectorVars, H!Main
<1>0. PICK c \in selected \ {Nobody} : inHand' = c /\ selected' = selected \ {c}
       /\ interest' = [interest EXCEPT ![c] = "none"]
  BY DEF H!Disarm
<1>a. /\ httpd_pc[H!Main] = "iterate"
         /\ httpd_pc' = [httpd_pc EXCEPT ![H!Main] = "add"]
      /\ UNCHANGED <<H!clientVars, readyOps, readyClients, key, writes_left, dropped>>
  BY DEF H!Disarm, H!Goto
<1>b. c \in Clients /\ interest[c] # "none" /\ readyOps[c] = interest[c]
      /\ inHand = Nobody
      /\ ~InQueue(c) /\ ~WithWorker(c) /\ c \notin dropped
  BY <1>0, <1>a DEF OnePlace, SelectedInv, Hands, HTypes, WithWorker
<1>1. HTypes' BY <1>0, <1>a, <1>b DEF HTypes, Holding
<1>2. Hands' BY <1>0, <1>a, <1>b DEF Hands, HTypes, Holding
<1>3. SelectedInv' BY <1>0, <1>a, <1>b DEF SelectedInv, HTypes
<1>3a. Somewhere' BY <1>0, <1>a, <1>b, SameQueueAndKeys DEF Somewhere, HTypes
<1>4. OnePlace' BY <1>0, <1>a, <1>b, SameQueueAndKeys DEF OnePlace, HTypes
<1>5. LeftInv' BY <1>0, <1>a, <1>b DEF LeftInv, InQueue, Taken, HTypes
<1> QED BY <1>1, <1>2, <1>3, <1>3a, <1>4, <1>5

\* The selecting thread adds the key in its hand to the queue.
LEMMA AddStep ==
  ASSUME H!HttpdAssumption, HttpdInv, H!Add
  PROVE  HttpdInv'
<1> USE DEF H!HttpdAssumption, HttpdInv, H!clientVars, H!selectorVars, H!Main
<1>a. /\ httpd_pc[H!Main] = "add" /\ readyClients' = Append(readyClients, inHand)
         /\ inHand' = Nobody
      /\ UNCHANGED <<H!clientVars, interest, readyOps, selected, key, writes_left,
                     dropped>>
  BY DEF H!Add
<1>b. /\ httpd_pc' \in [Workers \cup {H!Main} -> {"select", "iterate", "add", "next", "waiting", "woken"} \cup Holding]
      /\ httpd_pc'[H!Main] = "iterate"
      /\ \A w \in Workers : httpd_pc'[w] = httpd_pc[w]
         \/ (httpd_pc[w] = "waiting" /\ httpd_pc'[w] = "woken")
  <2>1. CASE httpd_pc' = [httpd_pc EXCEPT ![H!Main] = "iterate"]
    BY <2>1 DEF HTypes
  <2>2. CASE \E w \in H!Waiting(Workers) : httpd_pc' = [httpd_pc EXCEPT ![H!Main] = "iterate", ![w] = "woken"]
    <3>1. PICK w \in Workers : httpd_pc[w] = "waiting"
          /\ httpd_pc' = [httpd_pc EXCEPT ![H!Main] = "iterate", ![w] = "woken"]
      BY <2>2 DEF H!Waiting
    <3>2. httpd_pc' \in [Workers \cup {H!Main} -> {"select", "iterate", "add", "next", "waiting", "woken"} \cup Holding]
      BY <3>1 DEF HTypes
    <3>3. w # H!Main /\ H!Main \in DOMAIN httpd_pc /\ w \in DOMAIN httpd_pc
      BY DEF HTypes
    <3> QED BY <3>1, <3>2, <3>3 DEF HTypes
  <2> QED BY <2>1, <2>2 DEF H!Add, H!SignalOne
<1>c. inHand \in Clients /\ inHand # Nobody
  BY <1>a DEF Hands, HTypes
<1>d. /\ readyClients' \in Seq(Clients) /\ Len(readyClients') = Len(readyClients) + 1
         /\ Len(readyClients) \in Nat
      /\ \A i \in 1..Len(readyClients) : readyClients'[i] = readyClients[i]
      /\ readyClients'[Len(readyClients) + 1] = inHand
  BY <1>a, <1>c, QueueAppend DEF HTypes
<1>e. \A d : InQueue(d)' <=> InQueue(d) \/ d = inHand
  BY <1>d DEF InQueue
<1>1. HTypes' BY <1>a, <1>b, <1>c, <1>d DEF HTypes, Holding
<1>2. Hands' BY <1>a, <1>b, <1>c DEF Hands, HTypes, Holding
<1>3. SelectedInv' BY <1>a DEF SelectedInv, HTypes
<1>f. ~InQueue(inHand)
  BY <1>c DEF OnePlace
<1>g. \A i, j \in 1..Len(readyClients') : readyClients'[i] = readyClients'[j] => i = j
  BY <1>d, <1>f DEF OnePlace, InQueue
<1>3a. Somewhere'
  BY <1>a, <1>c, <1>e, <1>f, <1>g DEF Somewhere, OnePlace, WithWorker, HTypes
<1>4. OnePlace' BY <1>a, <1>c, <1>e, <1>f, <1>g DEF OnePlace, WithWorker, HTypes
<1>5. LeftInv' BY <1>a, <1>b, <1>c, <1>e DEF LeftInv, Taken, HTypes
<1> QED BY <1>1, <1>2, <1>3, <1>3a, <1>4, <1>5

\* Worker w, and no other thread, goes to p.
MovedTo(w, p) ==
  /\ httpd_pc' = [httpd_pc EXCEPT ![w] = p] /\ httpd_pc'[w] = p
     /\ httpd_pc'[H!Main] = httpd_pc[H!Main]
  /\ \A v \in Workers \ {w} : httpd_pc'[v] = httpd_pc[v]

\* An update of pc moves that worker only.
LEMMA WorkerMoved ==
  ASSUME H!HttpdAssumption, HTypes, NEW w \in Workers, NEW p,
         httpd_pc' = [httpd_pc EXCEPT ![w] = p]
  PROVE  MovedTo(w, p)
  BY DEF HTypes, MovedTo, H!HttpdAssumption

\* A worker takes the first key of the queue, or waits.
LEMMA NextKeyStep ==
  ASSUME H!HttpdAssumption, HttpdInv, NEW w \in Workers, H!Next_(w)
  PROVE  HttpdInv'
<1> USE DEF H!HttpdAssumption, HttpdInv, H!clientVars, H!selectorVars, H!Main
<1>a. /\ httpd_pc[w] \in {"next", "woken"} /\ w # "main"
      /\ UNCHANGED <<H!clientVars, H!selectorVars, writes_left, dropped>>
  BY DEF H!Next_
<1>1. CASE readyClients = <<>>
  <2>a. httpd_pc' = [httpd_pc EXCEPT ![w] = "waiting"]
        /\ UNCHANGED <<readyClients, key>>
    BY <1>1 DEF H!Next_
  <2>1. HTypes' BY <1>a, <2>a DEF HTypes, Holding
  <2>2. Hands' BY <1>a, <2>a DEF Hands, HTypes, Holding
  <2>3. SelectedInv' BY <1>a DEF SelectedInv
  <2>4. Somewhere' BY <1>a, <2>a, SameQueueAndKeys DEF Somewhere
  <2>5. OnePlace' BY <1>a, <2>a, SameQueueAndKeys DEF OnePlace
  <2>6. LeftInv' BY <1>a, <2>a, SameQueueAndKeys DEF LeftInv, Taken, HTypes
  <2> QED BY <2>1, <2>2, <2>3, <2>4, <2>5, <2>6
<1>2. CASE readyClients # <<>>
  <2> DEFINE c == Head(readyClients)
  <2>a. /\ httpd_pc' = [httpd_pc EXCEPT ![w] = "handle"]
           /\ key' = [key EXCEPT ![w] = c]
        /\ readyClients' = Tail(readyClients)
    BY <1>2 DEF H!Next_
  <2>b. /\ readyClients' \in Seq(Clients)
           /\ Len(readyClients') = Len(readyClients) - 1
              /\ Len(readyClients) \in Nat \ {0}
        /\ \A i \in 1..Len(readyClients') : readyClients'[i] = readyClients[i + 1]
        /\ c = readyClients[1] /\ c \in Clients
    BY <1>2, <2>a, QueueTail DEF HTypes
  <2>c. key[w] = Nobody /\ InQueue(c) /\ \A v \in Workers : key[v] # c
    BY <1>a, <2>b DEF Hands, Holding, OnePlace, InQueue
  <2>d. \A d : InQueue(d)' <=> InQueue(d) /\ d # c
    <3>1. ASSUME NEW d, InQueue(d)' PROVE InQueue(d) /\ d # c
      <4>1. PICK i \in 1..Len(readyClients') : readyClients'[i] = d
        BY <3>1 DEF InQueue
      <4>2. i + 1 \in 1..Len(readyClients) /\ 1 \in 1..Len(readyClients)
            /\ readyClients[i + 1] = d /\ i + 1 # 1
        BY <4>1, <2>b
      <4> QED BY <4>2, <2>b DEF InQueue, OnePlace
    <3>2. ASSUME NEW d, InQueue(d), d # c PROVE InQueue(d)'
      <4>1. PICK i \in 1..Len(readyClients) : readyClients[i] = d
        BY <3>2 DEF InQueue
      <4>2. i - 1 \in 1..Len(readyClients')
            /\ readyClients'[i - 1] = readyClients[(i - 1) + 1] /\ (i - 1) + 1 = i
        BY <4>1, <3>2, <2>b
      <4> QED BY <4>1, <4>2 DEF InQueue
    <3> QED BY <3>1, <3>2
  <2>e. \A d \in Clients : WithWorker(d)' <=> WithWorker(d) \/ d = c
    BY <2>a, <2>b, <2>c DEF WithWorker, HTypes
  <2>f. \A i, j \in 1..Len(readyClients') : readyClients'[i] = readyClients'[j] =>
          i = j
    <3> SUFFICES ASSUME NEW i \in 1..Len(readyClients'),
                        NEW j \in 1..Len(readyClients'), readyClients'[i] = readyClients'[j]
                 PROVE  i = j
      OBVIOUS
    <3>1. i + 1 \in 1..Len(readyClients) /\ j + 1 \in 1..Len(readyClients)
          /\ readyClients[i + 1] = readyClients[j + 1]
      BY <2>b
    <3> QED BY <3>1 DEF OnePlace
  <2>g. /\ \A v \in Workers \ {w} : key'[v] = key[v] /\ httpd_pc'[v] = httpd_pc[v]
        /\ key'[w] = c /\ httpd_pc'[w] = "handle"
           /\ httpd_pc'[H!Main] = httpd_pc[H!Main]
    BY <1>a, <2>a DEF HTypes
  <2>h. interest[c] = "none" /\ c # inHand /\ c \notin dropped /\ c # Nobody
    BY <2>b, <2>c DEF OnePlace
  <2>i. readyOps[c] # "none" /\ (readyOps[c] = "write" => writes_left[c] > 0)
    BY <2>b, <2>c DEF LeftInv, Taken
  <2> HIDE DEF c
  <2>1. HTypes' BY <1>a, <2>a, <2>b DEF HTypes, Holding
  <2>2. Hands' BY <1>a, <2>a, <2>g, <2>b DEF Hands, HTypes, Holding
  <2>3. SelectedInv' BY <1>a DEF SelectedInv
  <2>4. Somewhere' BY <1>a, <2>d, <2>e, <2>c, <2>b DEF Somewhere
  <2>5. OnePlace' BY <1>a, <2>b, <2>c, <2>d, <2>e, <2>f, <2>g, <2>h DEF OnePlace
  <2>6. LeftInv' BY <1>a, <2>d, <2>g, <2>i DEF LeftInv, Taken
  <2> QED BY <2>1, <2>2, <2>3, <2>4, <2>5, <2>6
<1> QED BY <1>1, <1>2

\* A spurious wakeup moves no key.
LEMMA HttpdWakeupStep ==
  ASSUME H!HttpdAssumption, HttpdInv, NEW w \in Workers, H!SpuriousWakeup(w)
  PROVE  HttpdInv'
<1> USE DEF H!HttpdAssumption, HttpdInv, H!clientVars, H!selectorVars, H!Main
<1>a. /\ httpd_pc[w] = "waiting" /\ httpd_pc' = [httpd_pc EXCEPT ![w] = "woken"]
         /\ w # "main"
      /\ UNCHANGED <<H!clientVars, H!selectorVars, writes_left, dropped,
                     readyClients, key>>
  BY DEF H!SpuriousWakeup, H!WakeSpuriously
<1>1. HTypes' BY <1>a DEF HTypes, Holding
<1>2. Hands' BY <1>a DEF Hands, HTypes, Holding
<1>3. SelectedInv' BY <1>a DEF SelectedInv
<1>4. Somewhere' BY <1>a, SameQueueAndKeys DEF Somewhere
<1>5. OnePlace' BY <1>a, SameQueueAndKeys DEF OnePlace
<1>6. LeftInv' BY <1>a, SameQueueAndKeys DEF LeftInv, Taken, HTypes
<1> QED BY <1>1, <1>2, <1>3, <1>4, <1>5, <1>6

\* Worker w gives up its key, which was nowhere else.
KeyLeaves(w) ==
         /\ key[w] \in Clients
         /\ \A v \in Workers \ {w} : key'[v] = key[v] /\ key[v] # key[w]
         /\ key'[w] = Nobody
         /\ \A d : InQueue(d)' <=> InQueue(d)
         /\ \A d \in Clients : WithWorker(d)' <=> WithWorker(d) /\ d # key[w]
         /\ ~InQueue(key[w]) /\ key[w] # inHand /\ interest[key[w]] = "none" 
         /\ key[w] \notin dropped /\ channel[key[w]] = "open"
            /\ key[w] \notin selected

\* A worker that gives up its key leaves it nowhere.
LEMMA KeyGone ==
  ASSUME H!HttpdAssumption, HttpdInv, NEW w \in Workers, key[w] # Nobody,
         key' = [key EXCEPT ![w] = Nobody], readyClients' = readyClients
  PROVE  KeyLeaves(w)
<1> USE DEF HttpdInv
<1>1. key[w] \in Clients /\ key[w] # Nobody
  BY DEF HTypes
<1>2. \A v \in Workers \ {w} : key'[v] = key[v] /\ key[v] # key[w]
  BY <1>1 DEF OnePlace, HTypes
<1>3. key'[w] = Nobody
  BY DEF HTypes
<1>4. \A d : InQueue(d)' <=> InQueue(d)
  BY DEF InQueue
<1>5. \A d \in Clients : WithWorker(d)' <=> WithWorker(d) /\ d # key[w]
  BY <1>1, <1>2, <1>3 DEF WithWorker, H!HttpdAssumption
<1>6. WithWorker(key[w])
  BY DEF WithWorker
<1>7. ~InQueue(key[w]) /\ key[w] # inHand /\ interest[key[w]] = "none"
      /\ key[w] \notin dropped
  BY <1>1, <1>6 DEF OnePlace
<1>8. channel[key[w]] = "open" /\ key[w] \notin selected
  BY <1>1, <1>6, <1>7 DEF Somewhere, SelectedInv
<1> QED BY <1>1, <1>2, <1>3, <1>4, <1>5, <1>7, <1>8 DEF KeyLeaves

\* An exception drops the key of the worker.
LEMMA ThrowStep ==
  ASSUME H!HttpdAssumption, HttpdInv, NEW w \in Workers, H!Throw(w)
  PROVE  HttpdInv'
<1> USE DEF H!HttpdAssumption, HttpdInv, H!clientVars, H!selectorVars, H!Main
<1>a. /\ httpd_pc[w] = "handle" /\ httpd_pc' = [httpd_pc EXCEPT ![w] = "next"]
         /\ w # "main"
      /\ dropped' = dropped \cup {key[w]} /\ key[w] \in broken
      /\ key' = [key EXCEPT ![w] = Nobody]
      /\ UNCHANGED <<H!clientVars, H!selectorVars, writes_left, readyClients>>
  BY DEF H!Throw
<1>b. key[w] # Nobody
  BY <1>a DEF Hands, Holding
<1>k. KeyLeaves(w) /\ MovedTo(w, "next")
  BY <1>a, <1>b, KeyGone, WorkerMoved
<1>1. HTypes' BY <1>a DEF HTypes, Holding
<1>2. Hands' BY <1>a DEF Hands, HTypes, Holding
<1>3. SelectedInv' BY <1>a DEF SelectedInv
<1>4. Somewhere' BY <1>a, <1>k DEF Somewhere, KeyLeaves
<1>5. OnePlace' BY <1>a, <1>k DEF OnePlace, KeyLeaves
<1>6. LeftInv' BY <1>a, <1>k DEF LeftInv, Taken, KeyLeaves, MovedTo
<1> QED BY <1>1, <1>2, <1>3, <1>4, <1>5, <1>6

\* A worker reads a request, and keeps its key.
LEMMA ReadRequestStep ==
  ASSUME H!HttpdAssumption, HttpdInv, NEW w \in Workers, H!Read(w)
  PROVE  HttpdInv'
<1> USE DEF H!HttpdAssumption, HttpdInv, H!clientVars, H!selectorVars, H!Main
<1>a. /\ httpd_pc[w] = "handle" /\ w # "main"
      /\ arrived' = [arrived EXCEPT ![key[w]] = "nothing"]
      /\ UNCHANGED <<channel, parts, broken, H!selectorVars, readyClients, key,
                     dropped>>
  BY DEF H!Read
<1>b. key[w] \in Clients /\ \A v \in Workers \ {w} : key[v] # key[w]
  BY <1>a DEF Hands, Holding, OnePlace, HTypes
<1>c. \/ /\ httpd_pc' = [httpd_pc EXCEPT ![w] = "want_write"]
         /\ \E k \in 1..MaxWrites : writes_left' = [writes_left EXCEPT ![key[w]] = k]
      \/ httpd_pc' = [httpd_pc EXCEPT ![w] = "want_read"] /\ UNCHANGED writes_left
  BY DEF H!Read
<1>d. interest[key[w]] = "none" /\ ~Taken(key[w])
  BY <1>b DEF OnePlace, Taken
<1>e. PICK p \in {"want_read", "want_write"} : MovedTo(w, p)
  BY <1>c, WorkerMoved
<1>f. /\ writes_left' \in [Clients -> 0..MaxWrites]
         /\ \A d \in Clients \ {key[w]} : writes_left'[d] = writes_left[d]
      /\ httpd_pc'[w] = "want_write" => writes_left'[key[w]] > 0
  <2>1. CASE httpd_pc' = [httpd_pc EXCEPT ![w] = "want_write"]
             /\ \E k \in 1..MaxWrites : writes_left' = [writes_left EXCEPT ![key[w]] = k]
    BY <1>b, <2>1 DEF HTypes
  <2>2. CASE httpd_pc' = [httpd_pc EXCEPT ![w] = "want_read"] /\ UNCHANGED writes_left
    BY <2>2 DEF HTypes
  <2> QED BY <1>c, <2>1, <2>2
<1>1. HTypes' BY <1>a, <1>b, <1>e, <1>f DEF HTypes, Holding, MovedTo
<1>2. Hands' BY <1>a, <1>e DEF Hands, HTypes, Holding, MovedTo
<1>3. SelectedInv' BY <1>a DEF SelectedInv
<1>4. Somewhere' BY <1>a, SameQueueAndKeys DEF Somewhere
<1>5. OnePlace' BY <1>a, SameQueueAndKeys DEF OnePlace
<1>g. \A v \in Workers : httpd_pc[v] \in Holding => key[v] \in Clients
  BY DEF Hands, HTypes
<1>6. LeftInv'
  <2>1. \A c \in Clients : interest'[c] = "write" => writes_left'[c] > 0
    BY <1>a, <1>d, <1>f DEF LeftInv
  <2>2. \A c \in Clients : Taken(c)' => readyOps'[c] # "none"
        /\ (readyOps'[c] = "write" => writes_left'[c] > 0)
    BY <1>a, <1>d, <1>f, SameQueueAndKeys DEF LeftInv, Taken
  <2>3. \A v \in Workers :
       /\ httpd_pc'[v] = "handle" => readyOps'[key'[v]] # "none"
          /\ (readyOps'[key'[v]] = "write" => writes_left'[key'[v]] > 0)
       /\ httpd_pc'[v] = "want_write" => writes_left'[key'[v]] > 0
    BY <1>a, <1>b, <1>e, <1>f, <1>g DEF LeftInv, MovedTo, Holding
  <2> QED BY <2>1, <2>2, <2>3 DEF LeftInv
<1> QED BY <1>1, <1>2, <1>3, <1>4, <1>5, <1>6

\* A worker writes a part of the answer, and with the last one closes the
\* channel.
LEMMA WriteAnswerStep ==
  ASSUME H!HttpdAssumption, HttpdInv, NEW w \in Workers, H!Write(w)
  PROVE  HttpdInv'
<1> USE DEF H!HttpdAssumption, HttpdInv, H!clientVars, H!selectorVars, H!Main
<1>a. /\ httpd_pc[w] = "handle" /\ w # "main" /\ readyOps[key[w]] = "write"
      /\ writes_left' = [writes_left EXCEPT ![key[w]] = @ - 1]
      /\ UNCHANGED <<arrived, parts, broken, H!selectorVars, readyClients, dropped>>
  BY DEF H!Write
<1>b. key[w] \in Clients /\ key[w] # Nobody
      /\ \A v \in Workers \ {w} : key[v] # key[w]
  BY <1>a DEF Hands, Holding, OnePlace, HTypes
<1>c. writes_left[key[w]] \in 1..MaxWrites
  BY <1>a, <1>b DEF LeftInv, HTypes
<1>d. interest[key[w]] = "none" /\ ~Taken(key[w])
  BY <1>b DEF OnePlace, Taken
<1>e. CASE writes_left[key[w]] = 1
  <2>a. /\ channel' = [channel EXCEPT ![key[w]] = "closed"]
        /\ key' = [key EXCEPT ![w] = Nobody]
        /\ httpd_pc' = [httpd_pc EXCEPT ![w] = "next"]
    BY <1>e DEF H!Write
  <2>k. KeyLeaves(w) /\ MovedTo(w, "next")
    BY <1>a, <1>b, <2>a, KeyGone, WorkerMoved
  <2>1. HTypes' BY <1>a, <1>b, <1>c, <2>a DEF HTypes, Holding
  <2>2. Hands' BY <1>a, <2>a DEF Hands, HTypes, Holding
  <2>3. SelectedInv' BY <1>a DEF SelectedInv
  <2>4. Somewhere' BY <1>a, <2>a, <2>k DEF Somewhere, KeyLeaves, HTypes
  <2>5. OnePlace' BY <1>a, <2>k DEF OnePlace, KeyLeaves
  <2>6. LeftInv' BY <1>a, <1>d, <2>k DEF LeftInv, Taken, HTypes, KeyLeaves, MovedTo
  <2> QED BY <2>1, <2>2, <2>3, <2>4, <2>5, <2>6
<1>f. CASE writes_left[key[w]] # 1
  <2>a. /\ httpd_pc' = [httpd_pc EXCEPT ![w] = "want_write"]
        /\ UNCHANGED <<channel, key>>
    BY <1>f DEF H!Write
  <2>1. HTypes' BY <1>a, <1>b, <1>c, <2>a DEF HTypes, Holding
  <2>2. Hands' BY <1>a, <2>a DEF Hands, HTypes, Holding
  <2>3. SelectedInv' BY <1>a DEF SelectedInv
  <2>4. Somewhere' BY <1>a, <2>a, SameQueueAndKeys DEF Somewhere
  <2>5. OnePlace' BY <1>a, <2>a, SameQueueAndKeys DEF OnePlace
  <2>6. LeftInv'
    BY <1>a, <1>b, <1>c, <1>d, <1>f, <2>a, SameQueueAndKeys DEF LeftInv, Taken, HTypes
  <2> QED BY <2>1, <2>2, <2>3, <2>4, <2>5, <2>6
<1> QED BY <1>e, <1>f

\* A worker hands its key back to the selector.
LEMMA RearmStep ==
  ASSUME H!HttpdAssumption, HttpdInv, NEW w \in Workers, H!Rearm(w)
  PROVE  HttpdInv'
<1> USE DEF H!HttpdAssumption, HttpdInv, H!clientVars, H!selectorVars, H!Main
<1>a. /\ httpd_pc[w] \in {"want_read", "want_write"} /\ w # "main"
      /\ interest' = [interest EXCEPT ![key[w]] = IF httpd_pc[w] = "want_read" THEN "read" ELSE "write"]
      /\ key' = [key EXCEPT ![w] = Nobody]
      /\ httpd_pc' = [httpd_pc EXCEPT ![w] = "next"]
      /\ UNCHANGED <<H!clientVars, readyOps, selected, inHand, readyClients,
                     writes_left, dropped>>
  BY DEF H!Rearm
<1>b. key[w] # Nobody
  BY <1>a DEF Hands, Holding
<1>c. /\ interest' \in [Clients -> {"none", "read", "write"}]
      /\ interest'[key[w]] \in {"read", "write"}
      /\ interest'[key[w]] = "write" => writes_left[key[w]] > 0
      /\ \A d \in Clients : d # key[w] => interest'[d] = interest[d]
  BY <1>a, <1>b, KeyGone DEF HTypes, LeftInv, KeyLeaves
<1>k. KeyLeaves(w) /\ MovedTo(w, "next")
  BY <1>a, <1>b, KeyGone, WorkerMoved
<1>1. HTypes' BY <1>a, <1>c DEF HTypes, Holding
<1>2. Hands' BY <1>a DEF Hands, HTypes, Holding
<1>3. SelectedInv' BY <1>a, <1>c, <1>k DEF SelectedInv, HTypes, KeyLeaves
<1>4. Somewhere' BY <1>a, <1>c, <1>k DEF Somewhere, KeyLeaves
<1>5. OnePlace' BY <1>a, <1>c, <1>k DEF OnePlace, KeyLeaves
<1>6. LeftInv' BY <1>a, <1>c, <1>k DEF LeftInv, Taken, KeyLeaves, MovedTo
<1> QED BY <1>1, <1>2, <1>3, <1>4, <1>5, <1>6

\* Every step of the server keeps its invariant.
LEMMA HttpdNext ==
  ASSUME H!HttpdAssumption, HttpdInv, [H!Next]_(H!vars)
  PROVE  HttpdInv'
<1>1. CASE UNCHANGED H!vars
  <2>1. HTypes' BY <1>1 DEF H!vars, HttpdInv, HTypes, H!clientVars, H!selectorVars
  <2>2. Hands' BY <1>1 DEF H!vars, HttpdInv, Hands, H!clientVars, H!selectorVars
  <2>3. SelectedInv'
    BY <1>1 DEF H!vars, HttpdInv, SelectedInv, H!clientVars, H!selectorVars
  <2>4. Somewhere'
    BY <1>1, SameQueueAndKeys
       DEF H!vars, HttpdInv, Somewhere, H!clientVars, H!selectorVars
  <2>5. OnePlace'
    BY <1>1, SameQueueAndKeys
       DEF H!vars, HttpdInv, OnePlace, H!clientVars, H!selectorVars
  <2>6. LeftInv'
    BY <1>1, SameQueueAndKeys
       DEF H!vars, HttpdInv, LeftInv, Taken, H!clientVars, H!selectorVars
  <2> QED BY <2>1, <2>2, <2>3, <2>4, <2>5, <2>6 DEF HttpdInv
<1> QED
  BY <1>1, ClientStep, SelectStep, EndIterationStep, AcceptStep, AcceptThrowsStep,
     DisarmStep, AddStep, NextKeyStep,
     HttpdWakeupStep, ThrowStep, ReadRequestStep, WriteAnswerStep, RearmStep
     DEF H!Next, H!run, H!handleClient

\* By the invariant the key of an open channel is in one place, and that of
\* no other in any.
LEMMA HttpdInvGivesPlace == ASSUME H!HttpdAssumption, HttpdInv PROVE H!KeyInOnePlace
<1> USE DEF HttpdInv
<1>0. dropped \subseteq broken
  BY DEF OnePlace
<1> SUFFICES ASSUME NEW c \in Clients
             PROVE  IF channel[c] = "open" THEN \E p \in H!Places(c) : H!Places(c) = {p}
                                           ELSE H!Places(c) = {}
  BY <1>0 DEF H!KeyInOnePlace
<1> DEFINE Sel == {<<"selector">> : k \in {c} \cap {d \in Clients : interest[d] # "none"}}
           Mn == {<<"main">> : k \in {c} \cap {inHand}}
           Qu == {<<"queue", i>> : i \in {j \in DOMAIN readyClients : readyClients[j] = c}}
           Wo == {<<"worker", w>> : w \in {v \in Workers : key[v] = c}}
           Dr == {<<"dropped">> : k \in {c} \cap dropped}
<1>1. H!Places(c) = Sel \cup Mn \cup Qu \cup Wo \cup Dr
  BY DEF H!Places
<1>2. /\ interest[c] = "none" => Sel = {}
      /\ interest[c] # "none" => Sel = {<<"selector">>}
  OBVIOUS
<1>3. /\ c # inHand => Mn = {}
      /\ c = inHand => Mn = {<<"main">>}
  OBVIOUS
<1>4. /\ ~InQueue(c) => Qu = {}
      /\ \A i \in 1..Len(readyClients) : readyClients[i] = c => Qu = {<<"queue", i>>}
  <2>1. DOMAIN readyClients = 1..Len(readyClients)
    BY DEF HTypes
  <2> QED BY <2>1 DEF InQueue, OnePlace
<1>5. /\ ~WithWorker(c) => Wo = {}
      /\ \A w \in Workers : key[w] = c => Wo = {<<"worker", w>>}
  BY DEF WithWorker, OnePlace, H!HttpdAssumption
<1>6. /\ c \notin dropped => Dr = {}
      /\ c \in dropped => Dr = {<<"dropped">>}
  OBVIOUS
<1> HIDE DEF Sel, Mn, Qu, Wo, Dr
<1>7. CASE channel[c] # "open"
  BY <1>7, <1>1, <1>2, <1>3, <1>4, <1>5, <1>6 DEF Somewhere
<1>8. CASE interest[c] # "none"
  <2>1. c # inHand /\ ~InQueue(c) /\ ~WithWorker(c) /\ c \notin dropped
        /\ channel[c] = "open"
    BY <1>8 DEF OnePlace, Somewhere, WithWorker, H!HttpdAssumption
  <2> QED BY <2>1, <1>8, <1>1, <1>2, <1>3, <1>4, <1>5, <1>6
<1>9. CASE c = inHand
  <2>1. interest[c] = "none" /\ ~InQueue(c) /\ ~WithWorker(c) /\ c \notin dropped
        /\ channel[c] = "open"
    BY <1>9 DEF OnePlace, Somewhere, WithWorker, H!HttpdAssumption
  <2> QED BY <2>1, <1>9, <1>1, <1>2, <1>3, <1>4, <1>5, <1>6
<1>10. CASE InQueue(c)
  <2>1. interest[c] = "none" /\ c # inHand /\ ~WithWorker(c) /\ c \notin dropped
        /\ channel[c] = "open"
    BY <1>10 DEF OnePlace, Somewhere, WithWorker, H!HttpdAssumption
  <2>2. PICK i \in 1..Len(readyClients) : readyClients[i] = c
    BY <1>10 DEF InQueue
  <2> QED BY <2>1, <2>2, <1>1, <1>2, <1>3, <1>4, <1>5, <1>6
<1>11. CASE WithWorker(c)
  <2>1. PICK w \in Workers : key[w] = c
    BY <1>11 DEF WithWorker
  <2>2. interest[c] = "none" /\ c # inHand /\ ~InQueue(c) /\ c \notin dropped
        /\ channel[c] = "open"
    BY <1>11, <2>1 DEF OnePlace, Somewhere, H!HttpdAssumption
  <2> QED BY <2>1, <2>2, <1>1, <1>2, <1>3, <1>4, <1>5, <1>6
<1>12. CASE c \in dropped
  <2>1. interest[c] = "none" /\ c # inHand /\ ~InQueue(c) /\ ~WithWorker(c)
        /\ channel[c] = "open"
    BY <1>12 DEF OnePlace, Somewhere
  <2> QED BY <2>1, <1>12, <1>1, <1>2, <1>3, <1>4, <1>5, <1>6
<1> QED BY <1>7, <1>8, <1>9, <1>10, <1>11, <1>12 DEF Somewhere

\* KeyInOnePlace for any number of clients and workers: the selecting
\* thread, the queue and the workers of LargerHttpd never have the key of a
\* client twice, and lose it only to an exception.
THEOREM HttpdKeysSafe == ASSUME H!HttpdAssumption PROVE H!Spec => []H!KeyInOnePlace
<1>1. H!Init => HttpdInv BY HttpdInit
<1>2. HttpdInv /\ [H!Next]_(H!vars) => HttpdInv' BY HttpdNext
<1>3. HttpdInv => H!KeyInOnePlace BY HttpdInvGivesPlace
<1> QED BY <1>1, <1>2, <1>3, PTL DEF H!Spec

------------------------------------------------------------------------------
(* The systems together.  The others stay where they are while one of them *)
(* runs, so that each of them runs by its own specification.               *)

\* Each of the systems starts as its specification says.
LEMMA SystemsStart == MCInit => Init /\ F!Init /\ M!Init /\ J!Init /\ H!Init
BY DEF MCInit

\* A step of the whole is a step of one system and no step of the others.
LEMMA SystemsStep ==
  ASSUME [MCNext]_allVars
  PROVE  /\ [Next]_vars /\ [F!Next]_(F!vars) /\ [M!Next]_(M!vars)
         /\ [J!Next]_(J!vars) /\ [H!Next]_(H!vars)
<1>1. Next \/ UNCHANGED vars
  BY DEF MCNext, allVars, Others
<1>2. F!Next \/ UNCHANGED fifoVars
  BY DEF MCNext, allVars, Others
<1>3. M!Next \/ UNCHANGED monitorVars
  BY DEF MCNext, allVars, Others
<1>4. J!Next \/ UNCHANGED jobVars
  BY DEF MCNext, allVars, Others
<1>5. H!Next \/ UNCHANGED httpdVars
  BY DEF MCNext, allVars, Others
<1> QED
  BY <1>1, <1>2, <1>3, <1>4, <1>5
     DEF fifoVars, F!vars, F!queueVars, F!openVars, monitorVars, M!vars, jobVars,
         J!vars, J!listVars, J!ghosts,
         httpdVars, H!vars, H!clientVars, H!selectorVars

\* A behaviour of the whole is a behaviour of each of the systems, so that
\* what is proved of one of them holds in the runs.
THEOREM SystemsAreApart == MCSpec => Spec /\ F!Spec /\ M!Spec /\ J!Spec /\ H!Spec
<1>1. MCInit => Init /\ F!Init /\ M!Init /\ J!Init /\ H!Init
  BY SystemsStart
<1>2. [MCNext]_allVars => /\ [Next]_vars /\ [F!Next]_(F!vars) /\ [M!Next]_(M!vars)
                          /\ [J!Next]_(J!vars) /\ [H!Next]_(H!vars)
  BY SystemsStep
<1> QED BY <1>1, <1>2, PTL DEF MCSpec, Spec, F!Spec, M!Spec, J!Spec, H!Spec

\* KeyInOnePlace, as the runs have it: the key of an open connection of
\* LargerHttpd is in exactly one place.
THEOREM SystemKeepsKeys == MCSpec => []KeyInOnePlace
BY SystemsAreApart, HttpdKeysSafe, TransfersAssumption, PTL
   DEF KeyInOnePlace, TransfersAssumption

\* MonitorWaits, as the runs have it: the threads at the box of BoxMon.c
\* and TryBox.java get their own messages, and nobody waits without a
\* reason.
THEOREM SystemMonitorsWait == MCSpec => []MonitorWaits
BY SystemsAreApart, MonitorsWaitRightly, TransfersAssumption, PTL
   DEF MonitorWaits, TransfersAssumption

\* TransfersImplementQueue, as the runs have it: the fifo device and the
\* monitors are bounded fifo queues.
THEOREM SystemTransfersAreQueues == MCSpec => TransfersImplementQueue
BY SystemsAreApart, FifoIsQueue, MonitorIsQueue, TransfersAssumption, PTL
   DEF TransfersImplementQueue, TransfersAssumption

\* JobsRestored, as the runs have it: RestoreList prints what SaveList
\* wrote.
THEOREM SystemRestoresJobs == MCSpec => JobsRestored
BY SystemsAreApart, JobsAreRestored, TransfersAssumption, PTL
   DEF JobsRestored, TransfersAssumption

\* CopyFaithful, as the runs have it: what is written is the file so far.
THEOREM SystemCopiesRight == MCSpec => []CopyFaithful
BY SystemsAreApart, CopyIsFaithful, PTL
==============================================================================
