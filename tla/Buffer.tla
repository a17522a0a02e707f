-------------------------------- MODULE Buffer --------------------------------
(***************************************************************************)
(* buffer.c of chapter 30, which chapter 31 uses too: a ring of max        *)
(* numbers.  It does not lock, and put and get do not test for room: that  *)
(* is up to the callers.                                                   *)
(***************************************************************************)
EXTENDS Integers

CONSTANTS
  max,  \* the capacity
  Data  \* the numbers that are produced

BufferAssumption == max \in Nat \ {0} /\ 0 \in Data

VARIABLES buf, cnt, beg, end

bufferVars == <<buf, cnt, beg, end>>

Slots == 0..(max - 1)

\* INC: the place after x in the ring.
Inc(x) == (x + 1) % max

full == cnt = max

empt == cnt = 0

\* Mutant: the count is kept, but beg is used before it moves on.
PutAtOld(data) ==
  /\ cnt' = cnt + 1
  /\ beg' = Inc(beg)
  /\ buf' = [buf EXCEPT ![beg] = data]
  /\ UNCHANGED end

put(data) ==
  /\ cnt' = cnt + 1
  /\ beg' = Inc(beg)
  /\ buf' = [buf EXCEPT ![Inc(beg)] = data]
  /\ UNCHANGED end

\* What get returns, and what it changes.
GotData == buf[Inc(end)]

get ==
  /\ cnt' = cnt - 1
  /\ end' = Inc(end)
  /\ UNCHANGED <<buf, beg>>

\* The static variables start as zeros.
BufferInit ==
  /\ buf = [i \in Slots |-> 0]
  /\ cnt = 0
  /\ beg = 0
  /\ end = 0

BufferTypeOK ==
  /\ buf \in [Slots -> Data]
  /\ cnt \in 0..max
  /\ beg \in Slots
  /\ end \in Slots

\* The numbers in the buffer, oldest first.
Contents == [i \in 1..cnt |-> buf[(end + i) % max]]
==============================================================================
