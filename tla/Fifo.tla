--------------------------------- MODULE Fifo ---------------------------------
(***************************************************************************)
(* The fifo device of examples/device-management/fifo.c: a ring of chars   *)
(* between the process that has the device open for writing and the one    *)
(* that has it open for reading.                                           *)
(*                                                                         *)
(* The kernel the driver is written for does not take the processor from a *)
(* process that runs in it, so a call runs undisturbed until it sleeps;    *)
(* the copy of a char from or to the caller's memory may sleep as well     *)
(* (its page may be on disk), so that the calls of write_char that make up *)
(* one fifo_write, and the calls of read_char that make up the external    *)
(* fifo_read, are a step each.                                             *)
(***************************************************************************)
EXTENDS Naturals, Sequences

CONSTANTS
  FIFO_LEN,          \* 10 in the code
  Data,              \* the chars
  MaxCount,          \* bound on the chars written between open and release
  Readers, Writers   \* the processes

FifoAssumption ==
  /\ FIFO_LEN \in Nat \ {0}
  /\ MaxCount \in Nat
  /\ 0 \in Data
  /\ Readers \cap Writers = {}

VARIABLES
  data, head, tail, contents,   \* the queue of chars
  read_is_open, write_is_open,
  left,                         \* the chars each writer still has to write
  got,                          \* the char each reader read last
  pc

queueVars == <<data, head, tail, contents>>
openVars == <<read_is_open, write_is_open>>
vars == <<queueVars, openVars, left, got, pc>>

Slots == 0..FIFO_LEN - 1
Procs == Readers \cup Writers

Asleep(procs) == {p \in procs : pc[p] = "asleep"}

\* p goes on to `next'; wake_up_interruptible makes all of `woken' runnable.
GotoAndWake(p, next, woken) ==
  pc' = [q \in Procs |-> IF q = p THEN next
                         ELSE IF q \in Asleep(woken) THEN "awake" ELSE pc[q]]

push_char(x) ==
  /\ data' = [data EXCEPT ![tail] = x]
  /\ tail' = (tail + 1) % FIFO_LEN
  /\ contents' = contents + 1
  /\ UNCHANGED head

pull_char ==
  /\ head' = (head + 1) % FIFO_LEN
  /\ contents' = contents - 1
  /\ UNCHANGED <<data, tail>>

------------------------------------------------------------------------------
(* fifo_open: EBUSY while the side is open; the writer comes with the      *)
(* number of chars it is going to write.                                   *)

OpenRead(r) ==
  /\ pc[r] = "closed" /\ ~read_is_open
  /\ pc' = [pc EXCEPT ![r] = "open"]
  /\ read_is_open' = TRUE
  /\ UNCHANGED <<queueVars, write_is_open, left, got>>

OpenWrite(w) ==
  /\ pc[w] = "closed" /\ ~write_is_open
  /\ pc' = [pc EXCEPT ![w] = "open"]
  /\ write_is_open' = TRUE
  /\ \E n \in 0..MaxCount : left' = [left EXCEPT ![w] = n]
  /\ UNCHANGED <<queueVars, read_is_open, got>>

\* Mutant: the release of the write side does not wake the reader.
CloseWriteSilently(w) ==
  /\ pc[w] = "open" /\ left[w] = 0
  /\ GotoAndWake(w, "closed", {})
  /\ write_is_open' = FALSE
  /\ UNCHANGED <<queueVars, read_is_open, left, got>>

(* fifo_release *)

CloseRead(r) ==
  /\ pc[r] \in {"open", "eof"}
  /\ GotoAndWake(r, "closed", Writers)
  /\ read_is_open' = FALSE
  /\ UNCHANGED <<queueVars, write_is_open, left, got>>

CloseWrite(w) ==
  /\ pc[w] = "open" /\ left[w] = 0
  /\ GotoAndWake(w, "closed", Readers)
  /\ write_is_open' = FALSE
  /\ UNCHANGED <<queueVars, read_is_open, left, got>>

------------------------------------------------------------------------------
(* read_char.  The end of the file is tested before the loop only.         *)

ReadEOF(r) ==
  /\ pc[r] = "open"
  /\ ~write_is_open /\ contents = 0
  /\ pc' = [pc EXCEPT ![r] = "eof"]
  /\ UNCHANGED <<queueVars, openVars, left, got>>

ReadSleep(r) ==
  /\ \/ pc[r] = "open" /\ write_is_open
     \/ pc[r] = "awake"
  /\ contents = 0
  /\ GotoAndWake(r, "asleep", Writers)
  /\ UNCHANGED <<queueVars, openVars, left, got>>

ReadChar(r) ==
  /\ pc[r] \in {"open", "awake"} /\ contents # 0
  /\ pc' = [pc EXCEPT ![r] = "open"]
  /\ got' = [got EXCEPT ![r] = data[head]]
  /\ pull_char
  /\ UNCHANGED <<openVars, left>>

------------------------------------------------------------------------------
(* write_char, called by fifo_write for one char after the other.          *)

WriteSleep(w) ==
  /\ pc[w] \in {"open", "awake"} /\ left[w] > 0
  /\ contents = FIFO_LEN
  /\ GotoAndWake(w, "asleep", Readers)
  /\ UNCHANGED <<queueVars, openVars, left, got>>

\* Mutant: a writer that has slept does not test again.
WriteAfterSleep(w) ==
  /\ left[w] > 0
  /\ pc[w] = "awake" \/ (pc[w] = "open" /\ contents # FIFO_LEN)
  /\ pc' = [pc EXCEPT ![w] = "open"]
  /\ left' = [left EXCEPT ![w] = @ - 1]
  /\ \E x \in Data : push_char(x)
  /\ UNCHANGED <<openVars, got>>

WriteChar(w) ==
  /\ left[w] > 0
  /\ pc[w] \in {"open", "awake"} /\ contents # FIFO_LEN
  /\ pc' = [pc EXCEPT ![w] = "open"]
  /\ left' = [left EXCEPT ![w] = @ - 1]
  /\ \E x \in Data : push_char(x)
  /\ UNCHANGED <<openVars, got>>

\* A signal ends interruptible_sleep_on; both loops test the queue again and
\* ignore the signal.
Interrupt(p) ==
  /\ pc[p] = "asleep"
  /\ pc' = [pc EXCEPT ![p] = "awake"]
  /\ UNCHANGED <<queueVars, openVars, left, got>>

------------------------------------------------------------------------------
(* init_module *)
Init ==
  /\ data = [i \in Slots |-> 0]
  /\ head = 0 /\ tail = 0 /\ contents = 0
  /\ read_is_open = FALSE /\ write_is_open = FALSE
  /\ left = [w \in Writers |-> 0]
  /\ got = [r \in Readers |-> 0]
  /\ pc = [p \in Procs |-> "closed"]

read_char(r) == ReadEOF(r) \/ ReadSleep(r) \/ ReadChar(r)

write_char(w) == WriteSleep(w) \/ WriteChar(w)

Next ==
  \/ \E r \in Readers : OpenRead(r) \/ read_char(r) \/ CloseRead(r)
  \/ \E w \in Writers : OpenWrite(w) \/ write_char(w) \/ CloseWrite(w)
  \/ \E p \in Procs : Interrupt(p)

readerStep(r) == read_char(r) \/ (pc[r] = "eof" /\ CloseRead(r))
writerStep(w) == write_char(w) \/ CloseWrite(w)

Spec == Init /\ [][Next]_vars

\* A process that has the device open goes on: a reader reads until the end
\* of the file and closes the device, a writer writes what it has to and
\* closes the device.  Nobody has to open it.
FairSpec ==
  /\ Spec
  /\ \A r \in Readers : WF_vars(readerStep(r))
  /\ \A w \in Writers : WF_vars(writerStep(w))

------------------------------------------------------------------------------
\* The chars in the ring, oldest first.
Contents == [i \in 1..contents |-> data[(head + i - 1) % FIFO_LEN]]

Abstract ==
  INSTANCE BoundedQueue WITH queue <- Contents, got <- got, Consumers <- Readers,
                             Items <- Data, Capacity <- FIFO_LEN

\* Through every sleep, signal, release and reopening, chars are read in the
\* order in which they were written, each of them once: neither loop reads
\* from an empty ring or writes into a full one.
ImplementsQueue == Abstract!Spec

\* Only full and empty wake the other side, not every char.  Still, a reader
\* asleep over chars and a writer asleep although there is a reader are woken
\* in the end, by the sleep or the release of the other side.
SleepersServed ==
  /\ \A r \in Readers : (pc[r] = "asleep" /\ contents > 0) ~> pc[r] # "asleep"
  /\ \A w \in Writers : (pc[w] = "asleep" /\ read_is_open) ~> pc[w] # "asleep"

\* "May sleep, but will eventually succeed, or else return 0 (EOF)" is what
\* the comment above read_char says.  The loop does not test for a writer: a
\* reader the last release wakes over an empty ring sleeps again.
ReadReturns ==
  \A r \in Readers : pc[r] \in {"asleep", "awake"} ~> pc[r] \in {"open", "eof"}
==============================================================================
