------------------------------- MODULE ReadWrit -------------------------------
(***************************************************************************)
(* The multi-threaded string buffer of chapter 31 (mtsb.c), a readers-and- *)
(* writers lock around one string, and the reader and writer threads of    *)
(* ReadWrit.c.                                                             *)
(*                                                                         *)
(* The two semaphores are atomic, as Semaphore and POSIX promise.  A word  *)
(* is a member of Words; between realloc and the end of strcpy the string  *)
(* is Torn, and a get that copies it then returns no word at all.  The     *)
(* exits on a failed malloc are left out.                                  *)
(***************************************************************************)
EXTENDS Integers, FiniteSets

CONSTANTS Readers, Writers, Words, Null, Torn

ReadWritAssumption ==
  /\ IsFiniteSet(Readers)
  /\ Readers \cap Writers = {}
  /\ Null \notin Words /\ Torn \notin Words /\ Null # Torn

VARIABLES
  s,        \* b->s
  getters,  \* b->getters
  getable,  \* the value of b->getable, the lock of getters
  putable,  \* the value of b->putable, the lock of s
  data,     \* the word each thread has got, or is about to put
  pc

vars == <<s, getters, getable, putable, data, pc>>

Users == Readers \cup Writers

Goto(t, from, to) == pc[t] = from /\ pc' = [pc EXCEPT ![t] = to]

------------------------------------------------------------------------------
(* rd_lock and rd_unlock                                                   *)

\* reader calls get, which starts with char *s=0.
CallGet(r) ==
  /\ Goto(r, "idle", "enter")
  /\ data' = [data EXCEPT ![r] = Null]
  /\ UNCHANGED <<s, getters, getable, putable>>

\* sem_wait(&(b->getable)) at the start of rd_lock and of rd_unlock.
WaitGetable(r) ==
  /\ Goto(r, "enter", "count_in") \/ Goto(r, "leave", "count_out")
  /\ getable > 0
  /\ getable' = getable - 1
  /\ UNCHANGED <<s, getters, putable, data>>

\* Mutant: every reader but the first waits for putable.
CountInLate(r) ==
  /\ Goto(r, "count_in", IF getters = 1 THEN "wait_putable" ELSE "entered")
  /\ getters' = getters + 1
  /\ UNCHANGED <<s, getable, putable, data>>

\* b->getters++; if (b->getters==1) ...
CountIn(r) ==
  /\ Goto(r, "count_in", IF getters + 1 = 1 THEN "wait_putable" ELSE "entered")
  /\ getters' = getters + 1
  /\ UNCHANGED <<s, getable, putable, data>>

\* sem_wait(&(b->putable)) of the first reader, with getable in hand.
ReaderWaitPutable(r) ==
  /\ Goto(r, "wait_putable", "entered")
  /\ putable > 0
  /\ putable' = putable - 1
  /\ UNCHANGED <<s, getters, getable, data>>

\* Mutant: the reader that leaves first lets the writers in.
CountOutEarly(r) ==
  /\ Goto(r, "count_out", IF getters - 1 = 1 THEN "post_putable" ELSE "left")
  /\ getters' = getters - 1
  /\ UNCHANGED <<s, getable, putable, data>>

\* b->getters--; if (b->getters==0) ...
CountOut(r) ==
  /\ Goto(r, "count_out", IF getters - 1 = 0 THEN "post_putable" ELSE "left")
  /\ getters' = getters - 1
  /\ UNCHANGED <<s, getable, putable, data>>

ReaderPostPutable(r) ==
  /\ Goto(r, "post_putable", "left")
  /\ putable' = putable + 1
  /\ UNCHANGED <<s, getters, getable, data>>

\* sem_post(&(b->getable)) at the end of rd_lock and of rd_unlock.
PostGetable(r) ==
  /\ Goto(r, "entered", "test") \/ Goto(r, "left", "return")
  /\ getable' = getable + 1
  /\ UNCHANGED <<s, getters, putable, data>>

------------------------------------------------------------------------------
(* The rest of get                                                         *)

\* Mutant: get returns from an empty buffer without rd_unlock.
TestAndReturn(r) ==
  /\ Goto(r, "test", IF s = Null THEN "return" ELSE "strdup")
  /\ UNCHANGED <<s, getters, getable, putable, data>>

\* if (b->s) ...
TestString(r) ==
  /\ Goto(r, "test", IF s = Null THEN "leave" ELSE "strdup")
  /\ UNCHANGED <<s, getters, getable, putable, data>>

Strdup(r) ==
  /\ Goto(r, "strdup", "leave")
  /\ data' = [data EXCEPT ![r] = s]
  /\ UNCHANGED <<s, getters, getable, putable>>

\* get returns; the reader prints the word and sleeps.
GetReturn(r) ==
  /\ Goto(r, "return", "idle")
  /\ UNCHANGED <<s, getters, getable, putable, data>>

------------------------------------------------------------------------------
(* put                                                                     *)

\* writer calls put with a random word.
CallPut(w) ==
  /\ Goto(w, "idle", "wr_lock")
  /\ \E x \in Words : data' = [data EXCEPT ![w] = x]
  /\ UNCHANGED <<s, getters, getable, putable>>

WriterWaitPutable(w) ==
  /\ Goto(w, "wr_lock", "realloc")
  /\ putable > 0
  /\ putable' = putable - 1
  /\ UNCHANGED <<s, getters, getable, data>>

\* realloc may move the string, and strcpy writes it byte by byte.
Realloc(w) ==
  /\ Goto(w, "realloc", "strcpy")
  /\ s' = Torn
  /\ UNCHANGED <<getters, getable, putable, data>>

Strcpy(w) ==
  /\ Goto(w, "strcpy", "wr_unlock")
  /\ s' = data[w]
  /\ UNCHANGED <<getters, getable, putable, data>>

WriterPostPutable(w) ==
  /\ Goto(w, "wr_unlock", "return")
  /\ putable' = putable + 1
  /\ UNCHANGED <<s, getters, getable, data>>

PutReturn(w) ==
  /\ Goto(w, "return", "idle")
  /\ UNCHANGED <<s, getters, getable, putable, data>>

------------------------------------------------------------------------------
Init ==
  /\ s = Null
  /\ getters = 0
  /\ getable = 1
  /\ putable = 1
  /\ data = [t \in Users |-> Null]
  /\ pc = [t \in Users |-> "idle"]

Get(r) ==
  \/ WaitGetable(r) \/ CountIn(r) \/ ReaderWaitPutable(r)
  \/ CountOut(r) \/ ReaderPostPutable(r) \/ PostGetable(r)
  \/ TestString(r) \/ Strdup(r) \/ GetReturn(r)

Writer(w) ==
  \/ CallPut(w) \/ WriterWaitPutable(w) \/ Realloc(w) \/ Strcpy(w)
  \/ WriterPostPutable(w) \/ PutReturn(w)

Next == (\E r \in Readers : CallGet(r) \/ Get(r)) \/ (\E w \in Writers : Writer(w))

Spec == Init /\ [][Next]_vars

\* Every thread that can take a step takes one, but a reader may sleep for
\* any time before it calls get again.
FairSpec ==
  /\ Spec
  /\ \A r \in Readers : WF_vars(Get(r))
  /\ \A w \in Writers : WF_vars(Writer(w))

------------------------------------------------------------------------------
\* Readers whose getters++ is done and whose getters-- is not.
Counted ==
  {r \in Readers : pc[r] \in {"wait_putable", "entered", "test", "strdup", "leave",
                              "count_out"}}

\* Threads inside the lock of s, the reader that will give it back included.
Reading == {"test", "strdup", "leave"}
Writing == {"realloc", "strcpy", "wr_unlock"}

TypeOK ==
  /\ s \in Words \cup {Null, Torn}
  /\ getters \in 0..Cardinality(Readers)
  /\ getable \in {0, 1}
  /\ putable \in {0, 1}
  /\ data \in [Users -> Words \cup {Null}]
  /\ \A r \in Readers :
       pc[r] \in {"idle", "enter", "count_in", "wait_putable", "entered", "test",
                  "strdup", "leave", "count_out", "post_putable", "left", "return"}
  /\ \A w \in Writers :
       pc[w] \in {"idle", "wr_lock", "realloc", "strcpy", "wr_unlock", "return"}

\* Nobody writes while somebody reads, and nobody writes while another does;
\* nor does a writer find getters wrong: it counts the readers that are in.
WritersAlone ==
  /\ getters = Cardinality(Counted)
  /\ \A w \in Writers : pc[w] \in Writing =>
       \A t \in Users \ {w} : pc[t] \notin Reading \cup Writing

\* A thread that finds the semaphore it asks for at 0.
Waits(t) ==
  \/ pc[t] \in {"enter", "leave"} /\ getable = 0
  \/ pc[t] \in {"wait_putable", "wr_lock"} /\ putable = 0

\* A call that waits waits for another call that goes on, although the first
\* reader asks for putable with getable in hand, and the last one asks for
\* getable with putable in hand.
SomebodyGoesOn ==
  (\E t \in Users : Waits(t)) => \E u \in Users : pc[u] # "idle" /\ ~Waits(u)

\* How far a call has come, seen from outside.  A get takes effect with its
\* copy, or with its test of an empty buffer; a put as soon as it writes,
\* since nobody sees the string before strcpy is done.
AbstractCall ==
  [t \in Users |->
    CASE pc[t] = "idle" -> "none"
      [] pc[t] \in {"enter", "count_in", "wait_putable", "entered", "test", "strdup",
                    "wr_lock", "realloc"} -> "called"
      [] OTHER -> "effective"]

AbstractWord == IF s = Torn THEN data[CHOOSE w \in Writers : pc[w] = "strcpy"] ELSE s

AbstractGot == [r \in Readers |-> IF AbstractCall[r] = "effective" THEN data[r] ELSE Null]

Abstract ==
  INSTANCE SharedWord WITH word <- AbstractWord, got <- AbstractGot, call <- AbstractCall

\* Every get returns the word of the last put as of some moment of the call,
\* although readers overlap and a word is written in two steps.
ImplementsSharedWord == Abstract!Spec

\* Readers can keep writers out for as long as they overlap, but not longer:
\* while they all stay away, puts go on, so that no get has kept putable.
WritersGoOn ==
  <>[](\A r \in Readers : pc[r] = "idle") => []<>(\E w \in Writers : pc[w] = "return")
==============================================================================
