------------------------------ MODULE DeviceStats ------------------------------
(***************************************************************************)
(* The character device of linux-device-drivers that counts its calls,     *)
(* without a lock (example3) and under a semaphore (example4), as several  *)
(* processes open, read or write, and close it.                            *)
(*                                                                         *)
(* A signal ends the wait of down_interruptible.  The kernel then ends the *)
(* process, which closes its file; and it closes the file whatever release *)
(* returns.  The loading of the module is left out: it stays.              *)
(***************************************************************************)
EXTENDS Integers, FiniteSets

CONSTANTS
  Drivers,   \* those under study: "example3", "example4" or both
  Callers    \* processes

DeviceStatsAssumption ==
  Drivers \subseteq {"example3", "example4"} /\ IsFiniteSet(Callers)

VARIABLES
  driver,
  stats,      \* num_open, num_read, num_write, num_close
  sem,
  refs,       \* the count of users of the module
  call,       \* the call each process is in, or makes next
  killed,     \* the processes that have a signal
  register,   \* the count that a process has loaded
  skipped,    \* ghost: releases that were interrupted
  pc

vars == <<driver, stats, sem, refs, call, killed, register, skipped, pc>>

Calls == {"open", "read", "write", "release"}

Goto(p, from, to) == pc[p] = from /\ pc' = [pc EXCEPT ![p] = to]

Kill(p) ==
  /\ pc[p] # "end" /\ p \notin killed
  /\ killed' = killed \cup {p}
  /\ UNCHANGED <<driver, stats, sem, refs, call, register, skipped, pc>>

\* down_interruptible, which example3 does not call.
Down(p) ==
  /\ Goto(p, "down", "load")
  /\ \/ driver = "example3" /\ UNCHANGED sem
     \/ driver = "example4" /\ sem > 0 /\ sem' = sem - 1
  /\ UNCHANGED <<driver, stats, refs, call, killed, register, skipped>>

\* ... when it has to wait and there is a signal: -ERESTARTSYS.  After an open
\* there is no file to close; after a release the file is closed.
DownInterrupted(p) ==
  /\ pc[p] = "down"
  /\ driver = "example4" /\ sem = 0 /\ p \in killed
  /\ IF call[p] \in {"open", "release"}
     THEN pc' = [pc EXCEPT ![p] = "end"] /\ UNCHANGED call
     ELSE call' = [call EXCEPT ![p] = "release"] /\ UNCHANGED pc
  /\ skipped' = IF call[p] = "release" THEN skipped + 1 ELSE skipped
  /\ UNCHANGED <<driver, stats, sem, refs, killed, register>>

\* The two halves of num_...++
Load(p) ==
  /\ Goto(p, "load", "store")
  /\ register' = [register EXCEPT ![p] = stats[call[p]]]
  /\ UNCHANGED <<driver, stats, sem, refs, call, killed, skipped>>

Store(p) ==
  /\ Goto(p, "store", "up")
  /\ stats' = [stats EXCEPT ![call[p]] = register[p] + 1]
  /\ register' = [register EXCEPT ![p] = 0]
  /\ UNCHANGED <<driver, sem, refs, call, killed, skipped>>

Up(p) ==
  /\ Goto(p, "up", "return")
  /\ sem' = IF driver = "example4" THEN sem + 1 ELSE sem
  /\ UNCHANGED <<driver, stats, refs, call, killed, register, skipped>>

\* try_module_get or module_put, and the return.  A process reads or writes,
\* unless it is killed, and closes the file.
Return(p) ==
  /\ pc[p] = "return"
  /\ refs' = CASE call[p] = "open" -> refs + 1
               [] call[p] = "release" -> refs - 1
               [] OTHER -> refs
  /\ \E c \in IF call[p] = "open" /\ p \notin killed THEN {"read", "write"}
                                                      ELSE {"release"} :
       call' = [call EXCEPT ![p] = c]
  /\ pc' = [pc EXCEPT ![p] = IF call[p] = "release" THEN "end" ELSE "down"]
  /\ UNCHANGED <<driver, stats, sem, killed, register, skipped>>

\* example_init loads the module before any process uses it.
Init ==
  /\ driver \in Drivers
  /\ stats = [c \in Calls |-> 0]
  /\ sem = 1
  /\ refs = 0
  /\ call = [p \in Callers |-> "open"]
  /\ killed = {}
  /\ register = [p \in Callers |-> 0]
  /\ skipped = 0
  /\ pc = [p \in Callers |-> "down"]

Use(p) ==
  \/ Kill(p) \/ Down(p) \/ DownInterrupted(p) \/ Load(p) \/ Store(p) \/ Up(p) \/ Return(p)

Next == \E p \in Callers : Use(p)

Spec == Init /\ [][Next]_vars

------------------------------------------------------------------------------
TypeOK ==
  /\ driver \in Drivers
  /\ sem \in {0, 1}
  /\ {refs, skipped} \subseteq 0..Cardinality(Callers)
  /\ \A c \in Calls : stats[c] \in 0..Cardinality(Callers)
  /\ \A p \in Callers : pc[p] \in {"down", "load", "store", "up", "return", "end"}

\* The processes that have the file open, as the kernel sees it.
Open == {p \in Callers : call[p] # "open" /\ pc[p] # "end"}

\* Processes in a call, after its ++ and before its return.
Counted(c) == {p \in Callers : call[p] = c /\ pc[p] \in {"up", "return"}}

\* In example4 the opens and closes that /proc shows differ by the open
\* files, the calls on their way and the releases that a signal ended.  For
\* each of these the module is held for good, and else for each open file.
StatsRight ==
  /\ driver = "example4" =>
       stats["open"] = stats["release"] + skipped
                       + Cardinality(Open) + Cardinality(Counted("open"))
                       - Cardinality(Counted("release"))
  /\ refs = Cardinality(Open) + skipped
==============================================================================
