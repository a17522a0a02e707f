-------------------------------- MODULE SemDemo --------------------------------
(***************************************************************************)
(* examples/memory-management/semdemo.c: processes that use a System V     *)
(* semaphore set as a lock.  The first one creates the set and frees the   *)
(* semaphore; the others wait until sem_otime tells them that it has.      *)
(* semrm.c removes the set.  A process may be killed at any time, and the  *)
(* kernel then undoes what it did under SEM_UNDO.                          *)
(***************************************************************************)
EXTENDS Naturals, FiniteSets

CONSTANTS
  Processes,
  MAX_RETRIES,   \* 10 in the code
  MaxSets        \* bound on the sets that are created one after the other

SemDemoAssumption == MAX_RETRIES \in Nat /\ MaxSets \in Nat

Sets == 1..MaxSets

VARIABLES
  current,   \* the set that has the key, 0 if there is none
  lastSet,   \* the last set created
  value,     \* of the semaphore of each set
  otime,     \* sem_otime of the set is not 0
  semid,     \* the set each process knows
  retries,   \* i, in initsem
  pc

vars == <<current, lastSet, value, otime, semid, retries, pc>>

Goto(p, from, to) == pc[p] = from /\ pc' = [pc EXCEPT ![p] = to]

Exists(p) == semid[p] = current

------------------------------------------------------------------------------
(* initsem                                                                 *)

\* semget(key, nsems, IPC_CREAT | IPC_EXCL | 0666)
GetExclusively(p) ==
  \/ /\ current = 0
     /\ lastSet < MaxSets
     /\ Goto(p, "start", "create")
     /\ current' = lastSet + 1 /\ lastSet' = lastSet + 1
     /\ semid' = [semid EXCEPT ![p] = lastSet + 1]
     /\ UNCHANGED <<value, otime, retries>>
  \/ /\ current # 0
     /\ Goto(p, "start", "join")
     /\ UNCHANGED <<current, lastSet, value, otime, semid, retries>>

\* The semop that frees the semaphore and sets sem_otime.
FreeSemaphore(p) ==
  IF Exists(p)
  THEN /\ Goto(p, "create", "ready")
       /\ value' = [value EXCEPT ![semid[p]] = @ + 1]
       /\ otime' = [otime EXCEPT ![semid[p]] = TRUE]
       /\ UNCHANGED <<current, lastSet, semid, retries>>
  ELSE /\ Goto(p, "create", "exit")
       /\ UNCHANGED <<current, lastSet, value, otime, semid, retries>>

\* semget(key, nsems, 0)
Get(p) ==
  /\ IF current # 0
     THEN Goto(p, "join", "poll") /\ semid' = [semid EXCEPT ![p] = current]
     ELSE Goto(p, "join", "exit") /\ UNCHANGED semid
  /\ UNCHANGED <<current, lastSet, value, otime, retries>>

\* IPC_STAT fails on a set that has been removed, which nobody checks: the
\* sem_otime that is tested then is whatever the stack holds.
Poll(p) ==
  /\ \/ /\ Goto(p, "poll", "ready")
        /\ ~Exists(p) \/ otime[semid[p]]
        /\ retries[p] < MAX_RETRIES
        /\ UNCHANGED retries
     \/ /\ Goto(p, "poll", "poll")
        /\ ~Exists(p) \/ ~otime[semid[p]]
        /\ retries[p] < MAX_RETRIES
        /\ retries' = [retries EXCEPT ![p] = @ + 1]
     \/ /\ Goto(p, "poll", "exit")     \* ETIME
        /\ retries[p] = MAX_RETRIES
        /\ UNCHANGED retries
  /\ UNCHANGED <<current, lastSet, value, otime, semid>>

------------------------------------------------------------------------------
(* main                                                                    *)

\* semop of -1 with SEM_UNDO, which waits while the value is 0 and fails when
\* the set is removed, before or during the wait.
Lock(p) ==
  \/ /\ Goto(p, "ready", "locked")
     /\ Exists(p) /\ value[semid[p]] > 0
     /\ value' = [value EXCEPT ![semid[p]] = @ - 1]
     /\ otime' = [otime EXCEPT ![semid[p]] = TRUE]
     /\ UNCHANGED <<current, lastSet, semid, retries>>
  \/ /\ Goto(p, "ready", "exit")
     /\ ~Exists(p)
     /\ UNCHANGED <<current, lastSet, value, otime, semid, retries>>

\* semop of +1 with SEM_UNDO
Unlock(p) ==
  /\ Goto(p, "locked", "exit")
  /\ IF Exists(p) THEN value' = [value EXCEPT ![semid[p]] = @ + 1] ELSE UNCHANGED value
  /\ UNCHANGED <<current, lastSet, otime, semid, retries>>

\* Mutant: without SEM_UNDO.
KillWithoutUndo(p) ==
  /\ pc[p] \notin {"start", "exit"}
  /\ pc' = [pc EXCEPT ![p] = "exit"]
  /\ UNCHANGED <<current, lastSet, value, otime, semid, retries>>

\* The process is killed, at a prompt or while it waits.
Kill(p) ==
  /\ pc[p] \notin {"start", "exit"}
  /\ pc' = [pc EXCEPT ![p] = "exit"]
  /\ IF pc[p] = "locked" /\ Exists(p)
     THEN value' = [value EXCEPT ![semid[p]] = @ + 1]
     ELSE UNCHANGED value
  /\ UNCHANGED <<current, lastSet, otime, semid, retries>>

\* The program is run again.
Restart(p) ==
  /\ Goto(p, "exit", "start")
  /\ semid' = [semid EXCEPT ![p] = 0]
  /\ retries' = [retries EXCEPT ![p] = 0]
  /\ UNCHANGED <<current, lastSet, value, otime>>

\* semrm
RemoveSet ==
  /\ current # 0
  /\ current' = 0
  /\ UNCHANGED <<lastSet, value, otime, semid, retries, pc>>

Init ==
  /\ current = 0 /\ lastSet = 0
  /\ value = [s \in Sets |-> 0]
  /\ otime = [s \in Sets |-> FALSE]
  /\ semid = [p \in Processes |-> 0]
  /\ retries = [p \in Processes |-> 0]
  /\ pc = [p \in Processes |-> "start"]

semdemo(p) ==
  \/ GetExclusively(p) \/ FreeSemaphore(p) \/ Get(p) \/ Poll(p)
  \/ Lock(p) \/ Unlock(p) \/ Kill(p) \/ Restart(p)

Next == RemoveSet \/ \E p \in Processes : semdemo(p)

Spec == Init /\ [][Next]_vars

------------------------------------------------------------------------------
Holders(s) == {p \in Processes : pc[p] = "locked" /\ semid[p] = s}

\* Whoever is killed where, a set that is in use has one permit: it is in the
\* semaphore or one process holds it.  A set whose creator was killed before
\* it freed the semaphore has none, and nobody locks it.  Only the removal of
\* the set while it is locked lets two processes in, with two sets.
OnePermitPerSet ==
  /\ current # 0 =>
       value[current] + Cardinality(Holders(current)) = IF otime[current] THEN 1 ELSE 0
  /\ \A p, q \in Processes :
       pc[p] = "locked" /\ pc[q] = "locked" /\ p # q => semid[p] # semid[q]
==============================================================================
