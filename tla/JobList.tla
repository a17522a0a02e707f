-------------------------------- MODULE JobList --------------------------------
(***************************************************************************)
(* The checkpoint of a list of jobs: SaveList.c makes a doubly-linked list *)
(* of n jobs and writes it to a file (List.c, Node.c, Job.c),              *)
(* RestoreList.c reads it back and prints it.                              *)
(*                                                                         *)
(* A user runs the programs one after the other on one file and may kill   *)
(* them.  The file is a sequence of what the fwrites write: the size and   *)
(* then, for each job, its jobid, its infoSize and its info.  stdio keeps  *)
(* what it has not flushed, so that a kill leaves any part of it from the  *)
(* front.  A fread at the end of the file leaves its variable as it was,   *)
(* which is uninitialized: Garbage, or any size.  The write errors that    *)
(* the comments of Job.c leave unchecked are left out, and so is a run of  *)
(* SaveList without a file, which only prints.                             *)
(***************************************************************************)
EXTENDS Integers, SequencesExt

CONSTANTS
  MaxSize,  \* bound: the jobs of a list, and what an uninitialized size can be
  Garbage,  \* what an uninitialized variable holds
  None      \* no file, and nothing printed

JobListAssumption == MaxSize \in Nat /\ Garbage \notin Nat /\ None # Garbage

NULL == 0

VARIABLES
  head, tail, size,  \* the list in the memory of the program that runs
  next, prev, data,  \* its nodes
  node, n,           \* the local variables of checkpointList and restoreList
  file,              \* the checkpoint file, None before the first
  written,           \* what has been written to fout, or is still to be read
  opened,            \* ghost: the jobs that the last fopen for writing was for
  reported,          \* ghost: the jobs that checkpointList last returned TRUE for
  killed,            \* ghost: a SaveList was killed while it wrote, and none has ended since
  printed,           \* the jobs that RestoreList printed last, None at first
  job_pc

listVars == <<head, tail, size, next, prev, data>>
ghosts == <<opened, reported, killed>>
vars == <<listVars, node, n, file, written, ghosts, printed, job_pc>>

Nodes == 1..MaxSize

Goto(from, to) == job_pc = from /\ job_pc' = to

------------------------------------------------------------------------------
(* List.c                                                                  *)

createList ==
  /\ head' = NULL /\ tail' = NULL /\ size' = 0
  /\ next' = [i \in Nodes |-> NULL] /\ prev' = [i \in Nodes |-> NULL]
  /\ data' = [i \in Nodes |-> NULL]

\* Mutant: the node that was in front does not point back to the new one.
AddWithoutBackLink(new, job) ==
  /\ size' = size + 1
  /\ data' = [data EXCEPT ![new] = job]
  /\ next' = [next EXCEPT ![new] = head]
  /\ head' = new
  /\ tail' = IF head = NULL THEN new ELSE tail
  /\ UNCHANGED prev

\* createNode and addAtFront.
addAtFront(new, job) ==
  /\ size' = size + 1
  /\ data' = [data EXCEPT ![new] = job]
  /\ next' = [next EXCEPT ![new] = head]
  /\ prev' = IF head = NULL THEN prev ELSE [prev EXCEPT ![head] = new]
  /\ head' = new
  /\ tail' = IF head = NULL THEN new ELSE tail

\* The program exits, and its memory goes with it.
Exit(from) ==
  /\ Goto(from, "idle")
  /\ createList
  /\ node' = NULL /\ n' = 0 /\ written' = <<>>

\* The jobs from node i on, as printList meets them.
JobsFrom(i) ==
  LET jobs[fuel \in 0..MaxSize] ==
        [k \in Nodes \cup {NULL} |->
           IF k = NULL \/ fuel = 0 THEN <<>>
           ELSE <<data[k]>> \o jobs[fuel - 1][next[k]]]
  IN  jobs[MaxSize][i]

------------------------------------------------------------------------------
(* SaveList                                                                *)

\* SaveList n file
StartSave ==
  /\ Goto("idle", "build")
  /\ n' \in 0..MaxSize
  /\ createList
  /\ UNCHANGED <<node, file, written, ghosts, printed>>

\* The loop of main, whose jobs differ in their jobids only.
Build ==
  /\ job_pc = "build" /\ size < n
  /\ addAtFront(size + 1, [jobid |-> size, info |-> "cmd args"])
  /\ UNCHANGED <<node, n, file, written, ghosts, printed, job_pc>>

\* An empty list is not written, and the answer is TRUE.
CheckpointEmpty ==
  /\ job_pc = "build" /\ size = n
  /\ size = 0
  /\ Exit("build")
  /\ reported' = <<>>
  /\ UNCHANGED <<file, opened, killed, printed>>

\* fopen(saveFile, "w") empties the file; or fails, which main does not see.
OpenForWriting ==
  /\ job_pc = "build" /\ size = n
  /\ size # 0
  /\ \/ /\ Goto("build", "write")
        /\ file' = <<>>
        /\ written' = <<size>>
        /\ node' = tail
        /\ opened' = JobsFrom(head)
        /\ UNCHANGED <<listVars, n>>
     \/ /\ Exit("build")
        /\ UNCHANGED <<file, opened>>
  /\ UNCHANGED <<reported, killed, printed>>

\* checkpointNode and checkpointJob
WriteNode ==
  /\ job_pc = "write" /\ node # NULL
  /\ written' = written \o <<data[node].jobid, "infoSize", data[node].info>>
  /\ node' = prev[node]
  /\ UNCHANGED <<listVars, n, file, ghosts, printed, job_pc>>

\* fclose, and TRUE.
CloseWritten ==
  /\ node = NULL
  /\ Exit("write")
  /\ file' = written
  /\ reported' = opened /\ killed' = FALSE
  /\ UNCHANGED <<opened, printed>>

\* The user kills SaveList while it writes.
KillSave ==
  /\ Exit("write")
  /\ \E k \in 0..Len(written) : file' = SubSeq(written, 1, k)
  /\ killed' = TRUE
  /\ UNCHANGED <<opened, reported, printed>>

------------------------------------------------------------------------------
(* RestoreList                                                             *)

\* fopen and the fread of the size.  Without a file, or with a size that is
\* not positive, restoreList returns NULL and main prints nothing.
StartRestore ==
  /\ job_pc = "idle"
  /\ file # None
  /\ \E m \in IF file = <<>> THEN 0..MaxSize ELSE {file[1]} :
       IF m > 0
       THEN /\ job_pc' = "restore"
            /\ n' = m
            /\ written' = SubSeq(file, 2, Len(file))
            /\ createList
       ELSE UNCHANGED <<job_pc, n, written, listVars>>
  /\ UNCHANGED <<node, file, ghosts, printed>>

\* The k-th fread of what is left, or what its variable held before.
Field(k) == IF k <= Len(written) THEN written[k] ELSE Garbage

\* restoreNode and restoreJob
RestoreNode ==
  /\ job_pc = "restore" /\ n > 0
  /\ addAtFront(size + 1, [jobid |-> Field(1), info |-> Field(3)])
  /\ written' = SubSeq(written, 4, Len(written))
  /\ n' = n - 1
  /\ UNCHANGED <<node, file, ghosts, printed, job_pc>>

\* printList and the exit.
PrintRestored ==
  /\ n = 0
  /\ Exit("restore")
  /\ printed' = JobsFrom(head)
  /\ UNCHANGED <<file, ghosts>>

------------------------------------------------------------------------------
Init ==
  /\ head = NULL /\ tail = NULL /\ size = 0
  /\ next = [i \in Nodes |-> NULL] /\ prev = [i \in Nodes |-> NULL]
  /\ data = [i \in Nodes |-> NULL]
  /\ node = NULL /\ n = 0
  /\ file = None /\ written = <<>>
  /\ opened = <<>> /\ reported = None /\ killed = FALSE
  /\ printed = None
  /\ job_pc = "idle"

Next ==
  \/ StartSave \/ Build \/ CheckpointEmpty \/ OpenForWriting \/ WriteNode
  \/ CloseWritten \/ KillSave
  \/ StartRestore \/ RestoreNode \/ PrintRestored

Spec == Init /\ [][Next]_vars

------------------------------------------------------------------------------
TypeOK ==
  /\ {head, tail, node} \subseteq Nodes \cup {NULL}
  /\ {size, n} \subseteq 0..MaxSize
  /\ job_pc \in {"idle", "build", "write", "restore"}

\* What a program reads back is what another wrote, job by job and in order,
\* although it is written from the rear, along prev, and printed from the
\* front, along next.  After a kill the jobs that reached the file are in
\* their places from the rear, and the rest is uninitialized.
JobsRestored ==
  [][PrintRestored =>
       IF ~killed
       THEN printed' = opened
       ELSE LET fromRear(list, j) == list[Len(list) + 1 - j]
            IN  \A j \in 1..Len(printed') :
                  \/ fromRear(printed', j).info = Garbage
                  \/ j <= Len(opened) /\ fromRear(printed', j) = fromRear(opened, j)]_vars

\* List.c says that checkpointList saves the whole list to disk so that it
\* can be restored, and returns TRUE if that succeeds.  Then the list that
\* is restored later is the one it last returned TRUE for, unless a SaveList
\* was killed at its work.
RestoresCheckpoint == [][PrintRestored /\ ~killed => printed' = reported]_vars
==============================================================================
