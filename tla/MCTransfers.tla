------------------------------ MODULE MCTransfers ------------------------------
(***************************************************************************)
(* Five ways to hand data from one side to the other, checked in one run:  *)
(* the two threads that copy a file (CopyThreads), the fifo device (Fifo), *)
(* the monitors (Monitors), the list that one program saves and another    *)
(* restores (JobList) and the web server with a queue between its threads  *)
(* (Httpd).  They share nothing: the variable `system' says which of them  *)
(* runs, and the others stay where they begin.                             *)
(***************************************************************************)
EXTENDS CopyThreads

CONSTANTS
  FIFO_LEN, Data, MaxCount, Readers, Writers,
  MonitorPrograms, maxSize, Messages, BoxThreads, Producers, Consumers,
  MaxSize, Garbage, None,
  Clients, Workers, Nobody, MaxParts, MaxWrites

VARIABLES
  system,
  data, head, tail, contents, read_is_open, write_is_open, left, readers_got, fifo_pc,
  monitor, queue, op, msg, monitor_got, monitor_pc,
  list_head, list_tail, size, next, prev, list_data, node, n, file, written,
  opened, reported, killed, printed, job_pc,
  channel, arrived, parts, broken, interest, readyOps, selected, inHand,
  readyClients, key, writes_left, dropped, httpd_pc

F == INSTANCE Fifo WITH got <- readers_got, pc <- fifo_pc
M == INSTANCE Monitors WITH got <- monitor_got, pc <- monitor_pc
J == INSTANCE JobList WITH head <- list_head, tail <- list_tail, data <- list_data
H == INSTANCE Httpd WITH queue <- readyClients, left <- writes_left, pc <- httpd_pc

ASSUME TransfersAssumption ==
  F!FifoAssumption /\ M!MonitorsAssumption /\ J!JobListAssumption /\ H!HttpdAssumption

fifoVars == <<data, head, tail, contents, read_is_open, write_is_open, left, readers_got, fifo_pc>>
monitorVars == <<monitor, queue, op, msg, monitor_got, monitor_pc>>
jobVars ==
  <<list_head, list_tail, size, next, prev, list_data, node, n, file, written,
    opened, reported, killed, printed, job_pc>>
httpdVars ==
  <<channel, arrived, parts, broken, interest, readyOps, selected, inHand,
    readyClients, key, writes_left, dropped, httpd_pc>>
allVars == <<system, vars, fifoVars, monitorVars, jobVars, httpdVars>>

MCInit ==
  /\ system \in {"copy", "fifo", "monitor", "jobs", "httpd"}
  /\ IF system = "copy" THEN Init
                        ELSE Init /\ program = CHOOSE p \in Programs : TRUE
  /\ F!Init
  /\ IF system = "monitor"
     THEN M!Init
     ELSE /\ monitor = CHOOSE p \in MonitorPrograms : TRUE
          /\ M!Init
          /\ \A t \in DOMAIN msg : msg[t] = CHOOSE m \in Messages : TRUE
  /\ J!Init
  /\ H!Init

\* The systems but one stay where they are.
Others(but) ==
  /\ UNCHANGED system
  /\ IF but = "copy" THEN TRUE ELSE UNCHANGED vars
  /\ IF but = "fifo" THEN TRUE ELSE UNCHANGED fifoVars
  /\ IF but = "monitor" THEN TRUE ELSE UNCHANGED monitorVars
  /\ IF but = "jobs" THEN TRUE ELSE UNCHANGED jobVars
  /\ IF but = "httpd" THEN TRUE ELSE UNCHANGED httpdVars

MCNext ==
  \/ system = "copy" /\ Next /\ Others("copy")
  \/ system = "fifo" /\ F!Next /\ Others("fifo")
  \/ system = "monitor" /\ M!Next /\ Others("monitor")
  \/ system = "jobs" /\ J!Next /\ Others("jobs")
  \/ system = "httpd" /\ H!Next /\ Others("httpd")

MCSpec ==
  /\ MCInit /\ [][MCNext]_allVars
  /\ WF_vars(system = "copy" /\ reader) /\ WF_vars(system = "copy" /\ writer)
  /\ \A r \in Readers : WF_fifoVars(system = "fifo" /\ F!readerStep(r))
  /\ \A w \in Writers : WF_fifoVars(system = "fifo" /\ F!writerStep(w))
  /\ \A t \in M!AllThreads : WF_monitorVars(system = "monitor" /\ t \in M!Threads /\ M!Step(t))
  /\ WF_httpdVars(system = "httpd" /\ H!run)
  /\ SF_httpdVars(system = "httpd" /\ H!acceptClient)
  /\ \A w \in Workers : WF_httpdVars(system = "httpd" /\ H!handleClient(w))

------------------------------------------------------------------------------
(* The properties of the components.  What a component promises to do in   *)
(* the end is asked of it when it runs.                                    *)

\* ImplementsQueue of Fifo and of Monitors.
TransfersImplementQueue == F!ImplementsQueue /\ M!ImplementsQueue

\* SleepersServed of Fifo.
FifoSleepersServed == F!SleepersServed

\* BoxGivesOwn and WaitersHaveReason of Monitors: who may wait there.
MonitorWaits == M!BoxGivesOwn /\ M!WaitersHaveReason

\* JobsRestored of JobList.
JobsRestored == J!JobsRestored

\* KeyInOnePlace of Httpd.
KeyInOnePlace == H!KeyInOnePlace

\* CopyEnds of CopyThreads, MonitorsGoOn of Monitors and RequestsServed of
\* Httpd.
TransfersGoOn ==
  /\ system = "copy" => CopyEnds
  /\ system = "monitor" => M!MonitorsGoOn
  /\ system = "httpd" => H!RequestsServed
==============================================================================
