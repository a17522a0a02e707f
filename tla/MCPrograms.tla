------------------------------ MODULE MCPrograms ------------------------------
(***************************************************************************)
(* Ten programs checked in one run: the checkpoint (Checkpoint), the alarm *)
(* clock (AlarmClock), the allocator (SimpleMalloc), the System V          *)
(* semaphore demo (SemDemo), the counters (Counters, RangeCounter), the    *)
(* counting device (DeviceStats), the echo server (EchoServer), the shell  *)
(* (Shell) and the bitmaps of the buddy system (BuddyMaps).  They share    *)
(* nothing: the variable `system' says which of them runs, and the others  *)
(* stay where they begin.                                                  *)
(***************************************************************************)
EXTENDS Checkpoint

CONSTANTS
  Sleepers, MainThread, Nobody, MaxPeriod, count,
  NALLOC, HeaderBytes, Requests, MaxBreak,
  Processes, MAX_RETRIES, MaxSets,
  CounterPrograms, CounterThreads, Parent, Child, limit, iterations,
  RangeChapters, Incrementers, Decrementers, max,
  Clients, Server, MaxLines,
  Drivers, Callers,
  Lines, MaxTyped, Directories,
  Sizes, Exponents

VARIABLES
  system,
  mainFirst, mutex, left, rounds, victim, alarm_pc,
  ptr, size, freep, brk, acquired, asked,
  current, lastSet, value, otime, semid, retries, semdemo_pc,
  running, counter, locked, permits, printed, held, i, counters_pc,
  chapter, range_counter, range_mutex, decrable, incrable, range_pc,
  at, served, conn, session, ended, line, sent, buffered, received, open, child,
  driver, stats, sem, refs, call, killed, register, skipped, device_pc,
  typed, rest, tree, pipeline, index, jobbed, eof, jobs, allocated, cwd, owd, dir,
  terminal, shown, unwritten, written, children, failed, shell_pc,
  map_size, map_e, bitmap, map_exited, blocks_set

A == INSTANCE AlarmClock WITH pc <- alarm_pc
M == INSTANCE SimpleMalloc
S == INSTANCE SemDemo WITH pc <- semdemo_pc
C == INSTANCE Counters WITH pc <- counters_pc
R == INSTANCE RangeCounter WITH counter <- range_counter, mutex <- range_mutex, pc <- range_pc
E == INSTANCE EchoServer WITH current <- served
D == INSTANCE DeviceStats WITH pc <- device_pc
H == INSTANCE Shell WITH printed <- shown, buffered <- unwritten
B == INSTANCE BuddyMaps WITH size <- map_size, e <- map_e, exited <- map_exited

ASSUME ProgramsAssumption ==
  /\ A!AlarmClockAssumption /\ M!SimpleMallocAssumption /\ S!SemDemoAssumption
  /\ C!CountersAssumption /\ R!RangeCounterAssumption /\ E!EchoServerAssumption
  /\ D!DeviceStatsAssumption /\ H!ShellAssumption
  /\ B!BuddyMapsAssumption

\* Lines that a user types: a word, a built-in, a program (run) or one that is
\* not there (missing), with the operators between them and where they are odd.
TypedLines == {
  <<>>, <<"cd">>, <<"cd", "a", ";", "pwd">>, <<"cd", "-", ";", "pwd">>,
  <<"cd", "/", ";", "cd", "-">>, <<"pwd", ";", "missing">>,
  <<"run", "|", "missing">>, <<"pwd", "|", "run">>, <<"run", "|", "exit">>,
  <<"exit", ";", "run">>, <<"|", "missing", "&", ";", "pwd">>}

\* The root, /a and /a/a.
SomeDirectories == {<<>>, <<"a">>, <<"a", "a">>}

alarmVars == <<mainFirst, mutex, left, rounds, victim, alarm_pc>>
mallocVars == <<ptr, size, freep, brk, acquired, asked>>
semdemoVars == <<current, lastSet, value, otime, semid, retries, semdemo_pc>>
counterVars == <<running, counter, locked, permits, printed, held, i, counters_pc>>
rangeVars == <<chapter, range_counter, range_mutex, decrable, incrable, range_pc>>
echoVars == <<at, served, conn, session, ended, line, sent, buffered, received, open, child>>
deviceVars == <<driver, stats, sem, refs, call, killed, register, skipped, device_pc>>
shellVars == <<typed, rest, tree, pipeline, index, jobbed, eof, jobs, allocated, cwd,
               owd, dir, terminal, shown, unwritten, written, children, failed, shell_pc>>
buddyVars == <<map_size, map_e, bitmap, map_exited, blocks_set>>
allVars == <<system, vars, alarmVars, mallocVars, semdemoVars, counterVars, rangeVars,
             echoVars, deviceVars, shellVars, buddyVars>>

MCInit ==
  /\ system \in {"checkpoint", "alarm", "malloc", "semdemo", "counters", "range", "echo",
                "device", "shell", "buddy"}
  /\ Init
  /\ A!Init /\ (system = "alarm" \/ mainFirst)
  /\ M!Init
  /\ S!Init
  /\ C!Init /\ (system = "counters" \/ running = CHOOSE p \in CounterPrograms : TRUE)
  /\ R!Init /\ (system = "range" \/ chapter = CHOOSE n \in RangeChapters : TRUE)
  /\ E!Init
  /\ D!Init /\ (system = "device" \/ driver = CHOOSE d \in Drivers : TRUE)
  /\ H!Init /\ (system = "shell" \/ terminal)
  /\ B!Init
  /\ \/ system = "buddy"
     \/ map_size = (CHOOSE s \in Sizes : TRUE) /\ map_e = CHOOSE k \in Exponents : TRUE

\* The systems but one stay where they are.
Others(but) ==
  /\ UNCHANGED system
  /\ IF but = "checkpoint" THEN TRUE ELSE UNCHANGED vars
  /\ IF but = "alarm" THEN TRUE ELSE UNCHANGED alarmVars
  /\ IF but = "malloc" THEN TRUE ELSE UNCHANGED mallocVars
  /\ IF but = "semdemo" THEN TRUE ELSE UNCHANGED semdemoVars
  /\ IF but = "counters" THEN TRUE ELSE UNCHANGED counterVars
  /\ IF but = "range" THEN TRUE ELSE UNCHANGED rangeVars
  /\ IF but = "echo" THEN TRUE ELSE UNCHANGED echoVars
  /\ IF but = "device" THEN TRUE ELSE UNCHANGED deviceVars
  /\ IF but = "shell" THEN TRUE ELSE UNCHANGED shellVars
  /\ IF but = "buddy" THEN TRUE ELSE UNCHANGED buddyVars

MCNext ==
  \/ system = "checkpoint" /\ Next /\ Others("checkpoint")
  \/ system = "alarm" /\ A!Next /\ Others("alarm")
  \/ system = "malloc" /\ M!Next /\ Others("malloc")
  \/ system = "semdemo" /\ S!Next /\ Others("semdemo")
  \/ system = "counters" /\ C!Next /\ Others("counters")
  \/ system = "range" /\ R!Next /\ Others("range")
  \/ system = "echo" /\ E!Next /\ Others("echo")
  \/ system = "device" /\ D!Next /\ Others("device")
  \/ system = "shell" /\ H!Next /\ Others("shell")
  \/ system = "buddy" /\ B!Next /\ Others("buddy")

MCSpec ==
  /\ MCInit /\ [][MCNext]_allVars
  /\ WF_vars(system = "checkpoint" /\ mainStep)
  /\ WF_vars(system = "checkpoint" /\ alarmStep)
  /\ \A t \in Threads : WF_vars(system = "checkpoint" /\ sighandler(t))
  /\ SF_alarmVars(system = "alarm" /\ A!signalHandler)
  /\ \A t \in Sleepers : SF_alarmVars(system = "alarm" /\ A!setAlarm(t))
  /\ \A t \in CounterThreads :
       WF_counterVars(system = "counters" /\ t \in C!Threads /\ C!Step(t))
  /\ \A t \in Incrementers \cup Decrementers : WF_rangeVars(system = "range" /\ R!Count(t))
  /\ WF_echoVars(system = "echo" /\ E!server)
  /\ \A c \in Clients : WF_echoVars(system = "echo" /\ E!cmd_single(c))

------------------------------------------------------------------------------
(* The properties of the components.  What a component promises to do in   *)
(* the end is asked of it when it runs.                                    *)

\* AlarmsRing of AlarmClock.
AlarmsRing == system = "alarm" => A!AlarmsRing

\* HeapShared of SimpleMalloc, PipelinesOwned of Shell and BuddiesShareABit of
\* BuddyMaps.
MemoryOwned == M!HeapShared /\ H!PipelinesOwned /\ B!BuddiesShareABit

\* OnePermitPerSet of SemDemo.
OnePermitPerSet == S!OnePermitPerSet

\* CountsRight of Counters, CountInRange of RangeCounter and StatsRight of
\* DeviceStats.
CountsRight == C!CountsRight /\ R!CountInRange /\ D!StatsRight

\* RoundsGoOn of Checkpoint, CountersEnd of Counters, CountGoesOn of
\* RangeCounter.
ProgramsGoOn ==
  /\ system = "checkpoint" => RoundsGoOn
  /\ system = "counters" => C!CountersEnd
  /\ system = "range" => R!CountGoesOn

\* EchoSessions of EchoServer, OutputKept and PwdRight of Shell.
OutputRight == E!EchoSessions /\ H!OutputKept /\ H!PwdRight

\* EchoGoesOn of EchoServer.
EchoGoesOn == system = "echo" => E!EchoGoesOn
==============================================================================
