# A verification of the synchronisation code of CS453-resources

The repository holds the programs of an operating-systems course: small libraries
and clients that a teacher wrote for the chapters on concurrency, longer examples
on threads, monitors, devices and processes, the textbook's own code, homework
skeletons, and slides. Most of it is a line of demonstrations of one system call
each. What has state that is shared, and is hard to get right, is the
synchronisation code: locks made from atomic instructions and futexes, a semaphore
made from two such locks, bounded buffers with condition variables and with
semaphores, dining philosophers, a readers-and-writers lock, monitors, signal
handlers that take locks, servers with threads and processes, device drivers, and
programs that are killed and started again. This project models that code in TLA+,
checks it with TLC on small instances and proves the most important results with
TLAPS for instances of every size.

`PROJECT.json` lists the components, the runs, the mutants, the source lines of
every definition, the hazards, the findings and the theorems. Paths below are
relative to `src/`; `452` stands for `buff/classes/452/pub`.

## 1. Inventory

### 1.1 Components that are modelled

**The homemade lock** (`452/ch28/Lock`, client `452/ch28/ThreadLock`). State: one
lock word; the kernel's queue of threads on the futex of that word; on aarch64 the
exclusive monitors; in the client `counter` and the output. Operations: `lock` and
`unlock` (`Lock.c`), `wait` and `wake` on the futex (`Wait.c`), `atomic_lock` and
`atomic_unlock` in four variants (`btsw`, `cmpxchg`, `xadd`, `ldxr`/`stxr`). The
makefile picks one variant and one of three ways to wait (spin, yield, futex).
Hard: everything between two instructions. The increment of a failed `xadd` is
visible to others; a monitor may be lost between `ldxr` and `stxr`; the owner may
unlock and wake between a failed attempt and `FUTEX_WAIT`. Correct means: one
owner at a time, no lost wakeup, the client prints 0..9 once each and in order,
and it ends.

**The homemade semaphore** (`452/ch31/Semaphore/semaphore.c`). State: `value` and
two lock words, `mutex` around it and `hold`, normally locked. Operations:
`sem_init`, `sem_wait`, `sem_post`. A post that finds waiters waits until `hold`
is locked and unlocks it, so that one waiter gets in. Hard: a wait gives up
`mutex` before it spins on `hold`, posts run in between and two of them in a row
must not merge; a post spins with `mutex` in hand. Correct means: it is a counting
semaphore, permits are used, and posts return.

**Producers and consumers with a stop**
(`examples/synchronization-part2/monitors/pthreads/producers-consumers`). State: a
circular buffer with offset and size, totals, `StopRequested`, a mutex, two
condition variables. Operations: the two thread procedures and `main`, which sets
the stop, broadcasts and joins. Hard: signals and broadcasts after the unlock, the
stop between a test and a wait, items left at the stop. Correct means: a bounded
FIFO queue, no lost wakeup, agreeing totals, an end.

**Producers and consumers of chapters 30 and 31** (`452/ch30/ProdCons`,
`452/ch31/ProdCons`). The same ring buffer `buffer.c` (`buf`, `cnt`, `beg`, `end`;
`put`, `get`, `full`, `empt`) under a mutex and two condition variables, and under
three semaphores. The buffer takes no lock. Correct means: the same FIFO queue,
semaphores that match the buffer, puts and gets that go on.

**Dining philosophers** (`452/ch31/Phils`). State: a stick semaphore between
neighbours, an output semaphore, `state` of each philosopher. Hard: the circle of
first sticks; `state` lags behind the sticks. Correct means: neighbours never
munch together, and every philosopher completes its iterations.

**Thread-safe string buffer** (`452/ch31/ReadWrit`). State: the string, the count
`getters` of readers inside, semaphores `getable` and `putable`. Operations: `get`
and `put` with their read and write locks. Hard: the last reader to leave races
the first to come, the first reader waits for `putable` with `getable` in hand,
and `realloc`/`strcpy` are visible half-way. Correct means: get and put are atomic
operations on one word, and writers are not kept out by a lock that nobody gives
back.

**Monitors of one and of several messages** (`452/ch26/BoxMon`, the Java box
beside it,
`examples/synchronization-part2/monitors/java/producers-consumers/example1`).
State: the messages, one wait set. Hard: one condition serves both sides, so that
a wakeup can reach a thread of the wrong side only. Correct means: a bounded
queue, nobody waits for a state that has come, puts and gets go on.

**File copies by two threads** (`examples/synchronization-part1/threads-sem-cp.c`,
`threads-dbl-buf.c`, `threads-cp.c`). State: one or two buffers with a turn for
each side, or a plain flag, and the result of the last read. Hard: reads and
writes fail or are short while the other side goes on. Correct means: the copy is
the file so far but for the rests of short writes, and the program ends unless the
writer gives up.

**Checkpoint by a signal handler**
(`examples/synchronization-part1/checkpoint.c`). State: three semaphores,
`thread_count`, `saved`. Hard: a three-phase barrier inside a handler, where any
thread, or `main` half-way through its set-up, is stopped. Correct means: the
state is saved once per alarm and while all threads are stopped.

**Alarm clock** (`examples/synchronization-part2/monitors/pthreads/alarm-clock`).
State: the time, a mutex, a condition variable for all. Hard: the handler of
SIGALRM takes the mutex that the interrupted thread may hold. Correct means: an
alarm rings, at its time, unless the handler has blocked itself in this way.

**Counters with and without locks** (`452/ch26/ThreadCount`, `452/ch27`,
`452/ch30/ThreadLock`, `452/ch31/ThreadLock`, the bank balances and
`shared-semaphores.c`). State: one number. Correct means: exactly the results that
each program's lock allows.

**Free-list allocator** (`examples/memory-management/simple-malloc` and its
refactored copy). State: the ring of free blocks, the break. Hard: any order of
calls, the break moved by others. Correct means: blocks are disjoint and none is
lost.

**System V semaphore demo** (`semdemo.c`, `semrm.c`). State: the kernel's set,
which outlives the processes. Hard: a process dies, or the set is removed, between
any two calls. Correct means: one permit per set.

**Echo server** (`452/echod`). State: the answers in stdio buffers, the
connections that processes have open. Hard: a fork copies the buffers that threads
fill and the connections of other clients. Correct means: what a client gets is
what it sent, but for what the code's fork doubles, and the server goes on.

**Checkpointed list of jobs** (`cs253-examples/C-examples/file-io/checkpoint`).
State: a doubly-linked list and its file. Hard: a kill between the writes, a file
that ends early. Correct means: the jobs that were written are restored in their
order.

**Selecting web server** (`examples/networking/Java/largerhttpd`). State: the
selector's keys, a queue, the connection each worker has. Hard: a key moves
between three owners; a connection breaks. Correct means: a key is in one place,
and requests are answered.

**Fifo device and counting devices** (`examples/device-management/fifo.c`,
`linux-device-drivers/example3` and `example4`). State: a ring of chars, two wait
queues, who has it open; four counts and a semaphore. Hard: sleeps inside the
driver, only full and empty wake, signals end a wait for the semaphore. Correct
means: a bounded queue whose sleepers are served; counts that agree with the open
files.

**Shell** (`452/hw3`). State: the words left of a line, the pipeline that runs, the
list of jobs, the strings of `cd`, the output buffer. Operations: the parser, which
hands over one pipeline at a time, `exit`, `pwd`, `cd`, and a fork for everything
else. Hard: a pipeline that has forked belongs to the list and any other is freed,
with built-ins, programs and an `exit` mixed in it; children copy the output buffer.
Correct means: each pipeline in memory has one owner; `pwd` is where the shell is;
what it prints is written once.

**Bitmaps of the buddy system** (`452/hw2/bm.c`, `bbm.c`). State: one bit for each
pair of buddies. Hard: rounding, for a memory that is no whole number of pairs.
Correct means: a bit for every block, shared with its buddy alone.

**Ping and pong** (`SynchronizedPingPong.java`). State: two wait sets. Hard: a
notify nobody waits for is gone.

### 1.2 How they interact

The lock is called by `ThreadLock.c` and, as bare `atomic_lock`s, by the
semaphore. The semaphore is called by the programs of chapter 31. The rest are
programs of their own. The models are stacked accordingly: `Lock` goes down to
instructions and shows that a lock is a `Mutex`; `Semaphore` takes `atomic_lock`
as one step (two in the exchange-and-add build, where that is not justified) and
shows that it is a `CountingSemaphore`; `ProdCons`, `Phils`, `ReadWrit`,
`RangeCounter` and `CopyThreads` take `sem_wait` and `sem_post` as the atomic
steps of a counting semaphore; programs with condition variables or Java monitors
use `CondVar`, an external component (POSIX, with spurious wakeups).

Other ways in which parts meet, and where they are modelled:

* a signal handler on the stack of the thread it interrupts: `AlarmClock`,
  `Checkpoint`; a signal that ends a wait in the kernel: `DeviceStats`;
* a fork that copies memory and open connections of a process with threads:
  `EchoServer`; one that copies unwritten output to programs: `Shell`;
* state that outlives a program, in a file or in the kernel, with kills and
  restarts: `JobList`, `SemDemo`;
* messages between client and server over a connection that may break: `Httpd`,
  `EchoServer`.

### 1.3 Components that are not modelled

Each is a row in PROJECT.json with its reason. With state worth modelling, and
left for later: the lock by disabled interrupts, `threads-barrier.c`,
`ThreadSync.c`, the Java alarm clock, `thread-sum.c`, the pair of named pipes that
a server and its clients share (`examples/signals-pipes/fifos`). Not worth it:
homework skeletons (functions left empty), the textbook's own code (third party),
demonstrations of one system call, the Windows copies, slides and data. Section 7
says what is left out inside the components that are modelled.

## 2. Plan

| step | modules | abstract specification | theorems |
|---|---|---|---|
| 1 (done) | `Lock` | `Mutex` | exclusion, no lost wakeup, output, refinement |
| 2 (done) | `Semaphore` | `CountingSemaphore` | exact hand-off, refinement in every build |
| 3 (done) | `ProducersConsumers`, `CondVar` | `BoundedQueue` | totals, no lost wakeup, stop, refinement |
| 4 (done) | `Buffer`, `ProdCons` | `BoundedQueue` | nothing lost, refinement |
| 5 (done) | `Phils` | none | neighbours apart, only the circle blocks |
| 6 (done) | `ReadWrit` | `SharedWord` | writers alone, refinement |
| 7 (done) | `AlarmClock` | alarms ring at their time | nobody oversleeps, only the handler stops the clock |
| 8 (done) | `CopyThreads` | the copy is the file so far | faithful copy, what can block it |
| 9 (done) | `Checkpoint` | saved while all are stopped, once per alarm | both |
| 10 (done) | `Monitors`, `Counters`, `RangeCounter`, `PingPong` | `BoundedQueue` | monitors implement the queue, counters count right |
| 11 (done) | `Fifo`, `EchoServer`, `SimpleMalloc`, `SemDemo`, `JobList`, `Httpd`, `DeviceStats` | `BoundedQueue` | the fifo implements its queue, a key is in one place, restored jobs, one permit, statistics, sessions, `HeapShared` |
| 12 (done) | `Shell`, `BuddyMaps` | none: ownership and output | pipelines, output and `pwd` of the shell, `BuddiesShareABit` |
| 13 | the disabled-interrupt lock, `ThreadSync`, the server of named pipes | `Mutex` | |

## 3. Modules

`Mutex`, `CountingSemaphore`, `BoundedQueue` and `SharedWord` say what components
promise and model no code. `MC*` give sets to constants or compose systems for a
run. `*Proofs` hold theorems.

**Lock.** A step is one access to shared memory: a locked instruction, a load- or
store-exclusive, a store, a futex call, a load or a store of `counter`. `build` is
the makefile's choice, picked initially. `word` is `*lck`, `exclusive` the threads
whose monitor is armed, `asleep` the futex queue, `pc` the position in `count()`.
`SetBit` stands for `btsw` and for `cmpxchg`: both fetch the word and leave 1 in
it in one locked step. `ExchangeAndAdd` and `UndoAdd` are two steps, as in the
code. `FutexWait` compares with 1 and sleeps or returns; `SpuriousWakeup` is a
return of the system call without a wake. The word is a natural number: it counts
at most one per thread (proved), so the 32-bit word and its `decw` do not wrap.
Sequential consistency of the accesses is assumed: x86 locked instructions give
it, and on aarch64 the acquire and release of the code's barriers are not modelled
further.

**Semaphore.** `value--` with its test is one step because `value` is only touched
under `mutex`. A lock word is a number modulo `Half * Half`, since in the
exchange-and-add build transient increments and a `decw` of an unlocked word do
wrap within the low half; `Half` is 2^16 on x86, and in that build there are
fewer threads than that (`SemaphoreAssumption`). Threads call `sem_wait` and
`sem_post` in any order, at most `MaxCalls` times.

**CondVar.** The queue of a condition variable, by program counters: `waiting`
threads are queued, `woken` ones have left the queue and ask for the mutex.

**ProducersConsumers.** What a thread does while it has `BufferLock` is one step;
the signals and broadcasts that follow the unlock are steps of their own.
`Produce` includes the numbering of the item before the wait, as the code does.
`RequestStop` is the Enter key. `LastItemProduced` is bounded by `MaxItems` until
the stop.

**Buffer, ProdCons.** `put` and `get` are those of `buffer.c`, pre-increment
included: the index moves before it is used. `chapter` says which program runs. In
chapter 31 every semaphore call and the transfer are separate steps.

**Phils.** `be` and `print`, a step for each semaphore call and each assignment.
`swapped` holds those who take the right stick first: nobody in the code as it is,
philosopher 0 with the code commented out at the ends of lines 50 and 51.

**ReadWrit.** A step for every semaphore call and every access to `getters` and
the string. Between `realloc` and the end of `strcpy` the string is `Torn`. A
thread sleeps between its calls for any time.

**Monitors.** `BoxMon` (C), `TryBox` (Java) and `PC` (the Java shared queue) over
one wait set. C signals one thread after the unlock, a step later; in Java
`notify` (the box) and `notifyAll` (the queue) are inside the monitor. Threads of
a box put one message and get one.

**CopyThreads.** `program` is `sem`, `dbl` or `flag`. Every wait, read, write and
post is a step; a post has the test that ends the loop with it. Reads may fail,
writes may fail or be short. `spin` is where an optimised `flag` program may stay
for ever.

**Checkpoint.** `main` is what main does outside of the handler, `pc` the position
of each thread in it, with the load and the store of `thread_count` apart. `saves`
and `seen` count modulo 3, which tells apart this round, the last and the next.
`InitState` makes the three semaphores and sets `thread_count` in one step: an
alarm in the middle of them stops main in the handler for good, at a later
semaphore or loop than the alarm before all of them, which the model has.

**AlarmClock.** `left` is the time to the deadline of each thread's alarm, so that
no clock grows. `victim` is the thread on whose stack the handler runs;
`mainFirst` is a kernel that prefers the main thread, as Linux does.

**Counters, RangeCounter.** A load and a store are two steps wherever no lock
makes them one. `hoisted` is the build of the unlocked balance that keeps it in a
register during the loop, which C allows for a data race.

**SimpleMalloc.** Memory in units of a `Header`; the ring is what `ptr` and `size`
say at each address, and `simple_malloc` and `simple_free` are the calls whole,
since the code is sequential. `sbrk` fails at `MaxBreak`, and other users of it
may move the break in between. `INT_MAX` bounds a request, which is an `int`.

**SemDemo.** The kernel's part is what `semget`, `semop` with SEM_UNDO, and
`IPC_RMID` do to `current`, `value` and `otime`; a process may be killed at any
step and started again.

**EchoServer.** `at` is the position of the server's first thread. `buffered` has
for every process the answers it still holds in its buffers, copies after a fork
included.

**JobList.** `SaveList` and `RestoreList` run one after the other on one file, any
number of times. The file is the sequence of written items; a kill leaves a
beginning of it. An `fread` past the end leaves the uninitialized variable as it
was: `Garbage`, or any size.

**Httpd.** `interest` and `readyOps` are the selector's, `inHand` is what the
selecting thread took and has not queued, `readyClients` the queue, `key` what
each worker has. `acceptThrows` is an `accept` for which no descriptor is left: the
exception ends the loop, the client still waits to be accepted, and the keys not
yet handled stay in `selected` until a select finds something new.

**Fifo.** A call runs until it sleeps, as in the non-preemptive kernels the driver
is for; the copy of a char from or to the user may sleep too and ends a step.
`fifo_read` is declared but missing in the file, so the model calls `read_char`
for each char.

**DeviceStats.** `example3` loads and stores its counts without a lock, `example4`
under a semaphore that a signal can take from a waiting call. `skipped` is a
ghost: the releases that were interrupted.

**Shell.** A line is a sequence of words. The parser's steps, one per command, and
the loop over the commands of a pipeline are those of the shell; `ExecProgram` is a
child between its fork and `execvp`. `allocated` are the addresses of pipelines, which
`malloc` may give again; `written` is what has reached the output, `buffered` what
is in the shell's memory, and each child has a copy.

**BuddyMaps.** The bits are a function; addresses are offsets. `blocks_set` is a
ghost: the blocks whose pair was set last.

**PingPong.** `Notify` and `Wait` are the two synchronized statements.

**MCLocks, MCBuffers, MCTransfers, MCPrograms** put several systems into one run.
They share nothing in the code and in the model: the variable `system` says which
one runs, picked initially, and the others stay where they begin. The states of
the systems therefore add up and do not multiply, and every property of a part is
the property of its module. `MCLocks` has `Lock` and `ReadWrit`; `MCBuffers` has
`ProducersConsumers` and `ProdCons`; `MCTransfers` has `CopyThreads`, `Fifo`,
`Monitors`, `JobList` and `Httpd`; `MCPrograms` has `Checkpoint`, `AlarmClock`,
`SimpleMalloc`, `SemDemo`, `Counters`, `RangeCounter`, `EchoServer`, `DeviceStats`,
`Shell` and `BuddyMaps`.

## 4. Runs

Every run takes less than three minutes with two workers. Unless stated otherwise
a run checks deadlock.

| run | instance | states | shows |
|---|---|---|---|
| `locks` | 3 threads, values 0..1, all 4 variants, with and without futex; 3 readers, 2 writers, 2 words | 337 665 | lock: exclusion, sleeper has waker, output, refinement of `Mutex`, end unless exchange-and-add; string buffer: writers alone, refinement of `SharedWord`, writers go on |
| `lock_xadd` | 3 threads, exchange-and-add | | **violation**: the program need not end |
| `semaphore` | 3 threads, 2 calls each, values 0 and 1, both kinds of word | 50 491 | exact hand-off, refinement of `CountingSemaphore`, permits used, posts return |
| `semaphore_xadd` | exchange-and-add | | **violation**: a post takes a transient increment for a lock |
| `buffers` | 2 + 2 threads, 2 places; 4 items with a stop, or numbers 0 and 1, both chapters | 171 576 | queues, nothing lost, totals, stop reaches all, end, items consumed, flow |
| `phils` | 4 philosophers, 2 cycles, both orders | 139 554 | neighbours apart, only the circle blocks, the other order dines |
| `phils_circle` | 3 philosophers, 2 cycles | | **violation**: philosophers can stop before their iterations are done |
| `transfers` | see the bounds | 106 786 | copies faithful, queues, who may wait, keys, restored jobs, progress |
| `programs` | see the bounds | 193 887 | checkpoints, alarms, heap, pipelines, buddies, permits, counts, output of the echo server and the shell, progress |
| `fifo_eof` | 1 reader, 1 writer | | **violation**: a reader gets neither a char nor the end of the file |
| `ping_pong` | the program | | **violation**: both players wait |
| `job_list_empty` | lists of at most 3 jobs | | **violation**: an old list is restored |

What the properties say, beyond their comments in the modules:

* `SleeperHasWaker` is the futex handshake: the owner's store of 0 comes before
  its `FUTEX_WAKE`, and the kernel compares the word with 1 before it queues.
* `ExactHandOff` is the accounting that makes two locks a semaphore: blocked waits
  = `-value` + an unlocked `hold` + a post in progress. A lost or doubled hand-off
  breaks it. It excludes the exchange-and-add build, where it is false.
* `NoLostWakeup` is stated as it is true: signals may go to a thread that finds
  the buffer changed, and may come late; what may not happen is that all consumers
  sleep over items, or all producers over room, with nobody about to signal.
  `NoWakeupOrPermitLost` is the same for chapter 30, and for chapter 31 that
  permits, places and threads on their way between the two add up.
* `OnlyTheCircleBlocks` says that the known deadlock is the only one: neither the
  output semaphore, taken with two sticks in hand, nor a philosopher who has
  finished can block the rest. The deadlock check is off for `phils`, where the
  table really stops. `Waits` says who cannot take a step, and has been compared
  with `ENABLED`, which the provers do not know, in every state of a small table.
* `ImplementsSharedWord` is linearisability of `get` and `put`.
* `WritersGoOn` is what the code gives writers: starvation while readers overlap
  is possible and not excluded, a lock left behind is.
* `CopyFaithful` relates the copy to the source block by block, whatever fails;
  `CopyEnds` (in `TransfersGoOn`) says when the program ends, and that it does not
  when the writer has stopped on a failed write: main then waits for a reader that
  waits for its turn.
* `MonitorWaits`: whoever waits at the shared queue still has to; at a box, where
  one wakeup for both sides could go astray, nobody ever waits to get, since each
  thread has put before, and for the same reason each gets its own message.
* `TransfersImplementQueue`: the fifo and the three monitors are bounded queues.
* `FifoSleepersServed`: a reader asleep over chars, and a writer asleep while
  there is a reader, are woken in the end. Only full, empty and the releases wake
  in the driver.
* `KeyInOnePlace`: an open connection is with the selector, in the selecting
  thread's hand, in the queue or with one worker, and dropped only if its client
  has broken it. `RequestsServed` is its liveness.
* `JobsRestored`: what is printed after a restore is what was written before a
  kill, in order, and past the end of a cut file only what the uninitialized
  variables hold.
* `SavedWhileStopped` and `OneSavePerCall` relate each save to all threads'
  positions and rounds. `RoundsGoOn` excepts an alarm that runs down before main
  has created the threads and semaphores: the handler then stops main for good.
* `AlarmsRing` excepts the handler that waits for the mutex of the thread it
  interrupted, and nothing else.
* `MemoryOwned`: blocks in use and blocks in the ring are disjoint and make up all
  that `sbrk` gave, a block in use is large enough, and no two free blocks lie
  side by side (`HeapShared`). The pipelines in memory are those in the shell's
  list, once each, and the one that runs (`PipelinesOwned`). The bit of a block
  tells what was last done to it or to its buddy (`BuddiesShareABit`).
* `OnePermitPerSet`: the value of a set and its holders are one permit, across
  kills and removals.
* `CountsRight`: the results each counting program can have, the range counters'
  range and wakeups; the counts of `example4` agree with its open files up to
  releases that a signal ended, and every such release holds the module.
* `OutputRight`: a client served in place or by a process reads its answers once
  and in order, one served by a thread may read copies that a fork has made before
  them (`EchoSessions`). What `pwd` prints is written once and in order, but for
  copies written by a child that cannot execute its program (`OutputKept`), and an
  absolute name that it prints is where the shell is (`PwdRight`).
* `EchoGoesOn`: the server comes back to those that wait unless a client keeps it,
  in the code's ways.

Type invariants are theorems or parts of the inductive invariants where a module
has proofs (`TypeCorrect`, `PCTypeCorrect`, `ProdConsTypeCorrect` and the like),
and are not run again.

### Bounds, and why they are enough

Three threads on the lock and the semaphore are one in the critical section, one
in an attempt and one that slips in between; every variant's handshake involves
two threads and a third that disturbs. `Last` = 1 lets threads pass the loop and
leave it. `MaxCalls` = 2 makes two posts in a row meet two waits. `Half` = 16
leaves room for all increments of three threads. Two producers and two consumers
on two places make both sides full, empty and raced by a newcomer, and the indices
wrap twice with four items. Four philosophers have neighbours and opposites. Three
readers give a first, a last and one in between; two writers exclude each other.

| system | bounds | why |
|---|---|---|
| copies | `FileBlocks` 4 | both buffers are used twice, and there is a lap to be ahead |
| fifo | `FIFO_LEN` 2, `MaxCount` 3, 2 readers, 2 writers | full and empty, a write longer than the ring, a second process that opens |
| monitors | `maxSize` 2, 3 box threads, 2 + 2 on the queue | two threads on each side of one condition |
| list of jobs | `MaxSize` 2 (3 in `job_list_empty`; `JobsRestored` also checked with 3) | a head, a tail and a kill between them |
| web server | 2 clients, 2 workers, `MaxParts` 1, `MaxWrites` 2 | two workers for one key; a request in parts, a response in two writes |
| checkpoint | `numThreads` 3 (also checked with 4) | first, middle and last in each phase; proved for all |
| alarm clock | 2 sleepers, 2 alarms each, periods up to 2 | equal and different deadlines, an alarm set while another rings |
| allocator | `NALLOC` 3, `HeaderBytes` 2, requests of 0, 2 and 6 bytes, memory of 8 units | exact fits, splits, joins on both sides, an `sbrk` that fails |
| System V demo | 3 processes, `MAX_RETRIES` 1, 2 sets | a creator, a user and one that comes late; a set removed and made again |
| counters | limit 2, 2 iterations, 3 threads (also checked with 3 and 3) | a lost update needs two threads, the passed limit three |
| range counters | `max` 2, 2 + 2 threads | both ends of the range, two threads at each |
| echo server | 2 clients, 2 lines (also checked with 3 clients) | a fork beside a thread with unwritten answers |
| shell | 3 lines of 11, a root and two directories | there, back and back again; every operator and built-in, with programs before and after |
| buddy bitmaps | 3, 8 and 11 bytes, blocks of 1 to 8 | whole pairs, half a pair, half a block |
| devices | 2 processes (also checked with 3) | lost counts, a signal during another's call |

For the proved properties the instance does not matter. No symmetry sets are used,
since the runs with liveness could not use them soundly.

`semaphore`, the two runs of the philosophers, `transfers` and `programs` set
`CHECK_DEADLOCK FALSE`: threads that have made their calls, or wait for a post
that nobody makes, stop for good; so do philosophers in the circle, programs that
end, and copies whose writer has failed.

### Fairness, and why the code justifies it

Threads are preemptively scheduled: each thread that can take a step takes one
(`WF` on the thread's steps). Nothing is assumed of the user's Enter key, of a
thread's decision to call the semaphore, of a reader's decision to read again, of
spurious wakeups, of lost monitors, of kills, of failures of reads and writes, of
a process's decision to open or release a device, or of a client: it may stop
sending or break off. `SF` on `StoreExclusive`: the architecture lets a
store-exclusive retried for ever succeed. `SF` on `acceptClient`: the web server
does not lack descriptors for ever; if it did, no new client would be served. Where a critical section is one step
(`ProducersConsumers`, `Monitors`, chapter 30), weak fairness gives a thread the
mutex once it asks for it; glibc's mutex does not promise that, and under a mutex
that starves a thread for ever only the safety properties remain. For `sem_wait`
as an atomic step weak fairness is enough for `Flow`, `SwappedDine`, `WritersGoOn`
and the ends and progress of `CopyThreads`, `Counters` and `RangeCounter`, which
ask for progress of somebody or end with finite work.

The checkpoint has `WF` on the steps of main, on the alarm the code sets again and
again, and on each thread in the handler. The alarm clock has `SF` on `setAlarm`
and on the handler: both want a mutex that others take and give back, so they are
not continuously enabled. A process that has the fifo open goes on with its call;
nobody has to open it. The echo server and its sessions, the web server's thread
and its workers, and both players of ping and pong go on when they can.

## 5. Proofs

TLAPS checks all of these for every value of the constants, under the assumptions
named in the modules (finite sets of threads, positive sizes, disjoint sets of
actors), which TLC evaluates in the runs.

* **LockProofs**: `LockInv` is inductive. Exclusion alone is not: that the word is
  0 when a thread gets in must imply that there is no owner, so the invariant says
  `word = Cardinality(Counted)`, the owner plus the failed increments, and that an
  armed monitor in `stxr` means the word is still 0. From it: type correctness,
  `MutualExclusion`, `SleeperHasWaker`, `PrintedInOrder`, and `Spec =>
  ImplementsMutex`.
* **SemaphoreProofs**: `SemaphoreInv` for all builds but exchange-and-add: the
  words are 0 or 1, `mutex` is 1 exactly under it, and `Accounting`.
  `MutexExclusion` gives that at most one post hands over, which makes the
  accounting inductive. From it `ExactHandOff`. In the exchange-and-add build a
  post may unlock a `hold` that nobody has locked (finding 2), so that the
  accounting is false; `XaddInv` says what is left of it. `mutex` counts its owner
  and the attempts that are not undone (`MutexTaken`), hence 0 is still free and
  exclusion holds. The unlocks that have let nobody go yet (`Unused`) are never
  negative, and `hold` follows them modulo `Half` (`HoldCounts`): an attempt finds
  the low half 0 only if there is such an unlock, provided there are fewer than
  `Half` threads, which the assumption says. The lemmas about remainders
  (`WordWraps`, `LowHalfLess`, `CountStep`) are for any `Half`. So
  `SemaphoreMutexExclusion` and `SemaphoreImplementsCounting` (safety) are proved
  for every build: also with the faulty variant no wait takes a permit that no
  post has given.
* **ProducersConsumersProofs**: `PCInv` adds to the properties that the stop
  precedes the end of any worker, that a consumer ends at an empty buffer (after
  the stop it only shrinks), and bounds on items. From it `TotalsAgree`,
  `NoLostWakeup`, `StopReachesAll`, and `WorkersGoOn`: while main waits for the
  user or for the threads, one of them goes on. `BufferImplementsQueue` rests on
  two lemmas about a ring of any size: an insertion at `(offset + size) % BUFFER_SIZE`
  appends, and an advance of the offset with a reset at `BUFFER_SIZE` takes the
  head.
* **PhilsProofs**: `PhilsInv` says that a stick is on the table exactly while
  nobody holds it and never in two hands; it gives `NeighboursApart` for tables of
  any size and any choice of who begins on the right. `OnlyTheCircleBlocksAlways`
  is the safety half of `SwappedDine`. If nobody can go on, nobody has the output
  semaphore, since its holder could print, and nobody has two sticks. So somebody
  waits with one stick for another, which the neighbour must have taken first; that
  neighbour waits in the same way, and so on round the table (`RoundTheTable`, an
  induction over the seats). One philosopher who begins on the other side is
  enough to break the circle.
* **ProdConsProofs**: `ProdConsInv` consists of the types, that `mutex` is 0
  exactly under it and one thread is there, that `beg` is `end` plus `cnt` round
  the ring, `NoLostWakeup` for chapter 30, and `PermitsMatchBuffer` for chapter
  31: permits, places in use and threads on their way add up. A `put` at a full or
  a `get` at an empty buffer is excluded by the permits, not by `buffer.c`, so
  none of the parts is inductive alone. From it `NothingIsLost`,
  `RingImplementsQueue` (by lemmas on the ring's contents, for any capacity),
  `ProdConsTypeCorrect`, and `ThreadsGoOn`: the threads never all wait.
* **ReadWritProofs**: `ReadWritInv` says that one reader at most has `getable`,
  that `getters` is the number of readers counted in, that `putable` is with one
  writer, with the readers as a group or free, and that the string is torn exactly
  while a writer copies into it. From it `WritersAreAlone` and, with what is in
  the hands of each user, `BufferIsOneWord`, the refinement. `UsersGoOn` says that
  a call that waits waits for one that goes on, though the first reader asks for
  `putable` with `getable` in hand and the last asks for them the other way round.
* **TransfersProofs** holds five systems, each with an invariant of its own.
  `CopyInv` says that a buffer has one turn, which is in a semaphore or with a
  thread, that the blocks in the buffers are those that follow the copy, in order,
  and that a thread that has met the end of the file has all of it before it; from
  it `CopyIsFaithful` for all three programs and any failure. `LastHandedOver` adds
  that the end or an error is the last thing the reader hands over, and that the
  writer does not end before it is there, but for an error of its own:
  `CopyBlocksAfterAnError` is the safety half of `CopyEnds`. `FifoInv` says that
  the cells in use lie from `head` on, round the end of the array, up to `tail`;
  from it `FifoIsQueue`, the refinement, for an array of any length. `MonitorsInv`
  adds to who waits (`WaitersHaveReason`) whose message is where in the box:
  `MonitorsWaitRightly` and the refinement `MonitorIsQueue`. For the list of jobs
  `JobsInv` describes the file as the lengths and jobs of a front part of what was
  opened (`FileInv`), and what `SaveList` and `RestoreList` have done up to their
  node; `JobsAreRestored` needs an induction along the list, over the number of
  nodes still to go. `HttpdInv` says that an open connection is in one place
  (`OnePlace`) and, unless an exception has lost it, in some place (`Somewhere`),
  and that an answer to be written has something left (`LeftInv`): `HttpdKeysSafe`.
* **ProgramsProofs** holds ten programs in the same way.
  - Checkpoint: `thread_count` is decremented under one mutex and incremented under
    another, so that neither protects it. `CheckpointInv` says why no update is
    lost: until the save (`Collecting`) nobody increments, after it (`Releasing`)
    nobody decrements. From it `SavedWhileStoppedAlways` and
    `OneSavePerCallAlways` for any number of threads.
  - System V demo: `SemDemoInv` says that a set that is not free yet has at most
    one creator at work and that the permit of a free one is in the semaphore,
    with one process, or gone with a removed set (`PermitOf`): `OnePermit`.
  - Alarm clock: `ClockInv` says that whoever has the mutex is at the test of its
    loop, and that nobody asleep has a deadline that is past: `ClockStopsInHandler`
    gives the safety half of `AlarmsRing`, that nobody oversleeps and that nothing
    but a handler on the stack of the mutex's owner stops the clock, and
    `ClockStopsForGood` that such a clock never runs again.
  - Range counter: in chapter 30 `CountInRange` is inductive; in chapter 31
    `PermitsAddUp` counts permits, the counter and the threads on their way, for
    any number of them: `RangeKept`.
  - Counters: one invariant for each kind of program. Under a lock (`LocksRight`)
    nothing is lost; the bounds of the unlocked ones say how far the number can be
    behind or ahead of what the three threads have done (`BadBounds`,
    `HoistedBounds`, `CountBounds`), where the store of an old value is what makes
    the bound hard: `CountersCountRight`, for any limit and number of iterations.
  - Devices: `DeviceInv` says that one process is between `down` and `up` and that
    what it has loaded is still the count: `DeviceStatsAgree`.
  - Echo server: `EchoInv` describes, for every client, what is sent, what is
    unwritten in which process and what is read, for each way to serve it, through
    every fork: `EchoSessionsRight`.
  - Shell: `ShellInv` says who owns which pipeline, jobs already listed included,
    where each piece of output is (on a terminal, in the buffer, in the copies of
    children), and what `cwd` and `owd` know of the directory:
    `ShellKeepsPipelines`, `ShellWritesOnce`, `ShellKnowsWhereItIs`.
  - Buddy maps: `BuddyInv` says that the bit at the address of a block is set
    exactly while the pair is among those last set, and that no call left the map.
    The addresses are multiples of powers of 2, of which the provers know nothing:
    `2 ^ e` is a positive number because it counts the subsets of `1..e`
    (`FS_SUBSET`), and that a block differs from its buddy in one bit is a matter
    of quotients and remainders (`BlockPair`). From it `BuddiesShareBits`.
  - Allocator: `MallocInv` says that between two calls there is a set `F` of free
    blocks which the pointers link into a ring in the order of their addresses
    (`Chain`), which with the blocks in use shares out all that `sbrk` gave
    (`Shared`), and of which no two touch (`Apart`). The model's ring is what a walk
    of `MaxBreak + 1` steps meets, and `RingIs` shows that this is `F`. The rest is
    what each call does to `F`: `TakeKeeps` for a block that is used up or cut,
    `FreeKeeps` for the ways to join a block with its neighbours,
    `AddShared` for more memory. From it `MallocSharesHeap`, for any requests and
    any movement of the break by others.

The last part of `LockProofs`, `ProducersConsumersProofs`, `TransfersProofs` and
`ProgramsProofs` brings these results to what the runs check: a step of the whole
is a step of one system and a stutter of every other (`SystemIsLock` and
`SystemIsReadWrit`, `SystemIsStopBuffer` and `SystemIsProdCons`, `SystemsAreApart`
for all five systems, `ProgramsAreApart` for all ten programs). So every invariant
and every refinement that `locks`, `buffers`, `transfers` and `programs` check is a
theorem of the very specification that TLC runs (`System...`), and so is the safety
half of `AlarmsRing` (`SystemClockStops`). The runs of `Semaphore` and `Phils` use
their own specifications. Where an instance is made twice with the same parameters,
once by the run's module and once by the proofs', lemmas say that the two are one
(`SameMapping` and its like), and `...Sizes` that a module's `Cardinality` is
everybody's.

What the proofs need of the constants is in the modules' assumptions, and no more
than the code says: finite sets of threads, positive sizes, actors that are not
two things at once, lines and directories that are sequences of words
(`Seq(STRING)`), the eight counting programs. No string literal can be shown to be
in `STRING` by these provers, so the shell's proofs use `ShellWords`, the strings
and "/". The induction theorems of the library take an operator as a parameter,
which the provers cannot instantiate; `PhilsProofs`, `TransfersProofs` and
`ProgramsProofs` get their induction instead from `NatLessThanWellFounded` and the
least element that
`WFMin` gives, for a set of numbers (`Least`, `SetInduction`), and the list of jobs
and the ring of blocks are walked by functions and not by RECURSIVE operators.

Every safety invariant that a run checks is a theorem. Only model-checked are:

* all liveness properties, since fairness is out of the prover's reach, and with
  them all that is said of `PingPong`. What a system that has stopped would look
  like is a matter of states and is proved (`OnlyTheCircleBlocks`,
  `OnlyTheHandlerBlocks`, `OnlyAFailedWriteBlocks` and the three `SomebodyGoesOn`):
  there `Waits` stands for `ENABLED`, which the provers do not know, and TLC found
  the two to agree in every state of a small instance of `Phils`, `ReadWrit`,
  `ProdCons` and `CopyThreads`. That threads which can go on get to the end is
  liveness again;
* the violations of section 6, each a behaviour that TLC shows.

## 6. Findings

1. **The exchange-and-add lock can livelock** (`lock_xadd`). Threads that retry
   keep increments in the word that nobody owns, so the word need never be seen as
   0 after the owner's unlock. The makefile offers the variant like the others.
2. **The exchange-and-add semaphore can unlock an unlocked word**
   (`semaphore_xadd`). `atomic_test` of `hold` takes a transient increment for a
   lock; the post then subtracts from an unlocked word. `ImplementsCounting` still
   holds there as a safety property, as is proved: the result is a hang, not a
   permit too many.
3. **The philosophers of the code can deadlock** (`phils_circle`); the order that
   avoids it stands in comments on the same lines, and `phils` shows that it does
   (that this order cannot block is proved for any number of philosophers).
4. **A reader of the fifo can miss its end** (`fifo_eof`). `write_is_open` is
   tested once, before the loop. A reader asleep when the writer releases the
   device is woken, finds it empty and sleeps again, where the comment promises 0
   (EOF).
5. **Ping and pong can both wait** (`ping_pong`). A `notify` that comes before the
   other's `wait` has no effect, and nothing else remembers whose turn it is.
6. **The checkpoint of an empty list is the one before** (`job_list_empty`).
   `checkpointList` returns TRUE for an empty list without touching the file; a
   later restore gives the jobs of an earlier list.

## 7. Not modelled

Failed `malloc`s and `ERROR` exits (but for those of the shell), `EINTR` from the
futex (the client installs no handler), `sem_destroy` (which frees the caller's
`sem_t`) and `fini`, printing
other than the numbers of the lock's client, sleeps other than as pauses of any
length, weak memory order. The aarch64 variants that stop the compiler with
`#error untested` are in no program.

Inside modelled components:

* copies: the exits of main on wrong arguments and on files that do not open;
* monitors: a `maxSize` of 0 or less; the queue of example2, whose consumers index
  an array of queues by their name; `Semaphore.java`, `Mutex.java`, the account;
* alarm clock: `TestAlarm` with the wrong number of arguments; the Java clock;
* allocator: the `int` in which the refactored copy counts units;
* fifo: `fifo_read`, minor numbers and modes, loading and unloading, the char that
  equals the driver's code for an end; `foo.c`, which does not compile;
* devices: loading and unloading, and with them the refusal (`-ENODEV`) of an open
  of a minor number that is not there, which changes nothing; `example1` and
  `example2`, which only print;
* echo server: the retries of `bind`, blank lines (inside a session they end the
  server, at `cmd_single.c:39`), lines of other words, clients that close before
  they have read everything, answers longer than a stdio buffer, which would be
  written before the stream is closed or the process ends;
* web server: a `configureBlocking` or a `register` that fails after an `accept`
  that did not, requests of 64 KB without a newline, requests that the security
  policy refuses (they end the worker), clients that take no data; a connection
  that is dropped is never closed, which the model shows as a key that is nowhere;
* shell: the history and prompt of readline, failed forks, the memory of the parse
  tree, output of more than a buffer; that every wrong use of a built-in ends the
  shell, which the model has, stands beside comments that say `warn`;
* buddy bitmaps: addresses beyond 2^32, which `bcreate` cannot be asked for; the
  allocator and its free list, which are not in the repository;
* list of jobs: errors of `fwrite`, which the code does not look at, and the
  `infoSize` of a restored job.

Whole programs: `threads-barrier.c` (one call of `pthread_barrier_wait` per
thread), `ThreadSync.c`, `thread-sum.c` and `Account.c` (nothing shared, or one
mutex), the driver examples that allocate in `proc_create`'s failure path, the
double-buffer attempts the sources themselves call wrong, the array queue of the
introductory examples (its comments swallow braces, so that it does not compile),
stub lists, homework skeletons, Windows variants and the textbook's own code.
