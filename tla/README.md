# Miosix synthesizer: formal verification

TLA+ modules for the program in `src/`: a MIDI
synthesizer for the STM32F407 Discovery board (`src/src`), running on the Miosix
kernel (`src/miosix`). The modules are checked on small instances with TLC, and what
matters most is proved for every value of the constants with TLAPS.

Contents: 1. the system; 2. its parts and what makes each correct; 3. the plan;
4. the modules; 5. the runs; 6. fairness; 7. the proofs; 8. where the code and
its documentation disagree; 9. other observations; 10. what is not modelled.

## 1. The system

`src/src/main.cpp` starts the program:

- the **parsing thread** (`midiParsing`) reads bytes from the serial port
  and hands them to `MidiParser::parseByte`;
- the **processing thread** (`midiProcessing`) pops notes from the parser and
  sets gate and frequency of the synthesizer;
- **control threads** (`encoderUI`, `buttonUI`, `sliderUI`) read the controls and
  sleep; an **LCD thread** (`lcdUI`) draws pages under `lcdMutex`;
- the main thread enters `AudioDriver::start`, which computes samples and hands
  buffers to the DMA; the **DMA interrupt** takes them back.

Below are the kernel's services: threads (`kernel.cpp`), the scheduler and the
tick interrupt (`scheduler/`), mutexes, condition variables and timers
(`sync.cpp`), FastMutex and the pthread interface, queues (`queue.h`), and the
serial driver. There is one processor. Concurrency comes from three sources:
preemption by the tick, interrupts of devices, and the two ways to exclude them
(disabling interrupts, which excludes everything, and pausing the kernel, which
excludes other threads only; a tick that arrives while the kernel is paused is
made good by the next `restartKernel`).

The settings in force are those of `config/miosix_settings.h`: the file system,
processes and logs are off, `SCHED_TYPE_PRIORITY` is on with `PRIORITY_MAX` 4
and `MAIN_PRIORITY` 1.

## 2. The parts

| Part | State | Operations | Meets | Hard because | Correct when |
|---|---|---|---|---|---|
| `Mutex`, `ConditionVariable` (`sync.*`) | owner, depth, heap of waiters; each thread's locked list, priority, saved priority | lock, tryLock, unlock; wait, signal, broadcast; `Thread::setPriority` | scheduler (priority), lifecycle (wait flags) | priority inheritance along chains of mutexes, handover, wakeups for other reasons | the bookkeeping agrees with the owner, no wakeup is lost, priorities are inherited and given back |
| `Queue` (`queue.h`) | ring, count, two positions, one waiting pointer | get, put, waits, IRQget, IRQput, reset | interrupts | one pointer serves two sides | first-in first-out; nobody sleeps with a reason to run |
| Audio output (`audio.cpp`, `BufferQueue`) | ring of buffers, `put`, `get`, `cnt`, the DMA's buffer | thread loop; end-of-transfer interrupt | DMA, kernel | a counter shared with an interrupt | the DMA never plays a buffer that is written, blocks are played in order |
| Thread lifecycle (`kernel.cpp`) | flags, join data, memory | create, exit, join, detach, idle cleanup | scheduler, allocator | memory is freed and allocated again while others hold the address | join returns, with the right result; no memory is forgotten |
| Scheduler (`priority_scheduler.cpp`, `tick_interrupt.h`, `kernel.cpp`) | list per priority, sleeping list, flags, nesting, missed tick | add, set priority, find next, sleep, wait, wakeup, yield, pause, restart, tick | everything | interrupts between every two steps; lists changed from many places | each thread listed once; blocked threads do not run; sleepers wake on time; preemption is prompt |
| MIDI input (`midi_*`, `main.cpp`) | parser state, buffers of notes, gate | parseByte, push, pop, process | serial port, synthesizer | running status, lost bytes, full buffers | the parser finds its way back, the gate follows the keyboard |
| `FastMutex`, `pthread_*` (`pthread_private.h`, `pthread.cpp`) | owner, levels, lists of waiters on their stacks; `init_executed` | lock, trylock, unlock; cond_wait, signal, broadcast; once | scheduler (wait flags), serial driver, standard library | handover before the next owner runs, wakeups for other reasons, levels released and restored by cond_wait, exceptions in pthread_once | first in line, first served; no wakeup is lost; levels are kept; the function completes once before anyone returns |
| EDF and control schedulers | list by deadline; bursts | as above | kernel | off on this board | as the priority scheduler |
| `DynUnsyncQueue`, serial driver (`serial_stm32.*`) | ring, `idle`, waiting pointers, two DMA buffers | readBlock, writeBlock, IRQwrite; interrupts of the port and of both DMA channels | FastMutex, scheduler, MIDI | three interrupts and a line that pauses at any time; the writer returns while the DMA still reads | bytes arrive and leave in order, once, lost only where the ring is full; a reader with data and every writer return |
| e20 event queues | events, waiting lists | post, run | kernel | spurious wakeups at both ends | first-in first-out, no lost wakeup |
| Timer, double buffer, synthesizer, controls, display, DAC, reference counts, processes, file system, libraries, time conversion, logging, board support, utilities | | | | section 10 | |

## 3. The plan

In order of how much of the program rests on them. The first eight are done.

1. `KernelMutex`: mutexes, condition variable, priorities.
2. `KernelQueue`, implementing `BoundedFifo`.
3. `AudioDriver`, implementing `BoundedFifo`.
4. `ThreadLifecycle`.
5. `MidiPipeline` over `CircularBuffer`, implementing `LossyFifo`.
6. `PriorityScheduler`, whose sleepers implement `Countdown`.
7. `Pthread`: `FastMutex`, the condition variable and `pthread_once`, implementing
   `FairLock`.
8. `SerialReceive` over `DynUnsyncQueue`, implementing `TailDropFifo`, and
   `SerialTransmit`.
9. `EDFScheduler` beside `PriorityScheduler`.
10. The e20 event queue, implementing a bounded queue of callbacks.
11. A composition of `KernelMutex` with the scheduler's rule for who runs.
12. `ProcessPool`, reference counts, the table of file descriptors.

Proofs to add to the modules of today: which orders of locking keep the clients of
`Pthread` free of deadlock, as `OrderedNoDeadlock` does for `KernelMutex`.

## 4. The modules

Every module says at its head what one step stands for. As a rule a step is what
runs with interrupts disabled or the kernel paused; where the code shares data
without either (`bufferFilled`), every access is a step.

**`KernelMutex`** — `sync.cpp`, `sync.h`, `Thread::setPriority`. The list of
mutexes a thread has locked is a set. The heap of waiters is the set of its
threads with its root kept apart (`waiting`, `front`), because the root is all the
code looks at; the heap is rebuilt at every change of priority. `LockFree`,
`LockOwned`, `LockBlock` are the outcomes of `PKlock`, `LockResume` the loop
after a wakeup; `Unlock` is `PKunlock` with handover and the priority of the
thread that unlocks and of the next owner; `CondWait`, `CondResume` and
`RelockResume` are `ConditionVariable::wait` and `PKlockToDepth`. The walk of the
inheritance is one step; where threads wait in a circle it never ends and the
model is "stuck". `base` and `entries` are history: the priority last given to a
thread and the calls of `lock` it has to undo. Clients are disciplined by `Nesting`.

**`KernelQueue`** — every method of `Queue`. `Get`, `Put`, `WaitUntilNotEmpty` and
`WaitUntilNotFull` run to the end or to sleep; `Resume` is the test after a
wakeup; `IRQget`, `IRQput` and `Reset` may come at any time; `SpuriousWakeup` is
a wakeup by anyone else. **`BoundedFifo`** is a sequence with a capacity, an
action to add, one to take and one to clear. `KernelQueue` maps to it the elements from
`getPos` on.

**`AudioDriver`** — `start`, `tryGetWritableBuffer`, `process`, `bufferFilled`
in the thread, `TransferEnd` the interrupt with `refillDMA`. `load`, `store` are
the two halves of `cnt++`. Blocks of samples are numbered modulo `NumBlocks`,
enough to tell apart all that exist at one time. `Interruptible` names the steps of
the thread before which a transfer may end, so that the same module says what
holds under which assumption on time. It maps to the same `BoundedFifo`.

**`ThreadLifecycle`** — `Create`, `Exit` (`threadLauncher`), `Join`,
`JoinResume`, `JoinRemove`, `Detach`, `Idle` with `PKremoveDeadThreads`. A thread is
its address, as in the code; `occupant` numbers the threads that lived there.
`Stale` says whether an address may be used again while a join of its earlier
occupant is still to return, `Calls` how many joins and detaches clients make
for one thread.

**`CircularBuffer`, `MidiPipeline`** — `parseByte` one byte per step with the
push of a finished note, `midiProcessing` from the test to the gate. `SendStatus`,
`SendData`, `SendOther` and `SendRealTime` are the keyboard and the wire: complete messages,
running status, messages and real-time bytes the parser does not know, and any
byte may be lost. `kind`, `left`, `whole`, `good` and `wanted` say what the keyboard meant.
**`LossyFifo`** is a queue that may drop what it is given; the buffer implements it.

**`PriorityScheduler`** — one action per call: `PKaddThread`, `PKsetPriority` by
each of its callers (`ChangePriority`: those that test for a difference; `Inherit`, `InheritOn`,
`Inherited`: the inheritance walk, which tests the first owner only and sets the others
to the level of the thread that walks, even if they are there already),
`RemoveDeadThreads` and `RemovedDeadThreads`, `Sleep`, `Wait`, `Wakeup`, `Exit`,
`CallYield` and `Yield` (the supervisor call may come after an interrupt),
`PauseKernel`, `RestartKernel`, `AfterRestart`, `IRQtickInterrupt`,
`DeviceInterrupt`. `IRQfindNextThread` is the search from the head of each level's circular
list, which is rotated to the thread chosen. A wakeup time is kept as the
ticks that are missing, so that the clock needs no bound. **`Countdown`** is
what a sleep promises: a number that falls by one with every tick and a
sleeper that is woken at zero and not before. 

**`Pthread`** — `pthread_private.h` and `pthread.cpp`. `LockFree`, `LockAgain`,
`LockBlock` and `LockDeadlock` are the outcomes of `IRQdoMutexLock`, `LockResume`
its loop after a wakeup; `Unlock` is `IRQdoMutexUnlock`, and `Handover` the end of it
that `IRQdoMutexUnlockAllDepthLevels` shares; `CondWait`, `CondResume` and
`RelockResume` are `pthread_cond_wait` with `IRQdoMutexLockToDepth`. `Once`,
`OnceEnd`, `OnceThrow` are `pthread_once`: a thread that finds the function running
yields and tries again. The linked lists on the stacks of the waiters are sequences. `entries`,
`completed` and `returned` are history. **`FairLock`** is a line for each lock, to
which threads are appended and from which only the first leaves; a mutex maps to its owner followed by
its list, so that the refinement rules out barging, skipping and handing a
mutex to a thread that is not in line.

**`SerialReceive`, `SerialTransmit`** — the two halves of `STM32Serial`, which share
no state. `Receive` is a byte on the line, `LineIdle` the pause that the USART
detects; `IRQhandleInterrupt` and `IRQhandleDMArx` are the handlers with
`IRQreadDma` and `DynUnsyncQueue::tryPut`; `ReadBlock`, `TryGet`, `Return`, `Sleep` and `Awake` are
`readBlock` cut where it enables interrupts. `WriteBlock` to `ReturnSize` are
`writeBlock` with `waitDmaTxCompletion` and `writeDma`, `IRQwrite` the
kernel's own output, which lets the DMA finish with interrupts disabled. The caller's memory (`buffer`) is given back when
`writeBlock` returns: what the DMA fetches from it later is `Junk`, as is what it
fetches from memory it does not reach (`ccm`). **`TailDropFifo`** is a queue that may cut what
exceeds its capacity off its end; ring, DMA buffer and register together map to it.
`dmaRx` and `dmaTx` choose the variant with or without DMA at the start.

The priority a thread inherits (`KernelMutex`), the flags it waits on
(`KernelMutex`, `KernelQueue`, `ThreadLifecycle`, `Pthread`, the serial driver) and the choice of who runs
(`PriorityScheduler`) meet in the kernel. All but the scheduler leave the choice open (any
thread that does not wait may run, a superset of what the scheduler does), and
the scheduler leaves open who waits for what and wakes whom.

## 5. The runs

| Run | Instance | Shows |
|---|---|---|
| `mutex_nested` | 3 threads, 2 mutexes (one recursive, used with the condition variable), 2 priorities, locks in any order | the bookkeeping, wakeups, priorities and depths, with deadlocks of the clients included; a walk that never ends is always a deadlock |
| `mutex_flat` | 3 threads, 2 plain mutexes never held together, 3 priorities | inheritance is exact, and who is handed a mutex returns from `lock` |
| `mutex_lowered` | the same with one mutex nested in the other | a counterexample, section 8 |
| `queue` | ring of 3, 3 values, a thread and interrupts at each end, reset | the queue is first-in first-out, no wakeup is lost, a sleeper with something to do returns |
| `audio_late` | 3 buffers, 7 blocks, a transfer may end at any point but inside `cnt++` | even an interrupt that comes much too early or late leaves the queue intact; the thread is served; what is freed is gapless |
| `audio_lostupdate` | 2 buffers, 5 blocks, at any point | a counterexample, section 8 |
| `threads` | 3 addresses, 4 creations, any number of joins and detaches | joins return, with the right result, and no memory is forgotten |
| `threads_reused` | 4 addresses, used again at once | a counterexample, section 8 |
| `midi` | buffer of 2, resynchronization counted to 3 | after any loss the parser is in step after three complete messages; the gate follows the keyboard and settles |
| `pthread` | 3 threads, a plain and a recursive mutex locked in any order, one condition variable, `pthread_once` | every mutex is a fair lock, no wakeup is lost, levels survive the waits, the function completes once and a waiting call returns |
| `serial` | ring of 3, DMA buffers of 2, 2 byte values, reads of up to 2; writes of up to 5 bytes, 8 in all, transfers of up to 2 | bytes are received and sent in order, once, and dropped only at a full ring; a reader that has a byte and every writer return |
| `scheduler` | main, two threads and idle, 2 priorities, sleeps of up to 2 ticks, pauses of the kernel not nested | lists, sleepers, preemption, and that threads take turns |

Why these bounds are enough to meet the hard cases:

- **Mutexes.** Three threads make the shortest chain (one waits for one that
  waits for a third) and two waiters of one mutex; two mutexes make nesting and
  a circle. Two priorities tell "inherited" from "own"; the third is needed for a thread
  lowered in the middle of a chain. `MaxDepth` 1 has a recursive mutex at each of
  "once" and "more than once". The threads other than `t1`, the only one that
  calls `setPriority`, may be swapped (symmetry), in a run without liveness.
  Deadlock is not an error in these runs: clients that lock in opposite orders do stop.
- **Queue.** At length 3 the ring is empty, full and in between, and both
  positions wrap; three values tell elements apart in a full ring.
- **Audio.** Two buffers is the board's setting; the third adds a state between full and
  empty in which a late interrupt matters. Blocks are twice the buffers plus one.
- **Threads.** One joiner, one target and one bystander, with main; four creations
  reuse an address at least once. The program may end with all threads waiting
  for each other's end, so deadlock is not an error.
- **MIDI.** A buffer of 2 is full, empty, and wraps. The longest message has three
  bytes; three messages is the bound `Recovery` that is found to be enough (two is
  not: one for a lost status, one for data taken for the rest of it).
- **Pthread.** Three threads make a line of an owner and two waiters, which is where first
  and last differ, and a signaller beside two sleepers. `MaxDepth` 1 gives a recursive mutex
  "once" and "more than once", so that levels can be left to the wrong owner.
  Clients may lock in opposite orders or sleep with nobody to signal, so deadlock
  is not an error.
- **Serial.** A ring of 3 with `rxQueueMin` 2 wraps, overflows by one or two bytes, and has a
  filling below and above the one that wakes the reader; half of a DMA buffer of 2 is one byte, so that its interrupt and that of the idle line
  come in every order. Writes of 5 with buffers of 2 need zero copy more than once, the copy at the end, and a next call
  while the DMA still runs. Both halves share no variable, so a behaviour runs one of them.
  A port that nobody writes to or reads from may rest, so deadlock is not an error.
- **Scheduler.** `main` with two more threads puts two on one level and one
  above or below; two ticks put sleepers in order and at the same time.
  A tick only tests whether the kernel runs, so one level of pause shows it all it can
  meet; the theorems hold for any nesting (a second level was checked once: 385,858 states).

## 6. Fairness

- `KernelMutex`: threads that were woken run their next kernel step (weak
  fairness of `LockResume`, `RelockResume`, `CondResume`), and critical sections
  end (`Unlock`). The first is what a scheduler does for a thread that nothing of
  higher priority keeps from running; the second is the client's part. `Lock` and `signal` carry no fairness.
- `KernelQueue`: `Resume`, for the same reason; the other end owes nothing.
- `AudioDriver`: the thread (`Writer`), the DMA, which ends every transfer it
  started (`TransferEnd`), and the reboot of `errorHandler`.
- `ThreadLifecycle`: `JoinResume` and `JoinRemove`. That the target ends is not assumed.
- `MidiPipeline`: the loop of `midiProcessing`, which sleeps a bounded time. The keyboard owes nothing.
- `Pthread`: a thread that yielded in `pthread_once` runs again, and the function ends,
  by returning or throwing. `pthread_create` gives all threads one priority, among
  which a yield lets the others run (`TakesTurns` of the scheduler). `OnceReturns` has the premise that the
  function does not throw for ever.
- `SerialReceive`: interrupts are served, the reader gets the processor, and the line
  pauses for the time of a byte now and then; `ReaderReturns` is for a line that is free of framing
  errors from some time on. `SerialTransmit`: the writer gets the processor, the DMA moves bytes and its interrupt is served.
- `PriorityScheduler`: the tick (hardware), the loop of `PKremoveDeadThreads`
  and the inheritance walk (`Inherited`), bounded loops with the kernel paused (the walk where owners do not wait in
a circle, see `KernelMutex`), and strong fairness of `RestartKernel` at
  each depth: who paused the kernel restarts it. Strong, because the interrupts and
  the calls in between disable it for a moment, over and over. `TakesTurns` is stated for threads that
  no ready thread is above, once priorities stop changing; without that premise a ready
  thread can be passed over for ever (section 9). The premise also bounds the walks, each of which
starts with a change of priority.

## 7. The proofs

The modules `*_proofs` hold them. All are for any number of threads, mutexes,
values, buffers or ticks, under the named assumption of each module only
(`MutexAssumption`, `QueueAssumption`, ...), which say of the constants what the
code or its documentation asks.

| Module | Theorems | By way of |
|---|---|---|
| `KernelMutex_proofs` | `TypeCorrect`, `OwnershipConsistent`, `WaitersHaveOwners`, `WakeupsArrive`, `PriorityRestored`, `HandedToHighest`, `DepthKept`, `MutexPassesToHighest`, `NeverAboveInherited`; `ExactInheritance` if clients never nest or priorities have two levels; `HangIsDeadlock` for finitely many threads; `OrderedNoDeadlock`, `OrderedNeverHangs`, `OrderedProgress` if clients lock in an order | `IInv`: what is shared (types, owner and list agree), what each thread is at each `pc`, where a waiter is queued, what the condition list holds. Ownership alone is not inductive: the handover needs that a root waits for this mutex only, which needs the place of each thread. On top of it: a thread whose priority changes is queued nowhere, or in a heap the walk restores (`RootIsHighest`); the levels a thread locked are those of the mutex, or those it keeps while in `wait()` (`LevelsMatch`). Inheritance and deadlock: see below. |
| `KernelQueue_proofs` | `TypeCorrect`, `WakeupsArrive`, `QueueRefinesFifo` | the distance of the positions is the count modulo the length; one side at most has a reason to sleep, which is why one pointer suffices; every call maps to one step of `BoundedFifo` or a stutter |
| `AudioDriver_proofs` | `TypeCorrect`, `WakeupsArrive`; `BuffersNotShared`, `BuffersAreFifo` and `PlayedInOrder` if no interrupt comes inside `cnt++` (`RaceFree`) | the counter, the positions and what the register holds while the thread is in `bufferFilled`; the filled buffers hold successive blocks, of which the last computed is the last (`Sequel`) |
| `ThreadLifecycle_proofs` | `TypeCorrect`, `NoMemoryForgotten`; `NoJoinIsLost` and `JoinIsRight` if addresses are not reused under a waiting join (`Sound`) | a joiner that waits and its target point to each other, or the target is gone |
| `MidiPipeline_proofs` | `TypeCorrect`, `NotesAreLossyFifo`; `ParserRecovers` and `GateIsRight` for `Recovery` of 3 or more | the state of the parser against the message being sent, by how many whole messages ago it was misled; the notes on their way agree with the keyboard |
| `Pthread_proofs` | `TypeCorrect`, `WakeupsArrive`, `LevelsKept`, `CalledOnce`, `MutexesAreFair`, `NobodyOvertakes` | a line has no repetition and holds exactly the threads at "lock" or "relock" for its mutex, without the owner; only a thread in line sleeps; who has no owner has no line. With these every step appends to a line, takes its first or leaves it |
| `Serial_proofs` | `TransmitTypes`, `SentInOrder`, `WriterNotLost`; `ReceiveTypes`, `SleeperServed`, `PortDropsNewest` | sending: while the DMA has bytes left its buffer is not reused, because `dmaTxInProgress` is set until its interrupt, and what it reads from the caller lies before the last `txBufferSize` bytes, which are still to be sent when it is waited for. Receiving: the end of the ring is its beginning plus its count; a byte on its way, or `idle` unset, means that the line is still to be found idle |
| `PriorityScheduler_proofs` | `TypeCorrect`, `ThreadsListedOnce`, `BlockedNeverRun`, `MissedTickIsMadeGood`, `SleepersAreListed`, `SleepersAreCountdowns`, `TurnComesNearer`, `HighestRuns` | the lists partition the threads and who runs is listed; nesting, `tick_skew` and `missed` agree; the sleeping list is sorted, without repetition and holds exactly the sleepers. Turns: the search takes the first ready thread behind the head, rotation brings those behind it nearer; only a change of priority or a walk, which starts with one, moves a thread otherwise |

### Inheritance

`InheritsHighest` is an equality. Its upper half, that no thread runs above its own priority and
its waiters' (`NeverAbove`), holds whatever the clients do (`NeverAboveInherited`): what
the walk of `lock()` gives to each owner is the priority of a thread that waits, by way of
others, for it, and every unlock computes the maximum again. The lower half fails in general
(section 8, 1), and the proof shows that it can fail in one place only. Of all the
assignments to `priority`, only the walk can lower a thread that others wait for, and it
does so only if an owner further down the chain is above the thread that blocks (`LowersNobody`). Two
hypotheses rule that out, and each is enough for `ExactInheritance`: without nesting the
chain has one owner, and with two levels of priority the thread that blocks is at the top.
`mutex_lowered`, with three levels and one mutex nested in another, shows that neither can be dropped.

### Deadlock

`InCircle(t)` says that `t` is in `Chain(o)` of the owner `o` it waits for: in every set of threads that
has `o` and, with each thread that waits, the owner that one waits for. `HangIsDeadlock` is the theorem of
`StuckIsDeadlock`: where threads all wait, and for each other only, a least set of that
kind is a circle (the library's theorem that strict inclusion of finite sets is well-founded).
In an infinite set a chain need not close; hence the hypothesis `IsFiniteSet(Threads)`,
which the memory of the machine justifies.

`OrderedNoDeadlock`, `OrderedNeverHangs` and `OrderedProgress` say what clients must do to be
safe. They assume a rank of the mutexes that rises whenever one is locked while another
is held, and `CvMutexLast`: the mutex of the condition variable is locked last, so that
`wait()` sleeps with nothing above it. The invariant is that each thread waits for a mutex that
may follow each one it holds (`InOrderInv`), which an unlock with handover, and the
lock inside `wait()`, must keep. The second hypothesis is needed: a thread that waits on the condition variable with
a mutex of higher rank still held locks the two in the wrong order when it wakes, and TLC finds
the circle in an instance where `Nesting` is an order but lets something follow `CvMutex`.
`OrderedProgress` then says that someone can always go on: behind each thread that waits for a mutex is
one that waits for none.

### What stays with TLC

Everything that must eventually happen: liveness under fairness needs ENABLED, which the prover does not
reach. For each such property the state or step it rests on is a theorem:

| Model-checked | Proved |
|---|---|
| `HandoverIsTaken` | `WakeupsArrive`, `MutexPassesToHighest` |
| `SleeperReturns` | `WakeupsArrive` of `KernelQueue_proofs` |
| `WriterServed` | `WakeupsArrive` of `AudioDriver_proofs` |
| `JoinReturns` | `NoJoinIsLost` |
| `GateSettles` | `GateIsRight` |
| `TakesTurns` | `TurnComesNearer`, `HighestRuns` |
| `OnceReturns` | `CalledOnce` |
| `ReaderReturns`, `WriterReturns` | `SleeperServed`, `WriterNotLost` |

Induction over data is out of reach as well, so no proof rests on what a recursive
definition computes. Every other property of a passing run is a theorem.

`TypeOK` of every module, `NoLostWakeup` of `AudioDriver` and `AsleepIsListed` of
`PriorityScheduler` are theorems only: a run would say less.

## 8. Where the code and its documentation disagree

1. **A chain of mutexes lowers a priority** (`mutex_lowered`). `sync.cpp:89` sets
   every owner on the chain to the priority of the thread that blocks, after
   comparing it with the first owner only. An owner further down with
   a higher priority is lowered below what it saved, against
   "max(savedPriority,inheritedPriority)" of `sync.cpp:247-248`. With two
   priorities this cannot show: the thread that blocks is above the first owner
   and so at the top.
2. **A lost decrement in the audio queue** (`audio_lostupdate`). `audio.cpp:166`
   calls `bufferFilled` with interrupts enabled. If the transfer ends between
   the load and the store of `cnt++`, the decrement is lost and the thread goes on to
   write the buffer that is played. With `audio_late` and the theorems the
   increment is seen to be the only such place.
3. **A join of a thread whose address is used again** (`threads_reused`).
   `kernel.cpp:523-525` looks for the target by its address. If a new thread lives
   there, the joiner sleeps again and nobody wakes it, against the comment at
   `kernel.cpp:483-484`.

## 9. Other observations

Met while modelling, with no run of their own:

- `tryLock` on a recursive mutex the caller owns succeeds and counts
  (`sync.cpp:203`), its documentation (`sync.h:170-171`) does not say so.
- At the end of a transfer the interrupt frees a buffer even if the queue is
  empty and then calls `errorHandler` (`audio.cpp:246`), which reboots; the comment at
  `audio.cpp:24` describes playing silence. At the end of a silent transfer it frees a buffer that was not played.
- A second join of a thread that has ended takes its result from the first (`kernel.cpp:509`; `kernel.h:620-622`).
- The LCD thread sleeps while it holds `lcdMutex` (`main.cpp:153-157`).
- `kernel_running` is `volatile int` in `kernel.cpp:70` and `unsigned char` where
  `priority_scheduler.cpp:38` and `tick_interrupt.h:39` declare it.
- The sleeping list is compared by equality with the tick (`kernel.cpp:277`), and
  `ms*TICK_FREQ` overflows for long sleeps (`kernel.cpp:357`).
- `restartKernel` called with interrupts disabled leaves `tick_skew` set (`kernel.cpp:148-156`).
- While threads are added to a level, or its head is removed, for ever, a ready
  thread of the same level may never be chosen: the search starts after the head
  (`priority_scheduler.cpp:206`), new threads go after the head (54-55, 183-191),
  removal moves the head (145-165). The inheritance walk does both to an owner that is
  at the level already (`sync.cpp:89`, 158): the thread that was next can become the head and lose its turn. No document promises turns; `TakesTurns` has the premise it needs.
- MIDI statuses the parser does not support, and real-time bytes within a
  message, are read as data; a full receive queue drops bytes (`serial_stm32.cpp:922`).
- `CircularBuffer` of size 1 puts its head out of range. `MidiIn::read` returns a byte for an error code.
- A thread that waits in `pthread_once` stays ready and yields (`pthread.cpp:360`). With
  threads of several priorities, which `Thread::create` makes, one above the initializing thread never lets it finish.
- `IRQdoMutexUnlock` reports a woken thread of higher priority when the scheduler is not EDF
  (`pthread_private.h:174`), its documentation says only with EDF (154-155), and only
  `pthread_mutex_unlock` with EDF uses the answer (`pthread.cpp:233-235`), which is then always false.
- The waiters of FastMutex and of its condition variable are first in, first out; the comments say
  "lifo policy" (`pthread_private.h:66`, `pthread.cpp:264`).
- The idle interrupt of the serial port reads the data register again to clear its flag
  (`serial_stm32.cpp:930`): without DMA a byte that arrived since the first read is lost. The DMA's receive
  interrupt may preempt that handler (543, 549) inside `IRQreadDma`.
- Without DMA a byte with a framing error is dropped and sets `idle` to FALSE (`serial_stm32.cpp:921-923`): on a line that
  never pauses and has only such bytes, a reader of a few bytes waits.
- `setPriority` is given `PRIORITY_MAX` by the audio driver (`audio.cpp:122`), which `Priority::validate`
  rejects: the audio thread keeps the priority of main. The first transfer plays a buffer that was never written (`audio.cpp:152`).
- `ControlScheduler::PKremoveDeadThreads` (`control_scheduler.cpp:102-115`), the bound of
  `ProcessPool` (`process_pool.cpp:69`), the precedence at `file_access.cpp:419` and the read and
  reset of the encoder (`encoder.h:85-87`) are in parts not modelled yet.

## 10. What is not modelled

- The EDF scheduler and the event queues: in the plan, not done. Neither is compiled into
  this board's program or used by it.
- Of the pthread interface: `destroy` of an object in use, attributes, stubs. Of the serial driver: set-up
  and tear-down, `ioctl`, flow control, what `IRQwrite` prints itself, and bytes that arrive within an interrupt handler.
- The control-based scheduler: its regulator computes in floating point.
- File system and processes: off in this board's settings; the table of file descriptors and `ProcessPool` end the plan.
- The synthesizer: generated by Faust, floating point. Conversion of samples and the
  double buffer: arithmetic without concurrency.
- Context switch, stacks, stack checks, assembly, registers of the peripherals,
  the DAC over I2C, display and controls: hardware, no state that others rely on.
- Time: the tick count itself, how long anything takes, and so whether the audio
  meets its deadlines. Where the order depends on time a module lets it happen in any
  order it names (`Interruptible`).
- Timer, intrusive lists, time conversion, logging, boot, C and C++ library
  glue, examples and tools: small or pure, see `PROJECT.json`.
