# Real-Time Data Transfer: specifications, model checking and proofs

The library runs a loop at a fixed frequency. Once per tick it asks a user's
function for a list of packets and gives it to a *sender*, whose worker thread
writes the packets to one TCP client. A *timer* sleeps to the next tick. This
directory holds TLA+ models of the three, the TLC configurations that check
them, and TLAPS proofs about each of them.

## 1. Inventory

| Component (source) | State it keeps | Operations |
|---|---|---|
| **TCPSender** (`src/senders/tcp_sender.cpp`, `includes/tcp_sender.h`) | `initialized_`, the listening and the client socket, an error; in `SenderWorkerData` (`includes/data_packets.h`) six atomics, a pointer to the user's list, a mutex and a condition variable | `initialize`, `send`, `is_send_done`, `end_sender`, `get_error`, destructor; the worker's function |
| **TCPSenderZC** (`tcp_sender_zc.cpp`) | as TCPSender, and in the worker two counters: the calls made with `MSG_ZEROCOPY` and those the kernel has answered on the error queue of the socket | as TCPSender |
| **Sender** (`includes/sender.h`) | none: the interface | as above |
| **RealTimeSystem**, RealTimeInfo (`src/systems/real_time_system.cpp`) | the timer, the sender, the user's function, frequency, tolerance, skip mode, `initialized_`; in `run` the current list, the count of skipped slots, the tolerance used | the setters, `initialize`, `send_before_run`, `run` |
| **Timer** (`includes/timer.h`) | none: the interface | as below |
| **BusyWaitTimer, FreeWaitTimer, WorstCaseTimer** (`src/timers`) | start time, slot in picoseconds, tick counter, next tick, started or not, an error | `initialize`, `set_frequency`, `start_timer`, `stop_timer`, `sleep_to_next_tick` |
| **timers_utils** | none | conversions, `TIMESPEC_DIFF_NS`, `ADD_NS_TO_TIMESPEC`, the sleeps |
| **MutexRAII, AtomicValRAII** | whether the mutex is held; the value to store at the end | lock, unlock, destructor |
| **Error** | a message and a flag | set, get, clear |
| tests, receiver example, scripts | - | programs that use the library; set-up of a machine |

**How they interact.** `run` is a single thread (priority 99, SCHED_FIFO,
core 0). It calls the timer and the sender as objects. The sender's worker is a
second thread (priority 98, same core); it and its owner share
`SenderWorkerData` only. `packets_list` and the wait on the condition variable
are protected by the mutex, the other fields are atomics read and written
without it. The list passed to `send` is not copied by `send`: the sender keeps
the caller's pointer until the worker copies the list.

**What is hard.**

- Every flag is polled by somebody: `end_sender` polls `is_terminated_thread`,
  `initialize` polls `thread_initialized`, `run` polls `is_done`. A flag left
  unset on one path is a thread that waits for ever; one set too early is a
  socket closed under a thread that writes to it.
- The worker ends through a macro that calls two destructors by hand and then
  `pthread_exit`. Nobody joins it.
- `send` looks at `is_done` without the mutex and writes it with the mutex.
- `end_sender` sets the termination flag without the mutex.
- The zero-copy worker reports a list done when two counters agree, one of
  which the kernel moves, late and several calls at a time, on a queue that
  outlives every list. `poll` gives up after a second, and the loop that waits
  does not look at the termination flag.
- `run` reads `is_send_done` up to three times in a slot, and it can change in
  between. It overwrites the list it gave to the sender.
- A client is given up after `3 * frequency_` slots skipped in a row.
- Tick times are products of a rounded slot and a counter, reset at 2^23.

**What makes each component correct.** TCPSender: a list reported done is
wholly sent; at most one worker; sockets outlive their worker; no lost signal;
no mutex left locked; the error reported is the one that happened; every call
returns; it behaves as the Sender interface. TCPSenderZC: the same, where a list
is sent only when the kernel has let go of its buffers. RealTimeSystem: ticks are kept if
the tolerance is; `send` is only called on a sender that is free; data of a
skipped slot is not sent; no list is destroyed while the sender points to it; a dead client
is noticed, a live one is not given up early; a run that ends leaves a closed
sender. Timers: never back before the tick, ticks a slot apart over resets,
no overflow, bounded drift.

## 2. Modules

| Module | What it is | Proved about in | Model-checked with |
|---|---|---|---|
| `Sender` | the interface of senders as six phases: an abstract specification | - | through the modules below |
| `Timer` | the interface of timers as a clock: an abstract specification | - | through the modules below |
| `TcpSender` | TCPSender and its worker threads | `TcpSenderProofs` | `MCTcpSender` |
| `TcpSenderZC` | TCPSenderZC: `TcpSender` with another way to send, and the kernel | `TcpSenderZCProofs` | `MCTcpSenderZC` |
| `RealTimeSystem` | the system, on top of an instance of `Sender` and one of `Timer` | `RealTimeSystemProofs` | itself |
| `TickTimer` | the three timers | `TickTimerProofs` | itself |
| `Division` | lemmas on products and quotients of natural numbers | itself | - |

`TcpSender` implements `Sender` (`Contract == INSTANCE Sender WITH phase <- Phase`),
and so does `TcpSenderZC`, with the same mapping. `RealTimeSystem` instantiates
`Sender` on its variable `phase` and knows nothing else of the sender, so what is
checked and proved of `RealTimeSystem` holds with either of them. In the same way
`TickTimer` implements `Timer` (`ImplementsTimer`), and `sleep_to_next_tick` in
`RealTimeSystem` is `T!Ticks` or `T!Missed` of an instance of it: it fails when
the tick is past and otherwise returns at the tick or up to `Late` after it. The
nanosecond by which slots differ (`RoundOff`) is below the unit of time of
`RealTimeSystem`.

### TcpSender

The owner is one thread that calls the public operations in any order, `opc`
says where it is in a call. Each access to an atomic, each mutex operation and
each socket call is a step. A critical section of the owner is one step, taken
with the mutex held: no other thread reads what it writes without the mutex,
except `is_done`, which it writes once. `wpc[w]` says where thread `w` is in
`tcp_worker_function`; one operator per statement, `Exit` and the three
`WorkerExit` steps are `END_THREAD_ERROR`. The destructor of the class is a call
of `end_sender`.

- A list is a number of units and a tail: what the worker meets after them, the
  end, a packet of an unsupported type, or a file shorter than its packet, for
  which `sendfile` returns 0 for ever. One call of `send`/`sendfile` sends any
  number of units, at least one, or fails; contents, sizes in bytes and offsets
  are left out.
- A socket is its descriptor: none, open, or the number of one that was closed.
- `pthread_cond_wait` may return without a signal.
- `pthread_exit` unwinds the stack of the worker, so the object that
  `END_THREAD_ERROR` destroyed by hand is destroyed again. That is undefined
  behaviour; `WorkerUnwind` lets the second destruction store
  `is_terminated_thread = true` once more, or not.
- `FifoExit` says whether an ended thread has unwound before the next
  `pthread_create`. On one core, with SCHED_FIFO and the owner asleep for 50 ms
  in its poll, it has: the worker goes on from its store to its unwinding
  without giving up the core. Nothing in the code makes it so. The safety
  results assume it, and one run shows what happens without.
- `debt` is a history variable, the units accepted in this session and not yet
  sent. No guard reads it.

### TcpSenderZC

The two classes share every line but those that send, so the module extends
`TcpSender`. Owner: the operations are those of `TcpSender`, each wrapped in
`OwnerZC`, which adds what closing the socket does to the kernel. Worker: all
statements are those of `TcpSender` except in `wpc` "send" and "done".

- `SendZeroCopy` is a call that sends from memory and counts; `SendPlain` one
  that uses `sendfile`, fails, or sends nothing.
- "done" is the head of the loop `last_sending_counter < sending_counter`.
  `Finish` leaves it, `Poll` enters "reap" or gives up, `Reap` is `recvmsg` and
  `read_notification_zc`: it takes the first answer, whatever number of calls
  `n` the kernel merged in it, and the worker adds `n` to
  `last_sending_counter`.
- The kernel is two numbers: calls whose buffer it still reads (`reading`), and
  calls it is done with and has not yet been asked about (`notified`). What
  matters of an answer is only how many calls it covers, since that is all the
  code uses of it. `orphaned` is TRUE when it reads a buffer for a socket that
  was closed. `Acknowledge` may happen at any time, or never.
- `recvmsg` may fail and an answer may be refused: the code leaves fields of
  `msghdr` unset that `recvmsg` reads, and compares level and type with those of
  IPv4 only, while `create_server` may open an IPv6 socket. Both are
  nondeterministic choices.
- `int` has `IntMax` as its largest value and `AsInt` wraps around (overflow of
  a signed number is undefined behaviour; this is what the processor does).
- `WithinBound` keeps a session within `CallBound` calls: `send` is not called
  with a list that, one unit a call, could exceed it.

### RealTimeSystem

`pc` is the place in `run` or `send_before_run`. Between any two steps of it the
worker of the sender may take the list, complete it, or fail. Time (`now`) is
measured from the last tick, in units of which half a millisecond has `HalfMs`.
A sleep of any kind ends up to `Late` units after the time asked for, the user's
function takes up to `UserCost`.

- Priority 99 over 98 on one core means that the worker is sure to run only while
  the owner blocks. `WorkerRan(from, to)` says that a sleep that blocks for
  `TurnTime` or longer leaves no list untaken; of a shorter one nothing is said.
  `SpinTime` is the end of a slot that `sleep_to_next_tick` spends spinning: 0 in
  FreeWaitTimer, the delay in WorstCaseTimer, the whole slot in BusyWaitTimer. How
  long the timer blocks follows from that and from how much of the slot is gone, so
  even FreeWaitTimer leaves the worker nothing when it is called at the tick.
- The list is what it holds: the first list, data the user wants sent, data
  given in a skipped slot, or nothing once it is destroyed. `carried` is what
  the worker copied.
- A part may be missing, a frequency of 0 or too large is refused, and
  `initialize` may fail at any check.
- `run` returns when `start_timer` fails (`real_time_system.cpp:163`). That cannot
  happen with the timers of the library, which refuse only to start twice:
  `initialize` has stopped the timer, and `run` needs a new `initialize` each time.
  The model leaves that return out.
- `skip_next_data_` is what the user's function is told of the slot. The sequence
  number and the delay it is told too, the text of errors and the set-up of the
  real-time thread (beyond its failure) are left out: nothing depends on them.
- `waiting` is a history variable, the time since `send` accepted the list in
  flight.

### TickTimer

The three classes differ only in how they wait, so `kind` is the class of the
object. Arithmetic is that of the code, scaled: `SecondNs`, `PsPerNs`, `Word`
for 10^9, 1000, 2^64 and `ResetAt` for 2^23. A `timespec` is a pair and the
macros work on the pair. Fields that no constructor sets, `start_time_` among
them, hold any value of `Garbage`. `steady`, `origin`, `rounds` are history
variables; `Started` says that `start_timer` was called, and `origin` is -1 until
then. What a sleep on a timer that was never started does depends on garbage, so
`OnTime` and `StartNotAhead` speak of started timers; `timer.h` asks for that
order of calls.
`set_frequency(0)` divides by zero; the system refuses that frequency
(`real_time_system.cpp:79`), and the model leaves it out.

The last part of the module maps it to `Timer`: `SinceTick` is the clock counted
from the tick before, and until `sleep_to_next_tick` returns it does not go past
the tick. The timer is `running` while it was started with a frequency that has
not been changed since (`steady`); the order of calls that breaks this is
allowed in the module, and `OnTime` and `StartNotAhead` are checked in it too.

## 3. Runs

Passing runs:

| Run | Question | Properties |
|---|---|---|
| `sender_promises` | the hand-over between owner and worker over two sessions, with every end of a list and every failure; no call waits for ever, no list is forgotten, a list that is queued is taken | `TypeOK`, `DoneMeansSent`, `TerminatedMeansNoThread`, `OneWorker`, `SocketOutlivesWorker`, `NoLostWakeup`, `MutexHeldByRunning`, `ErrorFaithful`, `ImplementsSender` (refinement), `CallsReturn`, `SendResolves`, `QueuedIsTaken` |
| `zc_safety` | is a list done only when the kernel reads none of its buffers, do the counters and the kernel agree however it merges its answers, and is it still a Sender whose calls return | `TypeOKZC`, `ReleasedBeforeDone`, `EveryCallAnswered`, `ImplementsSender` (refinement), `CallsReturn`, `SendResolves` |
| `system_safety` | the loop, for every configuration and every behaviour of the sender; it notices a sender that has ended | `TypeOK`, `TicksKept`, `NeverBusy`, `SkipHonoured`, `QueuedListAlive`, `ThreeSeconds`, `RunEndsSender`, `DeadSenderNoticed` |
| `timer_safety` | the three timers over several resets, for every order of the calls | `TypeOK`, `OnTime`, `StartNotAhead`, `ExactFrequencyKeepsPace`, `SlotLength`, `ImplementsTimer` (refinement) |

Runs that show a disagreement between the code and what it says of itself:

| Run | Property | What the code does |
|---|---|---|
| `sender_late_unwind` | `TerminatedMeansNoThread` | The second store of an ended worker, made while `pthread_exit` unwinds, can fall after the start of the next worker and declare it ended. The next `end_sender` then closes its socket. Needs `FifoExit = FALSE`, the order the scheduler makes unlikely. |
| `sender_setup` | `InitializedMeansSetUp` | The worker sets `thread_initialized` before its set-up, so `initialize` returns true for a worker whose set-up then fails. |
| `system_spinning_timer` | `SkippedNotSent` | A skipped slot assigns to the list the sender points to. With a timer that spins through what is left of the slot, the worker has had no time to copy it, and the data to be ignored is sent. A delay of WorstCaseTimer longer than what is left is enough. |
| `system_reinitialize` | `InitializedHasSender` | An `initialize` that fails in the sender, after one that did not, leaves `initialized_` as it was: `run` is let in with a sender that has closed its session. |
| `system_before_run` | `SentBeforeRun` | `send_before_run` ignores the result of `send`, and a sender whose worker ended is "done". |
| `timer_pace` | `KeepsPace` | A frequency that does not divide 10^12 makes ticks earlier and earlier; the comment promises an error of 1 ns each 2^23 ticks. At 3 Hz a third of a picosecond a tick: a nanosecond after 3000 ticks, 2.8 microseconds at the reset. |
| `zc_overflow` | `ReleasedBeforeDone` | The counters of a session are `int`s that nothing resets. The call after the largest one makes `sending_counter` negative, the loop that waits is not entered, and the list is done while the kernel reads it. At 1000 packets a second that is after 25 days of one session. |
| `zc_orphans` | `EndReleases` | A worker that sees the termination flag between two calls, or fails, leaves without waiting for the answers; `end_sender` closes the socket and returns while the kernel still sends from the user's buffers. |

### Bounds, and why they are enough

- `Worker = {w1, w2}`: two sessions, so each hazard that needs the end of one
  and the start of the next can happen. When the threads are used up
  `pthread_create` fails, as it may anyway. A third worker meets the same flags:
  at most one is active and `initialize` resets the rest, and the proofs cover
  any number.
- `AllLists`: a list that is sent in one call or in two, one that stops the worker
  before anything of it is sent, one that keeps it for ever. Owner and worker never
  look further into a list.
- `SecondMs = 4`, frequencies 1 and 2 (0 and 3 are refused), tolerances within
  the slot and far beyond it, `HalfMs` of 4 units so that lateness (1) and the
  user's function (2) are fractions of a step. Disconnection comes after 3 and
  after 6 skipped slots. `ReserveMs = 1` stands for the 5 ms of line 105.
  `TurnTime = 3` is less than half a millisecond, so that a tolerance leaves the
  worker a turn; with `SpinTime = 12` the sleep of a slot of 32 units leaves it one
  and, when sleep and user are at their slowest, that of a slot of 16 does not.
  `SkipHonoured` speaks of the first and of a tolerance; `TicksKept`, `ThreeSeconds`
  and the others hold in every case.
  `WaitBound` stops `waiting` where no property tells values apart any more.
- `TcpSenderZC` has one worker, a single session: its counters are locals of the
  worker and the queue goes with the socket, so nothing of it is left for a
  second session but `orphaned`; restart is the subject of `TcpSender`, and two
  sessions with a kernel have more than 13 million states. Four calls are two
  lists of two, so that an answer may cover calls of both lists, or arrive after
  the list it belongs to. `IntMax = 7` is out of reach in `zc_safety`
  and `zc_orphans`; in `zc_overflow`, `IntMax = 1` is passed by one list.
- `ResetAt = 3`, `SecondNs = 7`, `PsPerNs = 2`: slots of 3.5 ns and 1 ns, so
  that rounding matters, an exact frequency and one with a remainder; `Word = 60`
  is just above what a counter that is reset needs and below what one that is
  not reset reaches. `MaxClock` leaves time for the reset and a tick after it at
  the slowest frequency, for several resets at the fastest. `Late = 2` and delays of 1
  and 2: a WorstCaseTimer whose sleeps end before, at and after its tick. In `timer_pace` the
  loss of a round of three ticks is larger than a nanosecond, as it is for the
  real constants.

Deadlock is checked in every run.

### Fairness

`TcpSender!Fairness`: weak fairness of the owner inside a call (it always
sleeps or blocks in its loops, and is the thread of highest priority), weak
fairness of each worker (it runs whenever the owner blocks; its socket calls
return within the one second timeout set on the socket), and strong fairness of
the owner's two lock operations (with the higher priority on the same core it
takes a mutex that a worker keeps releasing). There is none on `accept`, which
may block for ever, so `InitClient` is excepted from `CallsReturn`; none on the
user's calls; none on spurious wake-ups. `RealTimeSystem!FairSpec`: the loop goes
on and the user's function returns. Nothing is assumed of the worker: the client
may stop reading, and being noticed then is what the counter of skipped slots is
for. That a worker takes its list at all, given the core for long enough
(`WorkerRan`), is `QueuedIsTaken` of `TcpSender`.

`TcpSenderZC!FairSpecZC` is the same for its threads; the kernel owes no answer.
That `CallsReturn` and `SendResolves` hold all the same is what the timeout of
`poll` is for.

`SendResolves` has one exception, a worker in the loop of `sendfile` at the end
of a short file (`AtShortFile`): it calls `sendfile` for ever, which only
`end_sender` ends. That `end_sender` does end it is `CallsReturn`.

## 4. Proofs

### TcpSenderProofs

For every set of threads, every set of lists and any number of sessions:

| Theorem | Establishes |
|---|---|
| `Invariance` | `Spec => []IndInv` |
| `TypeCorrect` | `TypeOK`; no more is sent than was accepted |
| `DoneIsSent` | `DoneMeansSent` |
| `OneWorkerAtATime` | `OneWorker` |
| `TerminatedIsTrue` | `TerminatedMeansNoThread` |
| `SocketIsSafe` | `SocketOutlivesWorker` |
| `SignalIsSeen` | `NoLostWakeup` |
| `MutexIsReleased` | `MutexHeldByRunning` |
| `ErrorIsReported` | `ErrorFaithful` |
| `Implementation` | `ImplementsSender` |

All are stated under `ASSUME FifoExit`; without it `sender_late_unwind` is a
counterexample to `TerminatedMeansNoThread`, and with the same configuration TLC
also refutes `DoneMeansSent`, `SocketOutlivesWorker`, `MutexHeldByRunning` and
`ErrorFaithful`: the assumption cannot be dropped for those either. The other
assumptions are `TcpSenderAssumption`: lists are of the shape the model gives
them, and the names used for "nobody" are not threads.

None of these properties is inductive. `IndInv` adds, part by part, what makes
them so:

- `WorkerInv`: a worker in `start` or `announce` is one that `initialize` is
  waiting for; an active worker past `start` has cleared `is_terminated_thread`;
  a worker that is unwinding leaves no active worker; and between `end_sender`'s
  poll and `pthread_create` no worker is active. This is the argument for
  `OneWorker`, and the one place `FifoExit` is needed.
- `SocketInv` and `SessionInv`: which flags hold at each place of the owner.
- `MutexInv`: who holds the mutex, exactly.
- `DataInv`: what is owed is `Units` of the list queued, or of what is left in
  the worker's copy, never both, and `is_done` is false in either case.
- `WakeInv`: a worker that has found no list and no termination signal still
  holds the mutex, so a signal given with the mutex held cannot fall between its
  check and its wait.
- `ErrorInv`: an end without error happens on a termination signal only, and a
  session found ended has a worker whose cause is the code recorded.

There is a lemma per part and a step per action in each. For `Implementation`,
`PhaseStep` shows that each step maps to a step of `Sender` or leaves the phase
alone.

### RealTimeSystemProofs

For every maximal frequency, every set of frequencies, tolerances and time limits
the user may ask for, every unit of time, lateness and cost of the user's
function, and every behaviour of the sender that `Sender` allows:

| Theorem | Establishes |
|---|---|
| `Invariance` | `Spec => []IndInv` |
| `TypeCorrect` | `TypeOK`; the unsigned tolerance and time limit do not step below zero |
| `NeverSendsBusy` | `NeverBusy` |
| `ListOutlivesQueue` | `QueuedListAlive` |
| `KeepsTicks` | `TicksKept` |
| `SkipIsHonoured` | `SkipHonoured` |
| `EndsSender` | `RunEndsSender` |
| `ClientGetsThreeSeconds` | `ThreeSeconds` |

The assumption is `RealTimeSystemAssumption`: numbers are natural numbers, and at
the largest frequency a slot is no shorter than the reserve of line 105, without
which the subtraction of that line wraps around. Of the time the worker needs and
the time the timer spins it says only that they are numbers. Where they leave the
worker no turn, the data of a skipped slot may be sent: the condition is the
conclusion's (`WorkerHasTurn`), and `system_spinning_timer` is a counterexample
outside it.

`IndInv` is `TypeOK`, `TicksKept` and:

- `Tuned`: what `initialize` checked and clamped holds wherever an operation may
  start or is running, because every setter undoes `initialize` and none is
  called while `run` is. `ClampFits` is the arithmetic of line 105 (division is
  monotonic: `DivMono`).
- `ListInv`: the sender has no list in hand where `run` found it done, because
  only `send` can change that; and a list that is queued is one of the operation
  under way, because every return finds the sender done or ends it.
- `ClockInv`: a bound of `now` at each place in the slot: the lateness of the
  sleep before, a turn of the tolerance each at most half a millisecond and
  `Late`, the user's function. `NoMiss` is the argument for `TicksKept`: with the
  tolerance at most a slot less the reserve, the sum stays within the slot if the
  overhead fits in the reserve.

`SkipHonoured` needs `TurnInv` as well, which says how far a list that is queued
can be. Without tolerance it is taken in the sleep of its slot: `ClockInv` bounds
what is gone of the slot, and `WorkerHasTurn` says that what is left is long enough
(`SleptTurn`). With tolerance it may outlast the sleep, but not the first turn of
the loop in the slot after, before anything is skipped (`ToleratedTurn`); that there
is a turn is `used_tolerated_time = 0`. The configuration that decides this is fixed
while `run` is running (`StepConfig`). `ThreeSeconds`
needs `SkipInv`: `k` skipped slots mean that the list in flight has waited at
least `k` slots and what has passed of this one, and at most a slot more.
`PassKeeps` (time that passes is waited), `StepSkip` (a sleep adds what is left
of the slot) and `WaitBounded` are its steps.

### TickTimerProofs

For each of the three timers, every frequency, `ResetAt` and `Word`, all values of
the fields that no constructor sets, and every order of the calls:

| Theorem | Establishes |
|---|---|
| `Invariance` | `Spec => []IndInv` |
| `TypeCorrect` | `TypeOK` |
| `DifferencesDoNotWrap` | `StartNotAhead` |
| `ComesBackOnTime` | `OnTime` |
| `KeepsExactPace` | `ExactFrequencyKeepsPace` |
| `TicksASlotApart` | `SlotLength` |
| `TimerImplemented` | `ImplementsTimer` |

There are two assumptions. `TickTimerAssumption`: the constants are numbers, and a
second of picoseconds times `ResetAt` (10^12 * 2^23) is below `Word` (2^64), which is
why the counter is reset there. `UptimeAssumption`: the clock, and a sleep as long
as the arithmetic can ask for, are shorter than `Word` nanoseconds, 584 years.

The lemmas at the head of the module say what the macros compute: `AddNs` that
`ADD_NS_TO_TIMESPEC` adds and normalises, `DiffNs` that `TIMESPEC_DIFF_NS` is the
difference of the times if it does not wrap, `SleepTimeExact` that the product of
slot and counter does not overflow up to the reset. `IndInv` is `TypeOK`,
`StartNotAhead`, `OnTime` and:

- `KindInv`, `FrequencyInv`: the class keeps its delay, the slot is the quotient of
  the frequency.
- `RangeInv`: the sleep of a started timer ends before a difference wraps, and the
  clock is in range where it is read.
- `SpinInv`: a timer that spins is before its tick, or, in WorstCaseTimer, late by
  no more than its blocking sleep less the delay kept.
- `SteadyInv`: a timer that runs at an unchanged frequency sleeps for the product
  of its slot and its counter, and the counter is at most `ResetAt`.
- `PaceInv`: each start over moves the time it counts from by a round of slots and
  at most a nanosecond, if the frequency divides a second. `SlotPace` is its
  arithmetic. Without the divisibility it is false: `timer_pace`.

`TicksApart` covers the two cases of `SlotLength`, within a round and across the
reset. In `TimerImplemented` each step maps to `Pass`, `Start`, `Stop`, `Ticks` or
`Missed` of `Timer`, with time counted from the tick before.

### TcpSenderZCProofs

For every set of threads, every set of lists and any number of sessions:

| Theorem | Establishes |
|---|---|
| `InvarianceZC` | `SpecZC => []SenderInv` |
| `TypeCorrectZC` | `TypeOKZC` |
| `ProtocolKept` | the seven safety invariants of `TcpSender`, of `SpecZC` |
| `ImplementationZC` | `ImplementsSender` |
| `CountsAgree` | `SpecZC => []CountInv` |
| `AnswersAreComplete` | `EveryCallAnswered` |
| `DoneMeansReleased` | `ReleasedBeforeDone` |

All assume `FifoExit`, as for `TcpSender`. The last three assume also
`CallBound <= IntMax`: a session makes no more calls than an `int` counts. That is
needed, and `zc_overflow` is the run without it.

`SenderSteps` says that a step of TCPSenderZC is one of TCPSender, leaves its
variables alone, or is a wait for answers (`Await`). For the first,
`TcpSenderProofs` is used again: its step lemmas take the sets of statements and
of errors as parameters (`Types(pcs, codes)`), and `ProtocolStep` is their sum. For
the last, `ReapInv` says that a worker between `poll` and `recvmsg` still has a list
in hand, wholly sent and not reported.

`CountInv` is the two properties and:

- `BoundInv`: the calls made and those the data owed, or pending in `send`, may
  still need are within `CallBound`; so `sending_counter + 1` does not wrap
  (`CountCall`). `last_sending_counter` does not because an answer covers only calls
  that were made (`CountReap`).
- `FreshInv`: a worker that is created counts from 0 on a socket without calls or
  answers, since closing the last one took them with it.

A worker leaves its loop when the counters agree; the calls unanswered are those
read and those notified, so both are 0 (`AllAnswered`), and `is_done` is set then
only. `last_sending_counter < sending_counter` would not do without
`EveryCallAnswered`: an answer counted twice, or left over from another socket,
would let a list finish early.

In all of these modules there is a lemma per part of the invariant and a step per
action in each. `SenderInv` and `CountInv` were checked by TLC with two workers
before they were proved.

### Only model-checked

The liveness properties `CallsReturn`, `SendResolves`, `QueuedIsTaken` and
`DeadSenderNoticed`, which stay with TLC for good: the prover has no ENABLED.
The properties of the runs that show a disagreement are not proved, since they
are false. Every other property of every run is stated by a theorem.

## 5. Not modelled

- What `read_notification_zc` reads in the control message, beyond the number of
  calls an answer covers and whether it is accepted; the size of the calls.
- The text of `Error`: it is a flag that is set and cleared, `error_` of the
  models.
- `lock_non_block` of MutexRAII: nothing calls it.
- Leaks (threads that are not joined, `getaddrinfo` results on error paths,
  attribute objects): they touch no state of the protocol.
- `convert_rt_thread`, the priorities and the affinity, except as failures and
  as the justification of fairness.
- The tests, the receiver example and the scripts, which are read for the way
  the operations are called.

Four disagreements were met that no run is about. After a failed `bind` the
number of a closed descriptor stays in `server_sock_fd_` and the next
`end_sender` closes it again (`tcp_sender.cpp:174`; the state is in the model).
`real_time_system.cpp:226` reports the tolerance used in half milliseconds where
line 205 divides by two. The timers do not check what `timer.h` says of the
order of calls (lines 58, 75): `start_timer` and `sleep_to_next_tick` succeed
without a frequency or a start, on fields that hold garbage. And `set_frequency`
succeeds on a timer that runs (line 40 says that it fails): the slots already
counted are counted again at the new length, so that the next tick jumps, with a
higher frequency into the past. `SlotLength` and `ImplementsTimer` leave such a
timer out (`steady`); `OnTime` and `StartNotAhead` do not, but the jump breaks
neither. `RealTimeSystem` makes none of these calls, and `TickTimer` models all of
them.

## 6. Plan

Done: all the modules of section 2, and a theorem for each safety property, action
property and refinement that the passing runs check.

Next:

1. `FifoExit` weakened to what the proof of `OneWorker` needs: that the second
   store of an ended worker comes before the next worker clears the flag.
2. The composition of `TcpSender` with `RealTimeSystem` on a small instance,
   where the phases of `Sender` and the worker's turn (`WorkerRan`) are not
   assumed.
