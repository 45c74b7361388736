# rpe_tools: a TLA+ verification project

rpe_tools is a small C++ library: thread wrappers (`Runable`, `OneShot`), thread-safe
queues (`TSQueue`, `TSPriorityQueue`), a mailbox registry (`MessageManager`), a GPIO
driver that runs a callback thread (`SysFSGPIO`), a child-process wrapper (`POpen`), a
serial port, and small helpers. Its difficulty is in the order of things: a thread that
deletes the object its creator is still using, a flag set by one thread and cleared by
another, a reference used after the lock is gone, a destructor that runs under a thread.
The modules here model those orders; TLC explores them on small instances, and TLAPS
proves the central results for every number of threads, objects and items.

## Inventory

| Component | Source | State it keeps | Operations | What is hard | What makes it correct |
|---|---|---|---|---|---|
| Runable | `include/Runable.hpp` 99-268 | `_thread`, `_run`, the virtual table during destruction | start, stop, join, detach, isRunning, destructor, `runThread` | one unlocked object, two threads; the flag is written by both; destruction order | at most one thread; no use of freed or destroyed parts; a stop is obeyed that comes after the thread's own `_run = true` |
| OneShot | `include/Runable.hpp` 308-385 | `_thread`, its own memory | start, `runThread`, destructor | the new thread deletes the object under `start()` | freed once, with its std::thread, and not under the start() that still uses it |
| TSQueue | `include/TSQueue.hpp` | a queue, a mutex, a condition variable, a bound | push, front, pop, empty, size | references and size without the lock, one condition variable, the full queue | a FIFO channel, lossless or dropping the oldest; no lost wakeup |
| TSPriorityQueue | `include/TSPriorityQueue.hpp` | the same without a bound | push, front, pop, empty, size | as TSQueue | not modelled: `front()` cannot be instantiated |
| MessageManager | `include/MessageManager.hpp` | a map of mailboxes, each a queue and a mutex; `_maxSlots` | setMaxSlots, sendMessage, getMessage | the map has no lock; tests before locks | each slot a FIFO box; no two threads in the map at once; no more slots than the maximum |
| SysFSGPIO | `src/SysFSGPIO.cpp` | the sysfs directory, `_doTeardown`, `_fd` | constructors, export, setValue, getValue, unexport, destructor | several controllers of one GPIO; every file may fail | the GPIO is left as it was found |
| its callback thread | `src/SysFSGPIO.cpp` 134-238, 476-529 | the kernel's edge notification, `run()` | `run()`, stop, destructor | `poll()` without timeout; edges between polls; the destructor | no last edge missed; stop obeyed; clean destruction |
| POpen | `src/POpen.cpp` | pid, two streams, two descriptors | run_command, close, kill, terminate, isRunning | error paths, reaping, stale pids, descriptors other threads get | no end of a pipe leaked, no child forgotten, no signal to anybody else |
| serial | `include/serial.hpp` 78-652 | the kernel's flags and two queues of one port; counts in a call | configure, read, write, clear_input, clear_output | threads that share a port; short and refused transfers, signals, timeouts, a device that goes | the settings of one caller, never a mixture; counts of bytes that were moved, in order; a call with a timeout returns while the port is quiet |
| AtomicMtx, SharedReference, Singleton, NONCOPY | `include/` | | | | see *Not modelled* |
| TestRPE | `src/TestRPE.cpp` | | the uses: a chain of shots, two Runables | | supplies the environment of `OneShot` |

Components interact by inheritance and calls: `SysFSGPIO` is a `Runable` and overrides
only `run()`; `TestRPE` drives `OneShot` and `Runable`; `MessageManager` is meant to be a
`Singleton`. There are no messages between processes; what objects share is memory, the
kernel's sysfs directory, and files.

## Modules

| Module | Models | Abstract specification |
|---|---|---|
| `Runable` | the owner's calls and `runThread()` of up to a few threads | `WorkerSlot`: a slot that holds at most one thread and is empty when it is torn down |
| `OneShot` | `start()`, `runThread()` and the destructor of several heap objects | `FireOnce`: a shot is executed once, exists as long, and is then gone |
| `TSQueue` | producers and consumers on one queue | `Channel`: FIFO, lossless or dropping items |
| `SysFSGPIO` | several objects that construct, use and destroy one GPIO | |
| `GPIOCallback` | one callback object; EXTENDS `Runable` and adds the kernel, the loop and the class's destructor | `Runable` itself, through `Inherited`, and `WorkerSlot` |
| `MessageManager` | senders and receivers on one map of mailboxes | `Mailboxes`: a FIFO box for each slot |
| `POpen` | one object's constructors and methods, its child, other threads that open and close files | |
| `SerialPort` | several threads that configure, read or write one port, the kernel's side of it, the device | |

`MCMessageManager` names an instance for TLC that needs definitions; the other
components are instantiated by their `.cfg` files alone. `..._proofs` modules hold the
theorems.

Some choices belong to a use and not to a step: whether a client is careful, or whether
threads run out. They are *rigid variables*: Init picks them and no step changes them, so
that one run covers every use and a property says which of them it is about
(`proper => ...`), as does the theorem.

### How state and actions correspond to the code

* **Runable.** `run` is `_run`; `thread` says which std::thread `_thread` points to and
  `handle` what has become of it, so that a pointer to a deleted one is a state
  (`Dangling`); `wpc` is the place in `runThread()`; `obj` is the dynamic type during
  destruction. Each access to `_run` and each wait is a step. The owner is one thread, as
  the class has no lock; `stop()` may come from anyone. `proper` says that the derived
  destructor stops and joins (the class cannot do it in time), that nobody detaches, and
  that threads can be made; `RunEnds` whether `run()` can return by itself (`ThreadTest`) or
  only as a `while (_run)` loop does (`SysFSGPIO`). `fault` records the first undefined
  behaviour, pure virtual call or escaping exception; nothing is defined after it.
* **OneShot.** `start()` has three visible steps: the thread exists (`Create`), its address
  is stored in `_thread` (`Store`), it is detached (`Detach`). The thread's steps are the
  return of `run()`, the deletion of the std::thread in the destructor, the release of the
  memory. Nothing in `Runable.hpp` (330-345) makes run() wait for start(), and in `TestRPE`
  it is only a matter of timing, so the model lets the thread run ahead. The history variable
  `slips` records the two orders that go wrong: "early", the thread destroyed the object
  before its start() had stored and detached; "again", a shot that had a thread was started
  once more. No guard reads it. `plenty` (rigid) says that a thread can always be made.
* **TSQueue.** A critical section is one step. Items are numbered in the order in which they
  are pushed. `blocking` (rigid) is `m_blocking`, `users` (rigid) the consumers that ever
  call: with one of them the queue promises more. `Read` is the caller's use of the
  reference. `capacity` (rigid) is `m_size`, 0 included: `push()` into a queue that drops
  and holds nothing pops an empty queue (`PushBurnNothing`). `empty()` and `size()` are two
  loads in either order (`LoadFirst`, `LoadSecond`), and `size` is modulo `SizeLimit`, which
  stands for 2^64. A deque reads more words than two for its size; the model keeps the two
  that a push and a pop move, which decide the comparison with 0. A blocking `push()` on a
  full queue holds the mutex and waits for it (`relock`).
* **SysFSGPIO.** One step per sysfs file. `found` and `failing` are chosen at the start and
  stay: whether the GPIO was exported before, and whether files may fail to open.
  `exported`, `direction` and `value` are the kernel's; the kernel refuses to export twice,
  clears an output when it is made one, and refuses `unexport` of what is not exported. The
  destructor does not look at what became of its write, so that an unexport may be refused in
  silence (`pc` "kept"); if it cannot open the file its exception ends the program. The
  objects are active high. `Throw` is an exception out of a constructor: no destructor
  follows.
* **GPIOCallback.** `proper`, of `Runable`, also says that nobody removes the GPIO.
  `pending` is the kernel's mark that the value has not been read since the last edge; reading
  clears it. The mark is up when the file is opened, and stays so if the constructor's first
  read fails, of which the code only prints a line (197-204). A
  removed GPIO ends `poll()` like an edge. `own_stop`, `own_join`, `own_close` are
  `~SysFSGPIO`, after which `Runable`'s `base_stop`, `base_join` follow.
* **MessageManager.** A step is one use of the map or one critical section. `careful`
  (rigid) is how a manager without a lock for its map can be used: all slots are made before
  the threads start, and no slot is read by two. An insertion takes two steps; any other use
  of the map between them is the undefined behaviour `race`, and so would be two threads
  that change one queue (`Clashing`), which the mailbox's mutex prevents. Two more accesses
  are data races in the language: `empty()` without the mutex (154) and `_maxSlots` without
  any lock (89, 123). They are modelled by their outcomes, an answer that may be either
  while someone holds the mutex and the old or the new number, and are not faults; what is
  said below of undefined behaviour is said apart from these two.
* **POpen.** Each system call is a step. `table` says what each descriptor of the program
  is, with the kernel giving out the lowest free one; `end` are the local arrays of
  `run_command`. Init is a constructor that has found old values in the members, as they
  have no initialisers: `POpen()` starts at `close_init`, `POpen(command)` at `reset_kill`.
  Each of the four descriptors and streams is, independently, none or one of `OldFds`.
  `_pid` is -1 or the number of a child that is gone, which stands for any number that is no
  child's: to kill or wait for a stranger's process is the same step. 0 and the numbers
  below -1, which name groups of processes, and a pointer that is no stream, may end the
  program (`dead`). `todo` are the descriptors a method has still to close, as many times as
  it closes them. A stream is known by its descriptor, and `fclose` closes that. `hit`
  records whom a signal has reached but the child. `setting` (rigid) is "immune" where `kill
  -9 -1` does not reach the program itself, and "scarce" where `system()` may fail. `fork`
  and every other call of `run_command` may fail in every setting.
* **SerialPort.** Each system call is a step. configure(), read() and write() use nothing in
  common but the descriptor, so that a behaviour looks at one of them (`duty`, rigid, as are
  `timeout` and `quiet`). `termios` is the set of flags that are on in the kernel, `tty`
  each thread's copy of it between `tcgetattr` and `tcsetattr`; a setting is a pair of sets
  of flags that go and come. Of the baud rates there is one that exists and one that does
  not. `waiting` counts what the kernel's input queue holds. `queue` is its output queue, of
  numbered bytes, each with the thread that wrote it, and `Room` what it can still take. A
  byte leaves it for the line (`sent`), or is discarded by `clear_output()` or with the
  device (`lost`). A thread that writes tries again with what it was not told is written:
  `base` is how far it has been told. `quiet` says that calls do not overlap, and that there
  are no signals, no clearing and no unplugging; without it `select()` may return for
  anything, as it does when it is interrupted. A count below 0 makes `write()` look before
  its buffer and `read()` fill more than its buffer: `broken`, after which nothing is
  defined.

Operators introduced by "A mutated form of" are deliberate errors, kept beside the
definition they replace; each property is known to fail when one of them is put in its
place, which shows that the property depends on the code it is about.

## What is checked

Runs that pass:

| Run | Bounds | Shows |
|---|---|---|
| runable | 3 threads (two restarts), every method, proper use and any other, a run() that may end or loop while `_run` | TypeOK; RunFlagHonest: `_run` is true only while a thread is between its two stores; StopObeyed: a stop after the thread's own `_run = true` is obeyed, and the one who waits for its end gets past it; in proper use ProperSafe, and ImplementsSlot: it is a slot for one thread |
| oneshot | 2 shots, 3 threads, run() as fast as it likes, shots started again, threads run out or not | TypeOK; NoCrash: the program ends only after an "early" or an "again"; NoLeak: without these a shot takes its std::thread with it; Reclaimed: a shot that got a thread is freed or the program has ended; shots that are not started again implement FireOnce |
| tsqueue | 2 producers, 1 consumer or 2, capacity 0 or 2, 5 items, blocking or dropping | TypeOK; NoLostWakeup; Drained: everything pushed leaves; for a sole consumer of a queue with room HeldIsHead, PollHonest, and it implements Channel, lossless if it blocks |
| gpio | 3 objects (2 outputs, 1 listener); found exported or not, files fail or not | TypeOK, LeaveAsFound, FoundStays; LeftByFailure: only a throwing constructor or a refused unexport leaves the GPIO otherwise than it was found |
| callback | 2 threads, rising edges; any destruction, removal and failing creation, or proper use | ProperSafe, CaughtUp; EdgeAnswered (a fault counts as an answer), StopAnswered; OneLoop: callbacks never overlap, whatever the client does; a proper client has a Runable |
| manager | 2 senders, 2 receivers that share one of 3 slots and have one each to themselves, 3 messages; a maximum of 2 that is set to 1 or 3, or refused, between any two steps; careful use or any other | TypeOK; SoleReaderSafe: a slot's only reader never pops an empty queue; in careful use it implements Mailboxes, whose steps have no undefined one: no step is a clash over the map or a queue |
| popen | 2 children, 5 descriptors of which others may hold any, old members of 0, 2 or none; 3 settings; either constructor | TypeOK; DescriptorsKept: between calls the object holds exactly its two ends; OneChild: no child is forgotten before it is reaped; RunReturns |
| serial | 2 threads, an input queue of 3 bytes and an output queue of 2, reads of 2, 2 bytes to write, 2 failures of ::read() in a read() | TypeOK; ModeAsAsked: whatever overlaps, the port has one caller's settings, except that its characters always have 8 bits and INPCK may stay without parity; NothingSkipped: what write() counts has gone out, waits in the queue or was discarded from it, and the line has no other gap; on a quiet port ReadExact, NeverSpins: every system call brings a function nearer to its end, and Returns for calls with a timeout |

Runs that violate a sentence of the documentation:

| Run | What happens |
|---|---|
| runable_lost_stop | stop() before the thread's `_run = true` is overwritten; the join in a restart or destructor never returns (`Runable.hpp` 251, against 177-179) |
| tsqueue_full | a blocking push() on a full queue locks its own mutex again and keeps it (`TSQueue.hpp` 32, against 31) |
| callback_destructor | `~SysFSGPIO` deletes the std::thread and `~Runable` joins the dangling pointer, or the join is skipped because `_run` is not set yet (`SysFSGPIO.cpp` 222-227, against `SysFSGPIO.hpp` 106) |
| popen_first | `run_command()` of a fresh object executes `kill -9 -1`, which kills every process it may, the program among them (`POpen.cpp` 225, against 202-203) |

The models contain more states in which a sentence of the documentation does not hold, or
which a reader of the code would not expect. None has a run of its own, since the reader
who knows the order to look for needs no search; they matter to whoever extends the models:

* Runable: start() after detach() runs a second thread beside the first (lines 150, 92);
  detach() after join() throws (154, against 147-148); a failed creation leaves `_thread`
  dangling (193); where a derived class does not join, the thread calls run() on an object
  whose derived part is gone (117, against 109-110). These are what `proper` excludes.
* OneShot: a run() that ends before start() has stored and detached deletes the object under
  it (342, against 296-298); a second start() leaves two threads that execute and delete
  (334, against 315-316); if the thread cannot be made nobody ever deletes the object (344,
  against 319-322). `slips` records the first two.
* TSQueue: two consumers that are given the same front() both pop, the second perhaps an
  empty queue (67, against 61-62); a burned front leaves a dangling reference (57); size()
  may wrap around (90); a queue that drops and was made for 0 items pops nothing (38).
* SysFSGPIO: a throw after the export leaves the GPIO exported (293 ff.), as does an unexport
  that is refused (359-360), which `LeftByFailure` characterises exactly; the exporter's
  destructor takes the GPIO from the others (352), whose callback thread then throws (504);
  one more output controller drives an output low that is high (335, against 245-246).
* MessageManager: a sender makes a slot while there are as many as the maximum (123, against
  106-107), and several senders may do so together; a sender that inserts a slot races with
  every other use of the map (126, against 4-5), the fault `race`; two readers of one slot
  both pass the test for one message, and the second pops an empty queue (154, against
  138-140), the fault `underflow`; a full map refuses slots that exist (123); 1500 is
  refused (87, against 77).
* POpen: every close closes a descriptor and then again with its stream (277-292, 142-145),
  and in between another thread may have been given the number; kill() after isRunning() has
  reaped the child may hit another process (264, 225); isRunning() without a child waits for
  process -1 and so reaps any child of the program (264), which a model of one object does
  not show; close() waits before it closes the write end, so that a child that reads to the
  end of its input never ends (189). The constructors close whatever the unset members name,
  files of other threads included, and `POpen(command)` first kills whatever process `_pid`
  names (`POpen.hpp` 59-60); what the run shows is that the object is sound after that.
* serial: every `::read()` of a call writes to the start of the buffer, so that a read in
  several chunks overwrites the earlier ones (554). The -1 of a `::read()` or `::write()`
  that moved nothing is added to the count (558, 642): after a spurious wake-up read()
  returns too few, or asks for more than its buffer holds, and write() repeats bytes or
  looks before its buffer. A write() that times out does not count its last `::write()`
  (632-638), and a caller that tries again repeats those bytes; `NothingSkipped` is what is
  left of the promise. Once the device has gone `select()` always finds it ready and both
  loops spin for good, whatever the timeout (544, 632). The milliseconds of a timeout do not
  count (531, 616). char_size 5 to 7 has no effect, as cfmakeraw() has set CS8, to which the
  others are added (325, 371-384). set_low_latency() changes a local copy (457). Failures of
  open, tcgetattr and tcsetattr are not reported (233, 316, 433): configure() then says it
  has done what it has not.

**Why the bounds are enough.** Three threads of a Runable are a first start, a restart, and
a restart of a restarted object; a fourth repeats the third, since a joined thread leaves
nothing but its number. Two consumers and two producers are the least that can steal each
other's items and wakeups; five items fill and drain a queue of capacity two twice; capacity
0 is the least a caller can ask for. Three GPIO objects are one that exports, one that finds
the GPIO, and one that acts between them. Two senders are enough to overtake each other
between the size test and the insertion, or to meet in the map, and three messages fill one
slot's queue while another is made; the maximum starts at 2 instead of 50, and with 1 and 3
setMaxSlots takes it below and above what the three slots need, between any two steps. Two
children of a POpen are a first command and a next one, and five descriptors are the four
ends of its pipes and one of another thread; with one or more in other hands `pipe()` fails.
Two threads on a port are enough to set it between each other's two calls; an input queue of
3 bytes is longer than a read of 2, and the two threads' four bytes are more than an output
queue of 2, so that transfers are whole, partial and refused, and two failed ::read() take
the count as far below 0 as the buffer is long. Three threads for two shots let one of them
be started twice. What the proofs cover does not depend on these numbers. Deadlock is not
checked: all these systems may stop, because nobody has to call anything, and the runs that
bound threads, items or messages end when those are used up.

**Fairness.** Every thread that is inside a method or a thread function and can take a step
eventually takes one (weak fairness, the operating system's scheduler). A `run()` that could
return by itself need not, as long as `_run` is true (`Due`). No call, no push, no
failure and no spurious wakeup is ever assumed to happen. `StopAnswered` names its one
assumption about the environment in the property itself: the line is low infinitely often
and high infinitely often. Without it the thread stays in `poll()`, which has no timeout and
which `stop()` does not wake. For a port, time passes: a `select()` with a timeout that
finds nothing ends (`Returns`); nothing says that bytes come or that the line takes them. An
interrupted `poll()` is possible and never promised.

## What is proved

The theorems hold for every value of the constants that satisfies the modules' named
assumptions.

* `Runable_proofs`: `TypeCorrect`; `RunFlagCorrect` (for all uses); `OneThread`,
  `LifetimeSafe` and `RunableImplementsSlot` if `proper`: nobody detaches, threads can be
  made, derived classes join. The inductive invariant says, for each place of the owner,
  what the pointer, the handle and the object may be, and that a live thread is the one
  `_thread` points to and is joinable: `OneWorker` alone does not survive a restart, for
  which one must know that the thread waited for is the only one.
* `OneShot_proofs`: `OneShotTypeCorrect`. `OneShotCrashes`: the program ends only after an
  "early" or an "again", so these two orders are all that can go wrong; `OneShotFreesThread`:
  without them the std::thread goes with the shot. The invariant ties each object to the one
  thread made for it and orders the stored pointer, the handle, and the memory along that
  thread's life. `StartedOwnsItself` holds in whatever order the calls come, if threads can
  be made. The refinement `OneShotImplementsFireOnce` is for shots that are not started
  again, those included whose run() is faster than start(). It maps a shot to "flying" from
  the making of its thread to the thread's end: the step that makes the thread is `Fire`,
  the release of the memory `Vanish`, and that no thread is made for the same shot twice is
  the invariant's.
* `TSQueue_proofs`: `QueueTypeCorrect` (with the queue always a run of consecutive item
  numbers) and `WakeupsKept` for any number of consumers: the case analysis is over who is
  notified by whom. For one consumer of a queue that blocks or drops, `OneConsumerSafe` and
  `OneConsumerHoldsHead`: the invariant relates the consumer's place to the queue and to the
  positions its two loads have read. The refinement `TSQueueImplementsChannel` is for one
  consumer of a queue with a capacity above 0, and any number of producers. A channel counts
  its deliveries, so that a second read of an item is no stutter, and a lossless one has no
  undefined step; `Ordered` says that every reference is to the front of the queue or to an
  item that has left it, so that a read that does not dangle never goes back.
* `SysFSGPIO_proofs`: `GPIOTypeCorrect`, `FoundGPIOStays`, `GPIOLeftAsFound` (when `failing`
  is FALSE), `GPIOLeftByFailure` (always). The invariant `MadeInv` says that a GPIO the
  program made has an object that answers for it, and that an object which has not passed
  the test for the directory has not given up its `_doTeardown`. `GPIOTakenByMaker`, also
  whatever fails, says how an object can lose its GPIO to its own program; it is what the
  `proper` use of a callback object, from which nobody takes the GPIO, asks of the rest of
  the program: to destroy the object that exported it last.
* `GPIOCallback_proofs`: `CallbackTypeCorrect`; `NoEdgeMissed`, whatever the client does;
  `GPIOProperSafe` and the refinement `GPIOImplementsRunable` for a client that joins first.
  It uses what `Runable_proofs` says of a join, and adds to `Runable`'s invariant that
  `~SysFSGPIO` finds no live thread and so, by `RunFlagHonest`, the flag down: it never takes
  the branch that deletes the thread a second time. `CallbacksNeverOverlap` needs no proper
  client: its invariant `SoleInv` says that every live thread is the one `_thread` points to,
  and that none is left when start() makes the next. A client that detaches the thread of
  a GPIO object is outside the model.
  `GPIOImplementsSlot` is the proper client's slot for one thread.
* `MessageManager_proofs`: `ManagerTypeCorrect`, `SoleReaderFindsMessage`, and
  `SlotsStayBounded`: there are never more slots than the largest maximum and the senders
  together, as its invariant counts the senders that have passed the test and not inserted
  yet. `ManagerImplementsMailboxes` is for any number of senders, receivers and slots in
  careful use. `fault` is a variable of `Mailboxes` that no step changes, so that the
  refinement includes what makes careful use careful: nobody inserts (`InsertInv`), the
  mutex keeps two threads out of one queue (`LockInv`), and who pops is a slot's only
  reader (`ApartInv`) and has seen a message (`ReaderInv`).
* `SerialPort_proofs`: `SerialTypeCorrect`; `ConfigureObeyed`, since each thread's copy
  means what it was asked for in every flag but two (characters always have 8 bits; INPCK
  may stay under no parity), whatever flags it was made from; `WriteSkipsNothing`, whose
  invariant `SentInv` says for each byte of the queue that what precedes it is ahead of it
  in the queue, sent or lost, and adds to the counts the bytes of the last `::write()`,
  which may or may not be counted later; `ReadCountsExactly`, since on a quiet port
  `::read()` is called only when there is something to read; and `CallsNeverSpin`, the
  safety core of `Returns`: `Left` bounds the system calls that are still to come, is never
  negative, and falls with each, which `AloneInv` (calls do not overlap on a quiet port)
  keeps from being undone by others.
* `POpen_proofs`: `POpenTypeCorrect`, `ChildNotForgotten` and `NoEndLeaks`, for any number
  of children and descriptors, and for either constructor over any old members.
  `DescriptorsKept` speaks of the time between two calls; the invariant `EndsInv` says for
  each place inside a call where every open end is known: to the local arrays, to the
  members, or to the list of descriptors still to be closed. That the second `close` of a
  descriptor hits none of the object's own ends rests on `todo` being empty whenever a pipe
  is made. `RunAwaitsNoLiving` is the safety core of `RunReturns`: when reset() waits, its
  kill has ended the child.

Model-checked only: every liveness property (`StopObeyed`, `Reclaimed`, `Drained`,
`EdgeAnswered`, `StopAnswered`, `RunReturns`, `Returns`), as liveness under fairness is out
of the prover's reach. Every safety property and every refinement that a run checks is also
proved.

Proved and not in a run, because a run checks something close to it: `OneWorker` (beside the
slot that Runable implements), `SelfOwned` (beside `FireOnce`), `GPIOTypeOK`, the slot of a
GPIO object, `TakenByMaker`, `SlotsBounded` and `AwaitsNoLiving`. Naming one of them as an
INVARIANT in the `.cfg` of its component (the slot, `ImplementsSlot`, as a PROPERTY) lets TLC
check it, too.

## Not modelled

* `TSPriorityQueue`: `front()` does not compile when it is used (`priority_queue` has no
  `front`), so no program contains it.
* `MessageManager` is modelled as its methods are written, although the header as it stands
  does not compile: line 69 names `Singleton<MessageManager>` without the template's argument.
* Of `POpen` the data in the pipes is left out. `~POpen` is declared and not defined, so a
  program that makes an object does not link; there is no destructor to model.
* Of `serial.hpp`: the branch for Windows; a port that could not be opened, on which every call
  fails; `set_low_latency()`, which changes only a local copy, and `in_waiting()`, which
  changes nothing; a timeout below -1, which read() and write() refuse; what the bytes are.
* `AtomicMtx` is used by nothing in the repository. It is one test-and-set in a loop: exclusion
  is what the instruction promises, and which waiter comes next is left to the scheduler.
* `SharedReference` forwards each method to `std::shared_ptr`; two owners of one raw pointer
  are one line of its client. `Singleton` is a function-local static, `NONCOPY` deletes copies.
* In Runable: `sleep()` has no state and `yield()` calls itself. In SysFSGPIO: the value of
  `active_low`, and `getValue()`, which changes nothing.

## Plan

1. Done: Runable, OneShot, TSQueue, SysFSGPIO, GPIOCallback, MessageManager, POpen and
   SerialPort, each model-checked and proved.
2. If `MessageManager` gets a lock for its map, `AtomicMtx` is the one at hand: then a module
   for it, and `race` becomes unreachable.
3. If a program that uses `SharedReference` is added, ownership of its objects.
