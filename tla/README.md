# libcommonc++ in TLA+

A verification project for *libcommonc++* (namespace `ccxx`), a portable C++
class library: threads and synchronization, asynchronous I/O and sockets,
containers and buffers, logging, text and dates.  It is modelled and checked
where the library has a protocol of its own: where several threads, callbacks
or system calls meet in an order no unit test chooses.

Contents: [the system](#1-the-system), [the modules](#2-the-modules),
[the runs](#3-the-runs), [findings](#4-what-the-runs-found),
[the proofs](#5-the-proofs), [what is left out](#6-what-is-not-modelled),
[the plan](#7-the-plan).

## 1. The system

### Parts that hold state across threads

| Part | State | Operations | What makes it correct |
|---|---|---|---|
| `BoundedQueue<T>` (`BoundedQueueImpl.h++`) | `_queue` (a deque), `_capacity`, `_terminated`, one `Mutex`, `_condP`, `_condC` | `put`, `tryPut`, `take`, `tryTake`, `clear`, `reset`, `interrupt`, `shutdown`, `setCapacity` | bounded, FIFO, no lost wake-up, shutdown releases everybody |
| `CondVar`, `Mutex` | POSIX: those of the system. Windows: semaphore `_sem`, `_waitersCount`, event `_waitersDone`, flag `_broadcast`; an auto-reset event for the mutex | `wait`, `notify`, `notifyAll`; `lock`, `tryLock`, `unlock` | the waiters of a `notifyAll` are the ones woken, `notifyAll` ends, `wait` returns with the mutex |
| `ReadWriteLock` (Windows) | `_readersReading`, `_writerWriting`, `_mutex`, `_lockFree` (a `CondVar`) | `lockRead/Write`, `tryLockRead/Write`, `unlock` | readers or one writer; nobody sleeps at a free lock |
| `CriticalSection` (atomic word) | `_lock`, a `ThreadLocalCounter` | `enter`, `tryEnter`, `leave` | exclusion, recursion, never left locked |
| `Thread` | `_runFlag`, `_cancelled`, `_detached`, `_thread` | `start`, `stop`, `join`, `trySleep`, `testCancel`, and the body with its cleanup | runs do not overlap, `join` means over, requests to stop are neither stale nor lost |
| `AsyncIOTask`, `AsyncIOPoller` | `_pending`, the control block, the result; the task list and the cached array with `_dirty` | `Stream::read/write`, `isCompleted`, `cancel`, `waitFor`; `addTask`, `removeTask`, `removeAllTasks`, `poll` | each completion is handed out once, the array is that of the list |
| `SocketMuxer`, `Connection` | `_connections`, `_pool`, `_mutex`; two buffers, two locks and `_closePending` for each connection | the loop of `run()` around `select`, `cleanup`; `writeAll`; `writeData`, `readData`, `close` | each connection ends once and its place is given back, no connection that stays is left locked, a close that was asked for is carried out, `writeAll` meets no connection that is gone |
| `Log`, `Logger`, `FileLogger` | `_file`, `_rotateCount`, `_maxFileSize`, and the files themselves | `setFile`, `write` with `_rotate`, the setters | the files stay in order, none too many, no record goes before its time, also if a rotation is cut off |
| `IntervalTimer`, `PulseTimer`, `Timer` | a thread, an interval, a stop flag | `start`, `stop`, `fired` | no callback after `stop` |

### Parts that hold state within one thread

`StaticObjectPool` and `DynamicObjectPool` (free and used lists), `Cache` (LRU
list and map), `CircularBuffer` and `Buffer` (positions and counts),
`SharedPtr` (reference counts), `BTree`, `BitSet`, `AllocationMap`,
`BasicBufferedStream`, `DirectoryWatcher` (pairs the two events of a rename).
Their hard behaviour is a long sequence of legal calls that reaches an illegal
state: a full buffer against an empty one, a pool released in another order
than it was reserved, a cache whose last element goes.

### Parts without a protocol

Strings, characters, regular expressions, dates, digests, data readers and
writers, XDR; adapters of sqlite, expat and the JVM; wrappers of files, pipes,
processes, serial ports, semaphores, shared memory; vendored libraries (libiconv,
pcre, sqlite, expat, libstacktrace) and tools.

### How they interact

- `BoundedQueue` waits in two `CondVar`s with one `Mutex`.  A `Mutex` may be
  given up inside `CondVar::wait` only, so between two waits a call is one step.
- `ReadWriteLock` on Windows waits in one `CondVar` and holds its `Mutex` while
  it calls `notifyAll`, which in turn waits for the waiters.
- `CriticalSection` counts per thread with `ThreadLocalCounter` and sets its word
  with `AtomicCounter::testAndSet`; so does `Thread` with its `_runFlag`.
- `Thread::stop` and the body share `_cancelled` without a lock.  `join` and
  `start` read `_runFlag` and `_thread`, which a starting caller writes.
- `SocketMuxer` is a `Thread`.  It takes the sockets of its connections from a
  `StaticObjectPool`, gives each connection two `CircularBuffer`s with a
  `CriticalSection` each, and calls the application back from within its loop; the
  application writes, reads and closes from there and from other threads.
- `Log` makes all calls of a `FileLogger` under one lock; the other side of the
  logger is the file system, which keeps what a program that dies leaves half done.

### Hard behaviours

`PROJECT.json` lists the hazards one by one, each at its line.  The kinds that
matter most here: a woken thread gets the mutex after others changed what it
waited for; one `notify` that reaches a thread which cannot use it; a timed wait
that ends while its notification is on the way; state read before a wait and used
after it (`_terminated`); an operation in two parts (`reset`, `start`); a flag that
says less than the thing it stands for (`_runFlag` and the system's thread); a call
of the system that fails and nobody looks (`pthread_create`); sets of descriptors
that `select` filled and that are used after connections came and went; an exception
that skips the release of a lock or a place; a rotation of files cut off between two
of its steps; a ring whose full and empty states have the same positions.

## 2. The modules

| Module | Models |
|---|---|
| `FifoChannel` | *abstract*: a bounded FIFO channel whose calls take effect at one instant |
| `BoundedQueue` | `BoundedQueue<T>` with POSIX condition variables; refines `FifoChannel` |
| `MCBoundedQueue` | the symmetry of `BoundedQueue` for TLC |
| `BoundedQueue_proofs` | proofs about it |
| `RecursiveLock` | *abstract*: an owner and a depth |
| `CriticalSection` | `CriticalSection` on an atomic word; refines `RecursiveLock` |
| `CriticalSection_proofs` | proofs about it |
| `Thread` | one `Thread` object on POSIX, and the system's threads it creates |
| `Thread_proofs` | proofs about it |
| `WindowsCondVar` | `CondVar` and `Mutex` on Windows, call by call of the system |
| `ReadWriteLock` | `ReadWriteLock` on Windows, on top of `WindowsCondVar` |
| `ReadWriteLock_proofs` | proofs about both |
| `AsyncIOTask` | `AsyncIOTask` on POSIX, against the system that ends its requests |
| `AsyncIOPoller` | `AsyncIOPoller` on POSIX, on top of `AsyncIOTask` |
| `AsyncIOPoller_proofs` | proofs about both |
| `StaticObjectPool` | `StaticObjectPool<T>`: the free list |
| `SocketMuxer` | `SocketMuxer` and `Connection` on POSIX, on top of `StaticObjectPool`, with the application and the peers |
| `MCSocketMuxer` | the symmetry of `SocketMuxer` for TLC |
| `SocketMuxer_proofs` | proofs about it |
| `BoundedSequence` | *abstract*: a sequence with a bound |
| `CircularBuffer` | `CircularBuffer<T>` of one-byte elements; refines `BoundedSequence` |
| `CircularBuffer_proofs` | proofs about it |
| `Journal` | *abstract*: records that are added at the end and go from the beginning |
| `FileLogger` | `FileLogger` and its files, with failures and restarts; refines `Journal` |
| `FileLogger_proofs` | proofs about it |

### BoundedQueue

`capacity`, `queue`, `terminated` are the members of the same names.  `condP` and
`condC` are the threads blocked in the two condition variables; `awake[t]` says
why a thread has left its wait while it has not got the mutex back (`notified`,
`interrupted`, `timedOut`).  `call[t]` is the call a thread is in the middle of;
`last` is the call that ended last, with its outcome.  `asked` is history: did
anybody call `interrupt` or `shutdown`?

A call that does not wait is one step (`Put`, `TryPut`, `Take`, `TryTake`); one that
waits is two: up to the wait, and from getting the mutex back to the end
(`PutResumes`, ...).  Their disjuncts are the code's paths in its order: `put` does
not look at `_terminated` after the wait, `take` does, and `tryTake` reports an empty
queue as a timeout before it looks.  `Push` and `Pop` include the `notify` and the
`notifyAll` of the code.  `Reset` is `clear()` under the mutex and `ResetFlag` the
assignment after it.  `TimesOut` may happen at any moment of a timed wait, also
between the notification of another thread and its run; `WakesSpuriously` is
what POSIX allows.  A timed call that meets a full or empty queue may find its
time already over.

The contract of `pthread_cond_wait/timedwait/signal/broadcast` is external: a
signal wakes some waiter if there is one, a broadcast all.

### CriticalSection

`lock` is `_lock`, `count[t]` the value of the thread-local counter, `pc[t]` where
in `enter` or `leave` a thread is.  A step of the counter is merged with the
neighbouring step on the word (nobody else reads it), except in `leave`, where the
counter is 0 before the word is: there a thread that holds the word is not inside
any more.  Any thread may call `leave` at any time.

### Thread

Each `pthread_create` that succeeds makes a thread of the system with the next
number; `handle` (`_thread`) is the latest.  `os[n]` follows that thread through
`_startupDispatcher`, the body, `_cleanupDispatcher` (`cleanup()`, then
`_runFlag.set(0)`) and its end.  `start()` is three steps: `testAndSet`,
`_cancelled = false`, `pthread_create`, which leaves `_thread` undefined if it fails:
the old value or none.  `join()` is three: the tests, reading `_thread`, and
`pthread_join` on what was read (`joined`), while another caller may start the next run.  `mine[c]` and `posted` are history (the run a caller made, whether
`stop()` came since).  A `pthread_join` on a handle that was never set or is already
joined is undefined: it may return either way at once.

### WindowsCondVar and ReadWriteLock

In `WindowsCondVar` a step is what a thread does under `_waitersLock`, or one call of
the system; `at[t]` is where in a `CondVar` call it is.  The module has no `Next`:
`ReadWriteLock` starts the calls inside its own steps and lets `CallGoesOn` do the
rest, because `notifyAll` runs while the caller holds the mutex.  `free` is the
mutex's auto-reset event, which `unlock()` sets whoever calls it, as `SetEvent` does.
In `ReadWriteLock` a step is what happens between two of those calls; the test
(`Passes`) and the count (`Counts`) are kept apart, since the mutex can be
unlocked under its holder once a wait has timed out.  A time limit that is used
up is passed as 0, which `CondVar::wait` takes for `FOREVER`: `Waits` may drop the
limit.  `expired` is history: has a wait timed out?

### AsyncIOTask and AsyncIOPoller

One client thread; the other actor is the system, which ends a request at any
moment (`Completes`): with bytes, with none, or with an error.  `io[t]` is what
`aio_error` and `aio_return` would say of the control block; `pending` and `haveResult`
are the members.  The number of bytes and the buffer are kept as "is `_buffer`
set" and "how often was it bumped for this request".  `answer` is what the last call
returned or threw.  Calls that cannot block are one step; `waitFor` is up to three,
since the system may end the request between the failing `aio_suspend` and
`_collectResult`, and `poll` is two.  A signal during `waitFor` makes it ask once more
without a delay, which comes to the same as the time being over, so both are
`WaitFails`.  `AsyncIOTask` has no `Next`; `AsyncIOPoller` adds its calls to it,
because `poll` blocks the same thread.

A client uses a task for another request only when the last one is over (the code
overwrites the control block without looking), and registers tasks that it has
begun.  `aio_suspend` is external: it returns 0 when one of the requests is over, or at
once for an empty array (as in glibc), and fails when the time is over or after a
signal.

### StaticObjectPool and SocketMuxer

`free` is the free list; the objects are named after their places.  `SocketMuxer`
EXTENDS the pool and has three kinds of actor: the thread of the muxer (`Runs`,
and `SelectFails`, `Stops` and `AcceptTimesOut`, which end its loop), the application (`Application`: its
callbacks and its other threads) and the peers.

`pc` follows `run()`: `select`, `accept`, then from `next` to `check` for each connection
of `list` (`_connections`), with `pos` for the iterator, and `cleanup`.  The
branches of the loop are actions in the order of the `else if`s: `ClosesAsAsked`,
`BeginsRead`, `BeginsWrite`, `ReadsOOB`, `PassesBy`.  A read and a write are two steps and
more, from `_readLock.enter()` to the call of the system and from there on, because
they can block, and others run meanwhile.  Each way to end is one of `Ends`
(`_connectionClosed`, `_connectionTimedOut`: `close(true)`, `release`, callback) and
`Fails` (the default `exceptionOccurred`: `close(true)` only); neither gives back the lock
that an exception has skipped, and `Checks` then takes the connection from the list and
changes nothing else in it, its locks included.  `fate[c]` tells where a connection object is:
in use (`"live"`), reported closed and so deleted (`"gone"`), or dropped without a word
(`"lost"`).  The application knows nothing of the last, and uses such a connection on
(`Uses`).  A thread that waits in `enter()` is one whose `Writes` or `Reads` is not
enabled (`Enters`): behind a lock that the muxer has that is for a while, behind one of a
dropped connection for ever, except in a callback, where the thread of the muxer meets
its own recursive lock.  `mutex` is `_mutex`; `writeAll` is one step for each connection.

`Refuses` gives the reserved place back, as the code does for a `SocketException` of `accept`
and when `connectionReady` returns NULL.  `AcceptTimesOut` does not: a `TimeoutException` is not
among those caught in `run()`, so it leaves the loop, and `cleanup()` follows.

Bytes are counted.  `net[s]` has the descriptor of a socket, what has come in, and how
much its way to the peer still holds; `fds` has what `select` returned.  The limits
`BufferSize` and `Room` are bounds, and `WriteLoMark` is `_writeLoMark`; a read buffer is
high when it is full.  A new connection may get the descriptor of one that was
closed, as `accept` returns the lowest number.  On a closed descriptor `FD_SET` and
`FD_ISSET` use the bit of some other number, so that `select` may fail and any branch
may be taken.

### CircularBuffer

`ring` is a record of the object's members, positions counted from `_data`;
`AdvanceReadPos`, `AdvanceWritePos` and `Copy` are operators on it, because the
operations call them one after the other.  `_end` is `size`; the differences of two
pointers that are cut to a `size_t` are taken `% Word`, as is `_peekAvail`, which several
operations count below zero.  `last` tells what the last call was to move and what it
moved: what the abstract `BoundedSequence` speaks of.  For a line `asked` is the `maxLen` of the
call; as `peek` scans one element more before it gives up, so may `TakeThrough`, and the
abstraction says that openly rather than what the documentation does (section 4).  `PutExtent` and `TakeExtent` are what a
caller does with `getWritePos()` and `getReadPos()` (`BasicBufferedStream`), `ReadLine`
is `Connection::readLine()`.

### FileLogger

`disk[k]` is the content of `name.k.log`, and of `name.log` for 0, as records with the number
of the call that wrote them and the count of rotations begun before.  `write()` is one step
if there is room; otherwise `Rotates` closes the file and `_rotate()` goes on by one call of
the file system at a time, `Removes` and `Renames`, with `i` as in its loop, up to
`Reopens`.  Each may fail, and `Restarts` may come between any two of them; the next
program may have other limits.  `written` and `begun` are history.  The calls of the
logger follow each other under the lock of `Log`.  `Kept` is what all files hold together:
the journal of the abstract `Journal`, whose `backlog` is `rotateCount`.

## 3. The runs

| Run | Instance | Question |
|---|---|---|
| `queue_safe` | 2 producers, 2 consumers, 1 controller with all five controls, capacity 1 or 2 (0 is refused), 2 items, spurious wake-ups | bounded; no item with all consumers asleep; nobody asleep after shutdown; refines `FifoChannel` |
| `queue_live` | 2 producers, 1 consumer, controller with `shutdown` and `interrupt`, capacity 1 | producers sleep at a full queue only; a consumer without rivals is told of an interrupt only if there was one; shutdown releases; a blocked `put` returns if items are taken |
| `queue_interrupted` | 1 producer, 2 consumers, no controller | *violation*: `take()` throws although nobody interrupted |
| `critical_section` | 3 threads, nesting up to 4 | exclusion, the word matches the holders, refines `RecursiveLock`, never left locked |
| `thread` | 2 callers start and stop, one of them joins, 3 runs, failing `pthread_create`, joinable or detached | no overlap, `join` means over, requests neither stale nor taken back, a stopped run ends |
| `rwlock` | a reader, a thread that reads and writes, a writer with timeouts | exclusion, counters, no overlooked sleeper and no deadlock, until a wait times out |
| `rwlock_timed` | a reader with timeouts, two writers | *violation*: after a timeout a reader and a writer hold the lock together |
| `async` | 2 tasks, no task added twice | a result is collected once, and of its own request; "not yet" and the answers of `poll` are true; a `poll` without a limit notices a completion |
| `muxer_safe` | 2 connections, 2 places in the pool, buffers of 1; `close(true)`, peers that end and break, signals | no place given twice, none missing but that of an `accept` that timed out; no lock left with a connection that stays listed; `writeAll` holds a live one |
| `muxer_live` | the same without `close(true)` and faults | a pending close is carried out; the muxer reads only where there is something |
| `ring` | sizes 1 and 3, two values, arrays up to 3, `size_t` of 3 bits | refines `BoundedSequence`, with the limit of a line as `peek` has it |
| `logger` | up to 3 backlog files of 1 or 2 records, 7 records | files in order, not too many; refines `Journal` |

### Bounds, and why they are enough

- **Queue.**  The interesting cases need two threads of one role blocked, or two on
  their way back from a wait, while a third call runs: two producers, two
  consumers and a controller give all of them.  A capacity of 1 makes every call
  meet a boundary; raising it to 2 makes "space for one of two sleepers"
  possible.  Two items show order and duplication.  Symmetry is used in
  `queue_safe` only, which has no liveness property (its refinement property is
  checked for its safety part: `FifoChannel` has no fairness).  `LowerBelowSize` is
  FALSE in the runs, since setting a capacity below the size is allowed and by itself
  makes a channel that is over its bound; the theorems that do not need the bound
  hold for TRUE as well.
- **CriticalSection.**  Three threads: one inside, two racing for the word.  A
  depth of 4 has a first, an inner and an outermost leave.
- **Thread.**  Three runs: a previous, a current and a next one; two starters race.
- **ReadWriteLock.**  Three threads: one that holds, one that sleeps, one that
  comes in between.  `SemMax = 4` stands for the semaphore's `0x7FFFFFFF`; it is above
  the number of threads, as there, and a release beyond it leaves the count alone.
- **AsyncIO.**  Two tasks: the array can be that of one while the other is
  registered, and requests can be over in any order.  A task is used again without
  a bound.  `AddTwice` is FALSE in `async`: a second `addTask` of the same task makes `poll` miss
  others (section 4), and everything but `PollAnswersTruly` is proved for TRUE as well.
- **SocketMuxer.**  Two connections: one that is handled while the other waits, ends
  or is new, and one behind or before it in the list for `writeAll`.  Two places in
  the pool for two connection objects, so that the pool can be empty and a place and a
  descriptor can be used again while the old ones are still known.  Buffers of one byte
  are empty or full, and every operation meets that boundary.  Symmetry of the connection
  objects in `muxer_safe` only, which checks invariants only; liveness is checked in the
  run without faults, for a fault ends a connection and so fulfils the property.
- **CircularBuffer.**  A ring of 3 has a first, a middle and a last place and can wrap
  around in front of and behind the read position; a ring of 1 is full and empty
  at the same position.  Arrays up to the size of the ring and twice their
  length in two calls.  8 for 2^w is more than twice the size, so that a difference
  below zero is not taken for a small count.
- **FileLogger.**  Three backlog files and a count of 0 to 3 that changes: files above
  the count, at it, and below.  Seven records in files of one or two: enough to fill every file and
  rotate twice more.

### Fairness

Nobody is ever obliged to *call* anything.  `BoundedQueue`: a woken thread gets the
mutex at some time, a clock reaches its deadline, a `reset` under way goes on (weak
fairness per thread; a wake-up is never taken back, so it stays enabled).
`CriticalSection`: a thread inside `enter` or `leave` goes on; nothing is assumed
about who wins the word, so a particular waiter may starve, as in the code.
`Thread`: the system runs its threads, and `start` and `join` go on once called; the
body obeys `testCancel()`, which is the contract of `stop()`, but need not return
otherwise.  `ReadWriteLock` has no fairness: its runs check safety only, and
`NobodyDeadlocks` states as an invariant that among the calls under way there is always one
whose next step waits for nobody, or somebody who holds the lock and has to give it back.  `AsyncIOPoller`: a poll returns when
`aio_suspend` can return 0 (weak fairness of `PollSucceeds`: a request that is over
stays over while its client is blocked); no request has to end, no signal has to come.
`SocketMuxer`: its thread and a `writeAll` under way go on (weak fairness), the
thread gets `_mutex` at some time even if others call `writeAll` again and again (strong
fairness of `Locks`: the mutex is not free all the time), and peers take what is sent to
them (weak fairness of `PeerTakes`; without it `writev` on a blocking socket holds up
everything).  Nobody has to send, to connect or to write.  `CircularBuffer` and
`FileLogger` have no fairness: their promises are about what a call does.

## 4. What the runs found

1. **`take()`/`put()` throw `InterruptedException` without an interruption**
   (`queue_interrupted`; `BoundedQueueImpl.h++:144-148`, `90-94`).  The wait is under an `if`,
   not a loop; a woken call that lost the race reports an interruption.  It takes a rival:
   for the only consumer, or the only producer, of a queue the documentation is proved
   (section 5).
2. **A timed wait on Windows returns without the mutex** (`rwlock_timed`;
   `CondVar.c++:109-117`), and `tryLockRead/Write` unlock it all the same, under whoever
   holds it.

Plain in the code, so that no run is spent on them:

- A capacity below the size removes the limit (`BoundedQueueImpl.h++:90`): sizes are
  compared with `==`, against `BoundedQueue.h++:124-128`.  Raising the capacity wakes no
  producer (217).
- A `put` or `tryPut` woken by `shutdown` adds its item to the queue that is shut down, if there is
  space: `_terminated` is not looked at after the wait (93).  A `shutdown` between the two halves of
  `reset` (65) is undone by the second.  Both are in the model (`PutResumes`, `ResetFlag`); the
  properties say that nobody is left asleep, not that these do not happen.
- `join()` returns true when `_runFlag` is 0, without `pthread_join` (`Thread.c++:201`), so
  that a joinable thread that has just ended is never reclaimed (`Thread.h++:47-49`).  A
  `stop()` between the `testAndSet` and the `_cancelled = false` of a `start()` is lost
  (`NoStaleRequest` and `RequestIsNotTakenBack` say what does hold); a `start()` whose
  `pthread_create` fails leaves `isRunning()` true for ever.
- `addTask` of a task that is there clears `_dirty` (`AsyncIOPoller.c++:65`), and `poll` goes
  on with the old array.  `waitFor` has its outcomes the wrong way round
  (`AsyncIOTask.c++:213-227`): `TimeoutException` when `aio_suspend` returns 0, a result when it
  fails.  `poll()` without a limit returns false after a signal, because it compares
  the result of `aio_suspend`, not `errno`, with `EINTR` (`AsyncIOPoller.c++:161`).
- `SocketMuxer.c++:174` makes the same comparison with the result of `select`: a signal
  ends the loop and closes all connections.  So does, at some time, a `close(true)` by
  another thread, through `FD_SET(-1)`.  `FD_ISSET(fd, &writefd)` (271) is not guarded by
  `r > 0`, which is harmless as the sets are empty then.
- The accepted sockets are blocking: `writev` to a peer that does not take it keeps
  `_mutex` and `_writeLock`, and everybody waits (`PendingCloseIsDone` assumes that
  peers take).  A connection that is always readable is never written to, nor closed
  when that was asked for (240; the property excludes peers that send for ever), and its
  idle limit counts only in passes in which none of its descriptors is set (314).
- With `_writeLoMark` above 1 a rest below the mark is not sent before more is written
  (158), and a pending close waits for it.  `exceptionOccurred` does not release the
  socket (365): `fate` is `"lost"`, and the place with it.
- What `read`, `write` or `readOOB` throws skips `_readLock.leave()` or `_writeLock.leave()`
  (`SocketMuxer.c++:246-313`).  The connection is taken from the list right after (324-329), so
  the muxer does not meet the lock again, and that is what `ListedLocksAreFree` says.  It does
  not say that nobody waits: a thread that is in `writeData` or `readData` of that connection,
  waiting for the lock, waits for ever, and so does one that calls them later, because the
  default `exceptionOccurred` (362-366) tells nobody.
- `accept` throws a `TimeoutException` when the server socket has a timeout, or is non-blocking,
  and the peer that made `select` return has gone again (`ServerSocket.c++:120-144`).  `run()` catches
  `ObjectPoolException` and `SocketException` only (`SocketMuxer.c++:211-220`): the place reserved in
  199 is lost, the loop ends, and `cleanup` closes every connection.  `SlotsAccountedFor` allows
  for that one place (`Missing`), once the loop is over.
- With `close(true)` from another thread a descriptor can be closed and given to a new
  connection between `select` and the read: the read blocks.  `ReadDoesNotBlock` is
  stated, and checked, without it.
- `_rotate()` with a count of 0 removes `name`, not `name.log` (`FileLogger.c++:166-172`), so
  `write` returns false with the file closed, and the next one throws in `seek` and forgets the
  file (`RotatesNothing`, `WriteFails`); a rotation that fails does the same.  Line 194 is
  an `if` without a block: for files above the count only the directory and the name are
  left out, and `.i.log` in the current directory is looked for; the model has no such file.
- `peek` counts an element before it tests the limit (`CircularBufferImpl.h++:416`, 433, 450), so it
  scans `maxlen + 1`.  "The maximum number of elements to scan", "up to maxlen"
  (`CircularBuffer.h++:132,138-139`) and, for `readLine`, "The maximum number of characters to read
  (including the CR+LF terminator)" (`SocketMuxer.h++:117-118`) are not kept: `readLine` with
  `maxLen` returns up to `maxLen + 1` characters, also 1 for `maxLen` 0.  `IsBoundedSequence` is
  about what the code keeps; with `maxlen` in place of `maxlen + 1` in `TakeThrough`, `ring`
  fails.
- `CircularBuffer`: two `peek`s from the read position take `_peekAvail` below zero
  (`CircularBufferImpl.h++:408`), after which `advancePeekPos` accepts any count; `read(Stream,
  count)` with a count below the extent (317) and `read(Buffer, count)` with a count for which there
  is room (278) do not do what they say; with elements of several bytes the extents
  mix bytes and elements.  Callers in the library do none of this.

## 5. The proofs

TLC settles small instances; these theorems hold for every value of the
constants, under the modules' `ASSUME`s only (`ConstantsAssumption`: consumers are
finite in number, capacities are naturals, `NoItem` is no item; `LockAssumption`;
`ThreadAssumption`; `PollerAssumption`: `NoTask` is no task; `LoggerAssumption`: there is a
backlog file, sizes are positive, `NoFile` is no file; `MuxerAssumption`: finitely many
places, buffers of at least one byte, `NoConn` is no connection; `BufferAssumption`: sizes are
positive and fit `size_t`, `Zero` is an element).

**BoundedQueue_proofs.**  Every action is one of ten kinds of step (throw, push, pop,
wait in either variable, leave a wait, wake all, empty, clear the flag, change the
capacity): lemma `StepKinds`, which needs `TypeOK` to know that a resuming thread is
in no condition variable.  Each invariant is then shown kind by kind.
`TypeCorrect`, `ShutDownQueueHasNoSleepers`, `CapacityIsRespected` (with `LowerBelowSize` FALSE)
and `ProducersAreNotOverlooked` are inductive with `TypeOK`; `ConsumersAreNotOverlooked`
counts: a push adds one item and, if a consumer sleeps, one woken consumer; a pop
removes one of each; a woken consumer that throws does so only when the queue is
empty or shut down, and then nobody sleeps.  `QueueIsFifoChannel` is the
refinement, each kind of step to an action of `FifoChannel` or a stutter.
What the documentation says of interruptions is false in general (section 4) and true of a call
without rivals.  `SoleConsumerIsInterruptedOnlyIfAsked` adds that a consumer woken for an item finds
one (`ItemIsThere`), as only a consumer, `clear` or `reset` could take it away;
`SoleProducerIsInterruptedOnlyIfAsked` the same of space (`SpaceIsThere`), which only another
producer or a change of the capacity could take.  Both exclude spurious wake-ups.
`CallsWaitOnce`, `CallsGoOnAfterShutdown` and `TakesWakeProducers` are the safety halves of the two
liveness properties: a call in progress is asleep or woken, never neither (`NobodyIsLost`), a woken one
stays woken until it ends, and after a shutdown, or an item taken, nobody who is concerned
sleeps; what is left to fairness is that a woken thread gets the mutex.

**CriticalSection_proofs.**  `TypeOK /\ LockIsHeldByOne` is inductive;
exclusion follows, and with lemmas that give the abstract owner without its
`CHOOSE`, so does `SectionIsRecursiveLock`.

**Thread_proofs.**  The invariant adds two facts to the properties: while `_runFlag` is
0 no start is in progress, and a request seen between `_cancelled = false` and the
creation is a new one.  `NoOverlap`, `StaleRequestsHaveNoEffect` and the action property
`RequestsStay` follow.  For `JoinedRunIsOver` there is a second invariant: as long as a
caller's own run is not over nobody can have started another, so `_thread` (`HandleIsCurrent`)
and what the caller has read of it (`WaitsForMine`) are that run, and an answer of an
earlier join has been dropped (`NoOldAnswer`).  `AskedRunsHeadForTheirEnd` is the safety half of
`StoppedRunEnds`: each step of a run that was asked to stop is one towards its end.
`OwnersJoinTheirThread` says when `pthread_join` is defined: one caller starts and joins, and
`pthread_create` does not fail; then `_runFlag` is 1 only if the owner is in `start()` or its own
run, which `_thread` holds, is in progress (`OwnerInv`).  With a second joiner, or a creation that
fails, the model does reach a join of what is no thread.

**ReadWriteLock_proofs.**  A timeout leaves the mutex with two owners, and nothing is left to
prove but types and `_waitersCount` (section 4); all the rest is about the time before.  Then
the mutex has one owner (`MutexHasOneOwner`), where `Owns` follows the owner into
`wait` and `notify`, and who owns it is alone in the calls that need it (`Alone`).  So the
counters change under one thread only (`HoldersAreCounted`, by cardinalities), what a thread
saw when it looked is so when it counts itself in (`LockIsStillFree`), and unlock, which
goes by the counters, frees the caller's lock: `ExclusionHolds`, `CountersTellTheTruth`.  For
the wake-ups, `_broadcast` is set exactly during a `notifyAll`, whose end is announced once and
only when no waiter is left (`EndsOnce`); from which it follows that readers wait only for a
writer or its `notifyAll`, and writers for something that goes on (`NobodyIsOverlooked`).
`NotifyAllEnds` assumes `SemaphoreIsLarge`, twice as many places as other threads: a
`Release` that would go over the limit does nothing, and what is there must be enough.
`DeadlockFree` puts it all together, under the same assumption.  If the mutex is taken, its owner can go on,
or is in `notifyAll` and a waiter it has woken can (`NotifierIsReleased`); for that the invariant
says that the mutex is free exactly if it has no owner.  If it is free, who wants it can go on,
and if all that are in a call sleep without a wake-up, somebody holds the lock
(`NobodyIsOverlooked`, `HoldersAreCounted`).

**AsyncIOPoller_proofs.**  `ResultIsCollectedOnce` and `NotYetMeansInProgress` need one
more fact to be inductive: every request that the system has is pending.  `PollIsTruthful`
(with `AddTwice` FALSE) rests on `ArrayIsCurrent`: a clean array is that of the registered
tasks, and a poll waits for such.  So does `CompletionIsNoticed`, the safety half of
`PollNoticesCompletion`: a registered task that is over is one `aio_suspend` waits for, and stays so
until `poll` returns.

**SocketMuxer_proofs.**  What the theorems need and no run checks: the muxer has
`_mutex` exactly while its loop looks at the list (`MuxerHasMutex`), a connection is listed
once (`ListedOnce`) and is live or was closed in this pass (`ListedAreKnown`), a free place has
no open socket (`FreeAreClosed`), the muxer never has both locks of a connection (`OneLock`), and
`writeAll` is at a listed connection while it has `_mutex` (`WriterIsAtListed`).  Every
action is of one of seven kinds: it leaves list and pool alone (`Quiet`), handles one connection
(`HandleStep`), accepts, takes a place and ends the loop (`ForgetStep`), drops a connection,
passes a check, or cleans up: lemma `StepKinds`, then one lemma for each part of the
invariant.  That at most one place is missing, and not before the loop is over, is part of
`SlotsAccountedFor`: there is one `ForgetStep` at most, for it ends the loop.  That `accept` finds a descriptor is the
pigeonhole (`FreeFd`).  The theorems are `TypeCorrect`, `NoPlaceIsForgotten`,
`NoLockIsLeftBehind`, `WriteAllIsSafe`, by which `writeAll` with `_mutex` in its hands never waits for a
lock that `run()` has, and `WriteAllSeesEveryone`: the list, which `accept` appends to without
`_mutex`, does not change up to the end it had.  `PendingClosesStand` is the safety half of
`PendingCloseIsDone`, for any faults: nothing takes back a request to close (`PendingStays`), and the
muxer does not pass by a connection with such a request and nothing to write (`PendingIsHandled`).  `ReadingNeverBlocks` needs a second invariant: no
two sockets have one descriptor (`FdsAreDistinct`); until `accept` is done, which may reuse a
number, those in the sets are listed connections' (`SetsAreCurrent`); and what `select` found is
ready until the muxer comes to it (`ReadyAhead`), for nobody else takes bytes in
(`HandlesDrift`, `OthersDrift`).

**CircularBuffer_proofs.**  The invariant is `TypeOK /\ PositionsAgree`; the work is in what
the operations do to the contents.  Each moves at most two blocks that do not wrap, so
lemmas say what one block does (`Grown`, `PutBlock`, `TakeBlock`) and two of them (`PutTwo`,
`TakeTwo`), with the remainders of the positions worked out once; `ScannedIs` and `LeastOf` say
which delimiter the scan of `readLine` stops at, without recursion.  The
theorems are `TypeCorrect`, `PositionsDoAgree` and `IsASequence`, the refinement of
`BoundedSequence`: that the two blocks of any call move what is at the front or the end, in
order, as many as the call can, which for `readLine` is one more than its documentation says.

**FileLogger_proofs.**  A file is at least as old as the rotations it has seen: `Aged`
says so, and counts one more for the files that the rotation under way has not come to
(`IsAhead`).  `Rotated` says what that rotation has done so far: above `i + 1` there are only
files to be kept, and the place file `i` is renamed to is free.  `Numbered` bounds the records
by `written`.  Together with the three invariants these are inductive (`IInv`); `Elsewhere`
covers the steps that leave the disk alone, `PutsAppends` and `MovedFile` say what happens to
the contents of files.  `TypeCorrect`, `FilesInOrder` and `BacklogBounded` follow, and
`RecordsKept`: only `Removes` takes records away, from a file that is not to be kept, and
those are old enough.  `LogIsAJournal` is the refinement of `Journal`: what a step does to the
files it does to their union (`SameRecords`, `PutsIsPuts`); and the file that goes is older as a whole
than those that stay, because the files are in order and the rotation removes from the end
(`RemovesForgets`).

Model-checked only: every liveness property (`ShutdownReleasesCalls`, `BlockedPutReturns`,
`SectionKeepsBeingEntered`, `StoppedRunEnds`, `PollNoticesCompletion`, `PendingCloseIsDone`),
which TLAPS cannot prove here because fairness needs `ENABLED`; of the queue, the thread, the
poller and the muxer the safety halves are proved, as said above.  Every invariant, action property and refinement of
the runs that pass is a theorem.

## 6. What is not modelled

- In the modelled parts: thread priorities, names and stack sizes, `Thread::exit`, the
  Windows sides of `Thread` and of asynchronous I/O (where `cancel` also clears
  `_pending`), the destruction of a task whose request is in progress, a body that swallows the unwinding of its own
  cancellation with `catch(...)`; recursive mutexes; getters; the clock itself (a
  time limit above 2^32 ms is cut by the code; here a limit passes at any moment).
  `_cancelled` is a plain `bool` that threads share; it is taken to be read and
  written atomically.  The atomic instructions of `libatomic` are taken to be atomic.
- Of `SocketMuxer`: `init`, the water marks other than `_writeLoMark`, the byte and the flag of urgent
  data (an error in reading it is modelled), `exceptionOccurred` and callbacks that an
  application overrides to do more than its own reading, writing and closing.  Of
  `CircularBuffer`: what section 4 says its callers do not do.  Of `Log`: levels, formats, the
  console; `DynamicObjectPool`, which nothing in the library uses.
- On POSIX, `ReadWriteLock`, `Mutex` and `CondVar` forward to the system; on Windows
  `CriticalSection` does.  Those are the system's contracts.
- Other parts are listed in `PROJECT.json` with the reason: data transformation
  without control state, wrappers of system calls, third-party code, or on the plan.

## 7. The plan

Done: 1-8.  Each later step is a module, its run, and where marked its proofs.

1. `FifoChannel`, `BoundedQueue` - proved.
2. `RecursiveLock`, `CriticalSection` - proved.
3. `Thread` - safety proved.
4. `WindowsCondVar`, `ReadWriteLock` - safety proved.
5. `AsyncIOTask`, `AsyncIOPoller` - proved.
6. `BoundedSequence` and `CircularBuffer` - proved.
7. `StaticObjectPool` and `SocketMuxer` - safety proved.
8. `FileLogger` - proved.
9. `Cache`, `SharedPtr`: link and count structures against an LRU list, a
   count of owners; timers; `BasicBufferedStream` on top of `CircularBuffer`; `BitSet` and
   `AllocationMap` as operators.

The runs are kept few: where a step asks a stronger question, it takes the place of a
weaker run, or joins an existing one through a module that composes both.
