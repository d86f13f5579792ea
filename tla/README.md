# TLA+ verification of c_utils

c_utils is the base library of OpenHarmony: reference counting, locks, queues,
thread and timer classes, the `Parcel` serialisation buffer, and helpers for
files, strings and shared memory. This directory holds TLA+ models of its
stateful parts, TLC configurations that check them on small instances, and
TLAPS proofs for nearly every safety property. `PROJECT.json` maps every definition to the
source lines it models, and lists the runs, the mutants that show each property
can fail, the findings, the hazards and the theorems.

Paths below are relative to the repository; line numbers refer to the checked-out
commit.

## 1. Inventory

| Component | State | Operations | What is hard | What makes it correct |
|---|---|---|---|---|
| `RefBase`, `RefCounter`, `WeakRefCounter`, `sptr`, `wptr` (`base/src/refbase.cpp`, `base/include/refbase.h`) | four atomic counts and flags, a deletion callback, one `WeakRefCounter` per weak family | construct, copy, assign, clear, promote, `AttemptAcquire`, `AttemptIncStrong`, destructors | lock-free; three objects that delete one another | a held `sptr` keeps the object; no access to freed memory; no leak; hooks once |
| `RWLock` (`base/src/rwlock.cpp`) | `lockCount_`, `writeWaitCount_` (atomics), `writeThreadID_` (a plain `std::thread::id`) | `LockRead`, `UnLockRead`, `LockWrite`, `UnLockWrite`, scoped guards | spinning on stale values, nesting | exclusion; a writer gets in |
| `SafeBlockQueue` (`base/include/safe_block_queue.h`) | a bounded queue, a mutex, two condition variables | `Push`, `PushNoWait`, `Pop`, `PopNotWait` | wakeups | no lost wakeup, FIFO, bound |
| `SafeBlockQueueTracking` (same file) | the queue and an atomic count | the same, `OneTaskDone`, `Join` | the count is changed outside the lock | `Join` returns when, and only when, all is done |
| `Semaphore` (`base/src/semaphore_ex.cpp`) | a counter, a condition variable | `Wait`, `Post` | wait without predicate | no more threads inside than permits; no lost post |
| `ThreadPool` (`base/src/thread_pool.cpp`) | a task deque, workers, `running_` | `Start`, `Stop`, `AddTask`, `SetMaxTaskNum` | stop against sleep | each task once; `Stop` returns |
| `Thread` (`base/src/thread_ex.cpp`) | `running_`, `exitPending_`, `thread_`, `status_` | `Start`, `NotifyExitSync`, `NotifyExitAsync` | restart against exit | one child; exit is noticed |
| `Parcel` (`base/src/parcel.cpp`, `base/include/parcel.h`) | data region, two cursors, capacity, object offset table, holders, allocator | `Write*`, `Read*`, rewinds, `SetAllocator`, `ParseFrom`, `InjectOffsets` | growth, padding, failure in the middle of a composite call | bounds; what is written is read back; objects are never read as plain data |
| `Timer` (`base/src/timer.cpp`) | `intervalToTimers_`, `timers_`, `timerToEntries_`, a loop thread | `Setup`, `Shutdown`, `Register`, `Unregister` | callbacks outside the mutex, descriptors shared and reused | no lost or leaked descriptor; events fire; shutdown returns; detached loops end |
| `EventReactor`, `EventDemultiplexer`, `EventHandler`, `TimerEventHandler` (`base/src/event_*.cpp`, `base/src/timer_event_handler.cpp`) | loop flags, descriptor tables, one epoll | `RunLoop`, `Polling`, `ScheduleTimer`, `CancelTimer` | a batch of handlers used after the lock is released | a handler lives while it is dispatched |
| `IOEventReactor`, `IOEventHandler`, `IOEventEpoll` (`base/src/io_event_*.cpp`) | a list of handlers and a cached union of events per descriptor, `count_`, `interestFds_`, two flags | `AddHandler`, `RemoveHandler`, `UpdateHandler`, `CleanUp`, `Clean`, `Run`, the handler's `Start`, `Stop`, `Update`, `Enable*`, `Disable*` | four copies of one fact updated one by one, `UpdateHandler` without the lock, polling under the lock, callbacks after it | epoll knows what the handlers want; a stopped handler is soon quiet; conditions are called back |
| `Observable`, `Observer` (`base/src/observer.cpp`) | a set of observers, `changed_` | `AddObserver`, `RemoveObserver`, `SetChanged`, `NotifyObservers` | the flag is set outside the lock | no change is missed |
| `MappedFile` (`base/src/mapped_file.cpp`) | parameters, a descriptor, a mapped region and a window in it | `Map`, `Unmap`, `Resize`, `TurnNext`, `Clear`, `Change*`, moves | pages against bytes, failure between two system calls, files that change meanwhile | the window shows the file; every page is returned once |
| `UniqueFd` (`base/include/unique_fd.h`), `Ashmem` (`base/src/ashmem.cpp`) | one descriptor each; a size, a protection and an address | moves, `Release`, destruction; create, map, protect, read, write, close | numbers are reused after close; `int32_t` sums | one owner per descriptor; accesses stay inside the mapping |
| `SortedVector` (`base/include/sorted_vector.h`) | a vector | constructors, `=`, `Add`, `Merge`, `Erase`, `EditItemAt` | two kinds copied into each other, −1 as an index | the vector is the sorted bag, or set, of what was put in |
| `SafeMap`, `SafeQueue`, `SafeStack`, `Singleton` | data under one mutex | one critical section each | little | not modelled, see section 6 |
| files, directories, strings, Unicode, dates, error codes, Rust bindings | none of their own | | | not modelled, see section 6 |

**Interactions.** `Timer` runs an `EventReactor` in its own thread; the reactor
owns an `EventDemultiplexer` (epoll) and `TimerEventHandler`s (timerfd); an expiry
calls `Timer::OnTimer` back, which calls the client outside the mutex. `Parcel`
keeps `sptr`s to the `Parcelable` objects it holds and is otherwise used by one
thread. `ThreadPool`, the queues and `Thread` are used by client threads directly.
`RefBase` is the base class under `Parcelable`. `IOEventReactor` owns its epoll
backend and points to handlers its clients own; a client may start or stop handlers
from a callback. The lock classes, `Observable`, `MappedFile`, `UniqueFd`, `Ashmem`
and `SortedVector` stand alone.

## 2. Modules

Each component module states its VARIABLES, one action per critical section or
per atomic access, and its properties. An `MC` module extends it for TLC and
holds only constant values, model values and symmetry sets. `MCSync` and `MCUtilities`
each bring together four components that share nothing: one is extended, the others are
instances, whose assumptions on constants and properties are repeated there by name. The
variable `unit` says which of them a behaviour is about (`Units` are those of a run); the
others stay as they began. Definitions ending in
words such as `Late`, `Always`, `None` that no specification uses are the mutants:
the same operation with one plausible mistake.

### RefBase, RefBaseInduction, RefBaseProofs
One object. A thread's operation is a stack `todo[t]` of steps, and each step is
one access to a shared atomic, so the nested calls `DecStrongRef` → callback →
`~RefBase` → `DecRefCount` interleave with other threads. `IncStrongLoad`,
`DecStrongLoad` and the like are the plain loads in front of a read-modify-write
(they decide nothing, but touch the counter's memory); `AttLoad`, `AttCas`,
`AttReload` and `AttExit` are the loop of `AttemptIncStrongRef`. The assignments are
operations of their own: `AssignSptr` takes the new reference before it gives up the
old one, `AssignSptrFromWptr` the other way round, and a `wptr` that is assigned
leaves its old `WeakRefCounter` last (`DropOld`). `sptrs`, `wptrs`,
`raw` and `acquired` record what each thread owns and are the ghost against which
the counts are compared.

### RWLock, RWLockAbs, SyncProofs
`RWLockAbs` is the promise: a set of readers, at most one writing thread, never
both. `RWLock` is the code, one action per atomic access, with the read guards a
thread holds split into `reads` (counted in `lockCount_`) and `shadow` (taken
inside the thread's own write guard and not counted). The refinement mapping takes
`readers` to `reads` and `writers` to the thread between the successful exchange
and the final store. How threads nest their guards is up to the clients. `Nesters` take a
write guard directly inside a write guard: the code does not count these, so the inner
release frees the lock and the outer guard goes on without it, which harms nobody but the
thread itself. `DeepNesters` do so with a read guard in between (`level` keeps the order of
the scopes): after the inner release the read guard, which was not counted, is taken off
`lockCount_`, and another reader loses its count. What the lock promises is therefore
checked and proved where nobody nests like that, and `rwlock_nested_read` shows what
happens where somebody does.

### SafeBlockQueue, SafeBlockQueueTracking, SafeBlockQueueProofs
A critical section is one action; waiting threads are in `pc` states of their own.
The tracking module extends the queue and splits what the code does not do under
one lock: the increment before the lock in `Push`, and the load and the store of
`OneTaskDone` (the mutex is `holder`). The ghost `raced` says that a `Push` has
raised the count between the two. `Delivered` compares `Log`, the elements taken
followed by those queued, with what each producer has pushed.

### Semaphore, SyncProofs
`asleep` and `woken` are the threads in `cv_.wait`. `permits` is a ghost: the
initial value plus calls of `Post` less returns of `Wait`; `spurious` counts the
wakeups without a notification, at most `MaxSpurious`.

### ThreadPool, Thread, SyncProofs
Critical sections as actions; `running_` is also read without the lock
(`WorkCheck`), and `SetMaxTaskNum` is called at any time, before and after `Start` and while
producers wait. Tasks are a producer and a number; a child of `Thread` is
numbered by the `Start` that made it.

### Parcel, ParcelProofs
Bytes are not modelled; sizes, positions and the 32-bit words that a later read
takes as a length are. A public call is expanded to the sequence of the primitive
reads and writes it makes, so a failure in the middle leaves what the code leaves.
`WriteSteps` and `ReadSteps` are that expansion, and `acc` is the byte range the
last primitive touched. `ReadUnpadBuffer` and `ReadBuffer` are two readings of what
`WriteBuffer` wrote: the first skips the padding, the second (`raw`) stops in front of it. The ghost `torn` says that `dataSize_` was moved without the
cursor or the table: by `SetDataSize`, or by a `RewindWrite` whose `realloc` failed. Sizes are the real ones (200 KiB default maximum, 4 KiB
threshold, object size of `parcel_flat_binder_object`).

### Timer, TimerProofs
Composes `Timer` with the reactor classes, because the properties relate their
states. A critical section of `Timer::mutex_` is one action together with the
reactor calls made inside it; `EpollWait`, `LookUp`, `HandleEvents`, `OnTimer`,
`NextEntry` and `EntriesDone` are the separate steps of the loop thread between
which clients run. Descriptor numbers are reused after close, and `held[l]` is the
set of handlers the loop keeps alive by `shared_ptr`. `forever` is a timeout of −1. The ghost
`detached` has the loops that `Shutdown` detached: they go on by themselves, and a later
`Setup` switches them on again. `PseudoTask` is the one-shot timer that `Shutdown` schedules
to wake a loop whose `epoll_wait` has no timeout.

### IOEventReactor, IOEventReactorProofs
A critical section is one action, except that the three parts of
`UpdateToDemultiplexer` (`ComputeMask`, `ModifyEvents`, `StoreMask`) are steps of
their own, since `UpdateHandler` runs them without the mutex. `kernel` is what epoll
has registered and `interest` what the backend believes it has; `slot` is the cached
union and `list` the handlers it is the union of. `count_` keeps its width. The loop
is `LoopTop`, `LockToPoll`, `Polling`, `HandleEvents` and one `Execute` per callback.
`LockToClean` takes the mutex for `Clean` and `CleanUp`; the descriptor that `Clean` is asked
about may lie beyond the table.
`trouble` marks the descriptors on which a system call failed, an unlocked update
overlapped another call, `Clean` reached beyond the table, or the descriptor was closed
while registered: there the four copies may disagree for good, and the properties say so.

### MappedFile, UtilitiesProofs
A method is an operator from the object and the system to the set of its outcomes,
so that each system call may fail at its place in the order of the code, and an
action commits one outcome. `Map` is four actions (`MapNormalize`, `MapOpen`, `MapSize`,
`MapMmap`), cut at its `FileExists`, its `open` and its `ftruncate`, since others may create
or grow the file there; `at` is the step that comes next and `local` the descriptor
that is not yet `fd_`. The other methods are one step each. Units are fractions of a page; `sys.pages` is the page
table. Three ghosts name what the code gives up: `skewed` (a `Resize` after a
`TurnNext` inside the region puts the window back and leaves `offset_`), `lost` (a
`TurnNext` that leaves `size_` smaller than the region, of which `Unmap` then returns
only a part) and `cut` (the files that an `OpenFile` which took them for new has shortened, or
removed while another object had them open).

### Descriptors, Observer, SortedVector, UtilitiesProofs
`Descriptors` puts `UniqueFd` and `Ashmem` over one table of descriptors whose lowest
free number the kernel gives out next; `raw` are those the caller has to close. A creation
goes call by call (`AshmemOpen`, `AshmemCreate`, `CreateAshmem`), and each of the calls may
fail (`AshmemCreateFails`, whose `ClosedOnError` is the `close` in front of the error return).
An object is also constructed from any descriptor and any size, as its constructor allows.
`Observer` cuts `NotifyObservers` at the test of `changed_`, at `ClearChanged` and at
each `Update`, because `SetChanged` takes no lock; `version` stands for the subject's
data, which `Update` reads. `SortedVector` has one vector of each kind and `held`,
the bag or set that the same calls would give.

## 3. Runs

State counts are TLC's distinct states.

| Run | Instance | Checks |
|---|---|---|
| `refbase_promote` (730 k) | 3 threads, one of them using the IPC calls, 2 `WeakRefCounter`s, 3 creating operations, both lifetimes | `NoUseAfterFree`, `CountsExact`, `NoLeak`, `HooksOnce` |
| `sync` (39 k) | `RWLock`: 3 threads that read and write, one nesting write guards directly, one read guard each, write-first; `Semaphore`: 3 threads, value 1, 2 spurious wakeups; `Thread`: 2 callers, 3 starts; `ThreadPool`: 2 workers, 2 producers, limits 0, 1, 2 set at any time; fair | `Exclusion`, `ImplementsRWLockAbs`, `WriterEnters`; `NoLostPost`, `WithinPermits`; `OneChild`, `SyncMeansExited`, `SyncReturns`; `EachTaskOnce`, `TasksRun`, `StopReturns` |
| `tracking` (139 k) | 2 producers, 2 consumers, room for 2, 3 items, fair | `NoLostWakeup`, `Delivered`, `JoinWaitsForAll`, `WaitersReturn` |
| `parcel` (2.5 M) | every layout of value with sizes around 64 B, 4 KiB and 200 KiB, objects mixed with plain data, failing allocations | `AccessesInBounds`, `RoundTrip`, `RoomUpToMax`, `ReadsAvoidObjects`, `ObjectsTracked` |
| `timer` (75 k) | 2 events, 2 descriptors, 1 loop, bounded and unbounded epoll timeout, fair | `CallbackAfterExpiry`, `DescriptorsMatchEvents`, `EventsAreCalled`, `ShutdownReturns`, `DetachedLoopsEnd` |
| `io_reactor` (410 k) | 2 handlers on one descriptor beyond the initial table, 2 applications, 3 calls, 1 failing system call, finite and infinite poll, fair | `Registered`, `LateOnce`, `CallbacksDue`, `CallsReturn` |
| `utilities` (1.6 M) | 2 mapped files on 2 paths, 5 calls, 1 fault; 2 `UniqueFd` and 1 `Ashmem` on 3 descriptors, 3-bit `int32_t`; 2 subjects and 2 observers; 2 vectors of up to 4 items | `WindowShowsFile`, `PagesAccounted`; `DescriptorsOwned`, `AccessInside`; `NoChangeMissed`; `HoldsInOrder` |

Five runs end in a violation of what a comment or a guide says, which the findings in
`PROJECT.json` quote:

* `refbase_refuse`: a promotion refused by `CanPromote` keeps the weak reference it
  counted on entry (`refbase.cpp:425`), so `CountsExact` fails.
* `tracking_join`: `Join` returns before all tasks are done (`JoinBlocksOnAny`), when
  a `Push` raises the count between the load and the store of a `OneTaskDone`.
  `JoinWaitsForAll` shows that this is the only way.
* `rwlock_nested_read`: a thread nests a write guard in a read guard in a write guard. Its
  `UnLockRead` after the inner `UnLockWrite` (`rwlock.cpp:52`) takes another reader's count
  off, and a writer enters beside a reader, neither of which nests (`BystandersExclude`).
* `timer_restart`: `Setup` switches on the loop that an earlier `Shutdown(false)` detached and
  that has not ended yet (`timer.cpp:42`); two loops then dispatch, and a `Shutdown(true)`
  joins only the new one, so that an event still runs after it (`ShutdownWaits`).
* `mapped_stale`: `isNewFile_` survives a `Map` that fails and a change of path, and a later
  `Map` truncates a file that was there (`mapped_file.cpp:169`, `ContentsKept`).

**Bounds.** Two or three threads suffice for the pairwise races the properties are
about, and the third makes a bystander of the race possible. `MaxOps`, `MaxItems`,
`MaxTasks`, `MaxStarts`, `MaxCalls` and `MaxTimers` bound how often clients call;
they are large enough that each error path and each wrap of a life cycle (create,
drop all, promote; start, exit, start; register, fire, reuse the descriptor)
happens. `MaxPermits` and `MaxBacklog` bound the semaphore's counter, `MaxSpurious`
its spurious wakeups. In `io_reactor` both handlers share a descriptor, which is where
unions, shortcuts and removals interact, and three calls are one more than any two
that disturb each other. In `MappedFile` a page has two units and the file ends inside
its third page, so that a window can end inside a page, at its end and beyond the
file; five calls are map, turn, turn, resize and unmap, or the same with a failure and
a second object. `Ashmem`'s arithmetic has 3 bits: the region of 3 is above 2^(w−2),
where the sum of an offset and a size can wrap, and the one of 1 below.

**Fairness.** Weak fairness is given to each thread inside a call, which is
what a preemptive scheduler provides; a spinning or blocked action is only taken
when enabled. `RWLock`: also on leaving a guard, since a critical section ends; for
a write guard it is strong fairness, because the reads a thread takes inside it
come and go before the scope closes. `SafeBlockQueue`: the consumers keep popping.
`SafeBlockQueueTracking`: strong fairness on the first step of `OneTaskDone`, because
the mutex it needs is released and taken again and a thread that asks for it gets it
eventually. `Timer`: the loop threads, the expiry of timers and a `Shutdown` under
way. `IOEventReactor`: the loop thread and a thread inside `UpdateToDemultiplexer`
run on; a thread that wants the mutex gets it if it is free again and again (strong
fairness), as the loop releases it in every round. No fairness is assumed of clients starting calls nor of spurious wakeups.

**Deadlock** is checked except where the system may come to rest: a semaphore nobody
posts and a stopped pool (a step of rest in `SyncNext`), a timer after shutdown, a reactor
whose clients have made their calls, and the units of `utilities` when theirs are used up. `RefBase`, the queues, `RWLock`,
`Thread` and `Parcel` have an explicit end state or never stop.

**What the properties leave out on purpose.** While modelling, the code was seen to
do the following, and the properties are worded around it:

* `refbase.cpp:81`: promoting a `wptr` of an object that never had an `sptr` does not
  call `OnFirstStrongRef` (`refbase.h:575`); `HooksOnce` only bounds the calls.
* `rwlock.cpp:85`: the inner of two nested write guards frees the lock, so that the thread
  goes on in its outer guard beside others; `Exclusion` speaks of the threads that do not
  nest. With a read guard in between they are harmed too (`rwlock_nested_read`).
* `rwlock.cpp:37`: a reader that has passed the test of `writeWaitCount_` may still
  overtake a writer that begins to wait (`rwlock.h:68-69`), and a thread that takes a
  second read guard while a writer waits deadlocks with it.
* `semaphore_ex.cpp:24`: a spurious wakeup passes `Wait`; `WithinPermits` counts them.
* `thread_pool.cpp:58`: `Stop` leaves queued tasks in the queue
  (`docs/knowledge/threading.md:22` says it empties it). `thread_pool.cpp:105`:
  `ScheduleTask` notifies `acceptNewTask_` only while there is a limit, so a producer that
  waits when `SetMaxTaskNum(0)` takes the limit away is not woken and its task never runs;
  `TasksRun` excepts it.
* `thread_ex.cpp:146`: a `Start` between the exit and the wakeup of a `NotifyExitSync`
  makes it wait for the new child. `thread_ex.cpp:138`: called from `Run` it returns
  `WOULD_BLOCK` (`docs/knowledge/threading.md:19` and `:29` say it deadlocks).
* `parcel.cpp:800`: `WriteStrongParcelable(nullptr)` returns true though its write
  failed. `parcel.cpp:1508`: `ReadVector` returns true when the length could not be
  read. `parcel.cpp:267`: `SetAllocator` leaves an emptied region to the new allocator.
  `parcel.cpp:967`: a failed `realloc` leaves `RewindWrite` half done. `parcel.cpp:872`:
  `ReadBuffer` leaves the padding of `WriteBuffer` unread, which the test at
  `utils_parcel_test.cpp:1398-1402` expects; in `RoundTrip` it ends at the last byte of the
  buffer, the other readers behind the padding.
* `event_reactor.cpp:59`: `CleanUp` forgets handlers that `Timer`'s tables still point
  to, so events of a second `Setup` may never fire. `timer.cpp:71`: with timeout −1
  and nothing registered `Shutdown(true)` detaches the loop, which may be in a
  callback (`timer.h:85-87`), besides what `timer_restart` shows. `timer.cpp:168`: `timers_`
  keeps the numbers of closed descriptors, and `DoUnregister` cancels whatever has such a
  number now. If that is the pseudo-task of a `Shutdown`, a loop in an `epoll_wait` without
  timeout is not woken; `DetachedLoopsEnd` excepts it, and a loop that `Setup` switched on.
* `thread_pool.cpp:63`: `Stop` does not notify `acceptNewTask_`; a producer blocked on a
  full queue sleeps on.
* `io_event_reactor.cpp:293`: `Run(-1)` polls with the mutex held, so `Start` and `Stop`
  wait until something happens on a descriptor; `CallsReturn` excepts it.
  `io_event_reactor.cpp:103`: when epoll refuses, `AddHandler` fails but leaves the
  handler linked. `io_event_reactor.cpp:129`: `UpdateHandler` does not lock.
  `io_event_reactor.cpp:326`: `Clean` unlinks handlers without lowering `count_`, so
  the loop goes on polling an empty set. `io_event_reactor.cpp:322`: `Clean` of a descriptor
  beyond the table reads past its end. A callback may run once after `Stop`.
* `mapped_file.cpp:182`: a file that somebody creates between the test of `FileExists` (`:70`)
  and the `open` without `O_EXCL` (`:163`) is truncated as well; so is, of two objects that
  both found no file, what the first has mapped. `WindowShowsFile` excepts such a file.
  `mapped_file.cpp:427`: after a turn that shortens the window, `Unmap` leaves pages of
  the region mapped. `mapped_file.cpp:353`: `Resize` after a turn inside the region moves
  the window back but not `offset_`.
* `ashmem.cpp:188`: descriptor 0 is never closed. `ashmem.cpp:174`: a failed
  `GetProtection` counts as every permission. `ashmem.cpp:295`: the sum wraps for regions
  of 2^30 bytes and more; `WriteToAshmem` is saved by `memcpy_s`, `ReadFromAshmem` is not.
  Mapping twice, or closing while mapped, leaves a mapping behind. `ashmem.cpp:144`: the
  destructor unmaps and closes, which `DescriptorsOwned` relies on;
  `docs/zh-cn/c-utils-guide-ashmem.md:77` says that it does neither, and `ashmem.h:79` asks
  the caller to close.
* `observer.cpp:72`: the argument passed to `NotifyObservers` may be lost or arrive late
  when two threads notify; `NoChangeMissed` is about observers that read the data.
* `sorted_vector.h:207`: `EditItemAt` may bring a duplicate into a vector without them.

## 4. Proofs

Eight modules hold theorems, all checked by TLAPS. Each states for every value of the
constants what a run checks on one instance. In each, the property alone is not
inductive; the named strengthenings below are, and TLC was used to check them on the
instances of the runs before they were proved.

**RefBaseInduction, RefBaseProofs**, for any finite sets of threads and `WeakRefCounter`s
and any number of operations below 2^28 − 1, both lifetimes

* `RefBaseInvariant`: a thread inside an operation has a stack of steps still to take. The
  counters are exact only between operations, so the invariant speaks of the steps under
  way as well. Its parts:
  * `Stacked`: only certain steps lie below a step on a stack (`Below`), so what a thread
    has still to do is known from the set of its steps. This replaces an induction over
    the stacks.
  * `StrongInv`, `WeakInv`, `RefInv`, `WrcInv`: each counter is the number of the handles
    and of the threads with a step that has raised it for a handle to come or has still to
    lower it for one that is gone (`gains`, `drops`, `wgains`, `wdrops`, `refdrops`,
    `users` ...). `OwingInv`: one thread at most has still to take
    `INITIAL_PRIMARY_VALUE` off, and exactly when the count is above it; `BoundInv` keeps
    the references below that value, so the two cannot be confused.
  * `LifeInv`, `CallbackInv`, `CounterInv`: one thread at most destroys the object, and
    when nobody can reach it (`Gone`); the same for the `RefCounter`. `HookInv`: the hooks
    called and under way against the strong count.
  * `RawInv`, `TagInv`, `BackInv`: what keeps the object for a thread that makes another
    reference: its own handle, or that it is the only one to know of the object.
  Each action has a lemma (`...Keeps`). The lemmas of `RefBaseInduction` reduce it to what
  the action does to the steps of one thread: a sum over the threads changes by what one
  summand changes by (`TotalStep`), and a part whose ingredients the action leaves alone
  is kept (`StrongStep`, `WrcStep`, `BackStep` ...).
* `NothingUsedAfterFree`, `HooksRunOnce`: `NoUseAfterFree` and `HooksOnce` follow, whatever
  `CanPromote` answers: the weak count that a refusal leaves behind keeps memory too long,
  never too short (`WeakInv` is an inequality in that case).
* `CountersAreExact`, `NothingLeaks`: `CountsExact` and `NoLeak` follow where `CanPromote`
  never refuses; `refbase_refuse` shows that the hypothesis is needed.

**SyncProofs**, about four primitives that do not interact; the theorems on `Semaphore`,
`Thread` and `ThreadPool` are about their instances `S`, `T` and `P` in `MCSync`, which the
runs check as well

* `LockInvariant`: `Spec => []Inv` for `RWLock`, for every set of threads, every
  finite or infinite set of guards, both modes and every set of threads that nest write guards
  directly. The hypothesis `DeepNesters = {}` of this and the next two theorems is what
  `rwlock_nested_read` shows to be needed.
  Exclusion alone is not inductive. The strengthening says that `lockCount_`
  determines the owners: it is −1 exactly when some thread is in the write section
  (`WriteIsOwned`), no counted read guard is held then (`WriteHasNoRead`), and
  otherwise it is the number of counted guards (`ReadsCounted`); further, the owner's
  identifier is set only inside a write guard and inside every one of a thread that
  does not nest (`IdIsWriter`, `GuardIsOwner`), and threads in the middle of a call
  hold what they rely on (`CountWasRead`, `GuardIsNew`, `NoUpgrade`); `AtLevel` says that the
  read guards a thread has were constructed inside all of its write guards.
* `MutualExclusion`: `Exclusion` follows.
* `Refinement`: every step of `RWLock` is a step or a stutter of `RWLockAbs`.
* `SemaphoreInvariant`, `PostIsNotLost`: for every number of threads, spurious
  wakeups included. `count_` is the permits less the threads inside `Wait`, and a
  negative count bounds the sleepers from above.
* `PermitsAreRespected`: the limit is exceeded by at most the number of spurious
  wakeups. `EntryIsRestricted` is the case without any.
* `OneChildRuns`: `OneChild` with the types is inductive: it already relates
  `running_`, `thread_` and the child.
* `SyncReturnsAfterExit`: the action property `SyncMeansExited` from that invariant.
* `TasksRunOnce`: a worker has a task exactly while it runs one, nobody acts before
  `Start` (`Holding`), and what is counted is finite although the constants need not be
  (`TasksFinite`).

**SafeBlockQueueProofs**, about the composed `TrackSpec`

* `WakeupsAreNotLost`: while a consumer sleeps, the elements queued are at most the
  consumers already woken (`Awake`, and the mirror image for producers). It is proved
  by counting threads per program location; each step moves one thread.
* `JoinWaits`: until a `Push` races with a `OneTaskDone`, the counter is the number of
  producers inside `Push`, elements queued and elements in work, and the value that
  `OneTaskDone` has loaded is current (`CountExact`, `HolderWorks`).
* `ElementsAreDelivered`: an insertion appends to `Log` and a removal moves the head of the queue
  from one half of `Log` to the other.

**UtilitiesProofs**, about `UnitsSpec`

* `ChangesAreSeen`: an observer that has not seen the last version is due: the change
  is still being made, or flagged with a subject about to test the flag, or some subject
  has it in its copy of the list (`Pending`).
* `DescriptorsHaveOneOwner`: the open descriptors are divided among the objects and the
  caller, each with one owner (`OwnedInv`), and a creation is only under way with the
  descriptor it opened (`InCreation`), so that its error returns close their own.
* `AccessesStayInside`: a mapped object has a live mapping of its size and no more
  protection than was asked for (`MapInv`); `NoWrap` is the arithmetic of `CheckValid`
  below 2^(w−2).
* `VectorsHoldInOrder`: a vector is sorted and its bag is the one that should be held
  (`VectorInv`), which is inductive. The two binary searches are characterised once for
  sorted vectors (`Bounds`, `Searches`); inserting and concatenating add up bags
  (`InsertedCounts`, `ConcatCounts`); a sorted arrangement of every vector exists
  (`SortExists`), so `sort`, which chooses one, has the properties of `std::sort`; and
  `unique_copy` leaves one of each item of a sorted vector (`UniqueItems`).
* `WindowsShowTheFile`, `PagesHaveOneObject`: the invariant `FilesInv` says
  that an address has one page (`SystemOK`), that regions are disjoint and have all pages
  unless some were written off (`FilesOK`), and of each object (`ObjectOK`) that a mapped
  one has a region of whole pages, all of them pages of its file from one page on
  (`RegionIs`, `Backed`), that the size and offset of a normalised one fit the file or the
  file is new (`NormedOK`), and that an open file is not empty (`OpenOK`). `NormedOK` and
  `OpenOK` are needed since a window is as good as the parameters an earlier, perhaps
  failed, call has left. A method is shown to be a step `Moves(m, s, n, t)` of its object:
  it keeps `ObjectOK`, gives up no page and no file but its own, and takes only free pages.
  Such steps compose (`MovesThen`), so `Map`, `TurnNext`, `Clear` and the others follow
  from their parts (`NormalizeIs`, `OpenFileIs`, `MmapIs`, `UnmapIs`, `MremapIs` ...), and
  the other objects notice nothing (`Others`, `MovesFiles`). The arithmetic of pages is
  done once (`Quotient`, `Rounded`), and `PlaceFits` shows that a free place exists.

**ParcelProofs**

* `AccessesAreInside`: `RegionInv` says that the data lies in the allocation and a writer
  appends to it (`Room`), that the rest of a call is a well-formed sequence of primitives
  (`Running`), that a padding shorter than a word has a word in front of it (`Started`),
  and that a roll-back goes backwards (`Marked`).
* `RoomIsFound`: from `RegionInv` and lemmas on `CalcNewCapacity` (`CapacityEnough`).
* `ReadsStayOutOfObjects`, `TableIsExact`: `TableInv` adds that the offsets are sorted
  and inside the data (`Lined`), that the objects `nextObjectIdx_` skips lie behind the
  read cursor, also when `ReadString16` takes a length back (`Behind`), and that the
  object being written will fit the table and lies behind all others (`Placed`).
* `ValuesReadBack`: `RoundTrip` speaks of the end of a reading call only. `ValueInv` says
  where everything is before: `Offset(c, d)` is where primitive `d + 1` of the value `c`
  stores its bytes, in closed form for each layout, which `Layout` shows to agree with
  what `WriteSteps` does, for vectors and strings of every length. A value that was
  written whole has its lengths, its object and no other object at these places (`Laid`,
  `Intact`); a writing call has come as far as its remaining primitives say, behind all
  other values (`Writing`); a reading call that started at a value of its own kind is at
  one of the places listed in `Reached`, with the primitives left that lead from there
  to the end (`Reading`). Each reader then finds the length its writer stored
  (`OneLength`), enough bytes outside objects (`Readable`) and its padding (`Skips`).

**TimerProofs**, for any number of loop threads, where the run has one

* `CallbacksFollowExpiry`: a handler in a table is open and one that is due has expired
  (`Kept`), `taskQue` keeps its handlers open and unreplaced (`HeldOpen`), and `OnTimer`
  runs for one of them (`Served`).
* `EventsHaveTimers`: on top of that, a one-shot event has a descriptor of its own
  (`OwnFd`), `OnTimer` visits entries of a single interval and erases one-shot ones only
  (`Visited`), and until a `CleanUp` an open timer has an event of its interval or waits
  in a `taskQue` to be destroyed (`Used`).

**IOEventReactorProofs**, for any handlers, descriptors, threads and number of calls

* `ReactorInvariant`: on a descriptor without trouble at most one thread is between the
  computation of the mask and its store, and it holds the union of the events of the
  list; `interestFds_` and epoll agree with what epoll was last told, which is that union
  while the thread has still to store it and the slot otherwise; the slot covers every
  linked handler that no call is about (`SyncInv`). `CallInv` says what a call relies on
  between its steps and that two calls are about different handlers, `ListInv` that a
  handler is linked at most once and on its own descriptor, `LateInv` that a stopped
  handler is not linked and that the loop has at most one copy of it left.
* `HandlersAreRegistered`, `OneLateCallback`: `Registered` and `LateOnce` follow.

`RemoveNode` and the copy of `HandleEvents` walk the list (`Kept`, a recursive function).
What they leave is proved for lists of every length by the least-number principle
(`Least`, from the well-foundedness of `<`, and `KeptIs`): a first prefix for which the
claim fails cannot exist. The library's induction theorems, which take a predicate as
parameter, are not needed for that.

**Assumptions.** Those named in the modules (`RefBaseConstants`, `RWLockConstants`,
`SemaphoreConstants`, `ParcelConstants`, `TimerConstants` and so on), which TLC evaluates in the runs. They say
what the constants are (natural numbers, finite sets of threads where the proof counts
threads, a value `None` that is no member). `RefBaseConstants` also says that one thread at
most uses the IPC calls, the simplest way for a caller to ensure the thread safety that
`refbase.h:523-530` leaves to it, and that there are fewer
operations than `INITIAL_PRIMARY_VALUE`: with 2^28 references the code itself could not
tell a referenced object from a new one. `PowersOfTwo` in `MCUtilities` spells out two
facts of exponentiation, of which the provers know nothing; `UnitsConstants` makes the
items of vectors integers, as totally ordered as `TYPE`, and the objects of the two classes
that own descriptors different ones. `MappedFileConstants` makes
offsets, sizes and hints integers, negative and unaligned ones included, and the page any
positive number of units. `ReactorConstants` has the
descriptors below `2 * MaxFd`, the size to which `io_event_reactor.cpp` lets its table
grow, and fewer calls than `count_` has values. The bounds of the runs
(`MaxItems`, `MaxTimers` and the like) are constants too, so the theorems hold for each
of their values.

**Only model-checked.**

* Liveness (`WriterEnters`, `WaitersReturn`, `TasksRun`, `StopReturns`, `SyncReturns`,
  `EventsAreCalled`, `ShutdownReturns`, `DetachedLoopsEnd`, `CallbacksDue`, `CallsReturn`): fairness and
  `ENABLED` are out of the prover's reach.

## 5. Limits of the models

* Atomics are sequentially consistent. `refbase.cpp` uses relaxed operations on
  counters; read-modify-writes of one variable are still totally ordered, but
  reorderings between variables are not explored.
* `RefBase`: tracker, copy and move operations of the base class are left out. One
  thread uses the IPC protocol, whose comment leaves thread safety to the caller.
* `Parcel`: overflow checks on `size_t` and `int32_t` are not modelled, sizes stay far
  from them. `Marshalling` of a user class is one integer or one object.
* `Timer`: identifiers do not wrap, system calls other than the allocation of a
  descriptor do not fail, `EINTR` is not modelled. `Unregister`'s several
  `CancelTimer` calls happen in one step, under `Timer::mutex_`.
* `ThreadPool` is started and stopped once; `Thread`'s `Run` is its return value.

* `IOEventReactor`: calls on one handler do not overlap, `SetFd`, handlers without a
  callback, the growth of the event array and a second `SetUp` are left out. The
  unlocked `UpdateHandler` reads the list as it is at that moment; what a torn pointer
  could do is not explored.
* `MappedFile`, `Ashmem`: contents of memory are not modelled, and calls of one object
  do not run concurrently (the classes have no lock). Other objects and writers of the file
  act between calls and between the steps of `Map`; `TurnNext`, `Resize` and `Clear` are one
  step. Once a path is in `cut`, a descriptor opened on it before need not be the file that
  is there now, and nothing is said of it.
* `Observer`: `Update` only reads; `SortedVector`: `TYPE` is ordered totally, and the
  caller of `EditItemAt` keeps the order as `EditArray`'s note demands.

## 6. Not modelled

* `SafeMap`, `SafeQueue`, `SafeStack`: each call is one critical section of one mutex
  (`SafeMap`'s assignment clones the other map first and holds no two mutexes), so a
  model would be a sequential container and its properties those of `std::map` and
  `std::deque`.
* `Singleton`, `DelayedSingleton`, `DelayedRefSingleton`: a double-checked creation
  under a mutex with an atomic `shared_ptr`. The plain pointer of `DelayedRefSingleton`
  is read without a lock, which C++ leaves undefined; as one aligned word it is null or
  final, and nothing else could be said of it here.
* Files and directories (`file_ex.cpp`, `directory_ex.cpp`): sequences of system calls
  without state of their own; a property would describe the kernel.
* Strings, Unicode, dates, error codes, macros, logging: conversions of characters
  and constants, without state.
* Rust bindings: declarations and wrappers that forward to the C++ code.
* `RefTracker` and the debug builds of `RefBase`; memory orders weaker than
  sequential consistency, which TLC cannot enumerate at this size.

## 7. Plan

Done: every stateful part of the library: `RefBase`; `RWLock` with its abstraction and
proofs; `SafeBlockQueue` and tracking; `Semaphore` with proofs; `ThreadPool`; `Thread`;
`Parcel`; `Timer` with the reactor; `IOEventReactor`; `MappedFile`; `UniqueFd` and
`Ashmem`; `Observer`; `SortedVector`.

Proved: the safety properties of `RefBase`, `RWLock` (with its refinement), `Semaphore`,
`Thread`, `ThreadPool`, the queues, `Timer`, `IOEventReactor`, `Observer`, `UniqueFd`,
`Ashmem`, `SortedVector`, `MappedFile` and `Parcel`: every safety property of the runs.

What remains worth doing, in order:

1. An abstract lifetime specification for `RefBase` (alive while owned, freed
   once) refined by the counts, and an abstract bounded FIFO for `SafeBlockQueue`.
2. RefBase's own copy and move operations; a second `SetUp` of the two reactors.
