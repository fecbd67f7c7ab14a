# A verification project for MemProcFS

MemProcFS presents physical memory (a dump or a live target read through
LeechCore) as processes, virtual memory and a virtual file system. The engine
is the C library under `src/vmm`; everything else in the repository is a front
end (mount, Python, Java, Rust, C#), an example or vendored code. This
directory models the engine's own machinery - threads, locks, reference
counted objects and collections, caches, handle life cycle, process table,
forensic mode - in TLA+, checks it with TLC and proves parts of it with TLAPS.

1. Inventory - 2. Modules and code - 3. Runs and bounds - 4. Fairness - 5. Proofs -
6. Findings and observations - 7. What is left out - 8. Plan

## 1. Inventory

| component | state | operations | hard behaviour | module |
|---|---|---|---|---|
| locks, events (`oscompatibility.c`) | `xchg` and `c` of an SRW lock, events on top of it | acquire, try, acquire with timeout, release, set/reset/wait | futex sleeps, skipped wakeups, a waiter that holds the event while it passes | `SRWLock`, `OsEvent` |
| objects (`ob/ob_core.c`) | reference count, cleanup callbacks at 0 and at 1 | alloc, `Ob_XINCREF`, `Ob_XDECREF` | the callback runs after the count was dropped | `ObContainer`, `VmmCache`, `VmmParallel` |
| containers (`ob/ob_container.c`) | pointer to an object, lock | get, set, exists, close callback | a get that races a set that drops the last reference | `ObContainer` |
| sets, maps (`ob_set.c`, `ob_map.c`) | entry tables and hash indexes | push, pop, remove, get, filter | re-hashing on removal, growth, a filter that removes | `ObHash`, `ObSet`, `ObMap` |
| cache map (`ob_cachemap.c`) | map and circular age list | get, push, remove, clear | eviction, removal inside a get | `ObCacheMap` |
| byte queue (`ob_bytequeue.c`) | ring of packets | push, pop, peek | wrap-around | `ObByteQueue` |
| work pool (`vmmwork.c`) | queues of units, sets of available / all / exited threads, wakeup events | queue, run, wait, interrupt, close | lost wakeups, work queued behind an abort, unit and event life time | `VmmWork` |
| parallel-for (`vmmwork.c`) | a counted object with a table, an index and an event | fill, queue, take, wait, refill | refill against stragglers, callback at count 1 | `VmmParallel` |
| handle life cycle (`vmmdll_core.c`) | allow-list of handles, handle count, thread counts, parent/child table | initialize, duplicate, reserve/return, close, close all, attach/detach | close racing calls, children closed by the parent's own pool | `VmmHandle` |
| page caches (`vmm.c` 29-594) | regions of empty / in-use / total lists, hash buckets, reference counts | get, reserve, return, invalidate, clear, close | eviction racing readers, a callback at count 1 | `VmmCache` |
| process table, refresh (`vmm.c` 700-1372, `vmmproc.c`, `vmmwin.c`) | visible table, next table, process objects, persistent parts | get, get next, create entry, finish, refresh | readers during a refresh, reuse of process objects | `VmmProc` |
| forensic mode (`fc.c`), its plugin calls (`pluginmanager.c`) | driver thread, two buffers, a dozen units | initialize, feed, finalize, fail | double buffering, stages, abort | `VmmForensic` |
| scatter, search, VMs, remote instance, logging, statistics | descriptors, contexts with abort flags | prepare, execute, start, cancel | described with the component in `PROJECT.json` | - |
| page-table walks, PE/PDB/registry/network parsers (`mm/`, `vmmwin*.c`, `pe.c`, `pdb.c`) | none of their own, or filled once | parse | input formats, not interleavings | - |

The components call each other in a fixed direction: API callers reserve a
handle, read the process table and the page caches, and hand long work to the
pool; the pool runs the refresh loop, plugins and forensic mode; all of them
share reference counted objects through containers and collections, whose locks
are SRW locks. Closing a handle reverses the direction: the closing thread takes
the handle off the allow-list, closes its children on its own pool, sets the
abort flag, waits for the API calls and the workers to leave, detaches from its
parent, and only then frees the sub-systems. Nothing is persisted and nothing is
restarted: there is no crash recovery. The only messages are those of the remote
instance, carried by LeechCore.

What makes each component correct, and is hard to reach with a test:

- *Locks and events.* One holder at a time; the release that skips the system
  call leaves no sleeper behind; timeouts and signals do not make the counter
  drift; an event that is set is seen by its waiter.
- *Objects and containers.* The count of an object is the number of references
  to it; nothing is used after it was freed; everything is freed once.
- *Collections.* Each operation does to the table what its name says at every
  fill level and with every collision.
- *Work pool.* A queued unit is run or, on abort, released; no worker sleeps out
  of reach; a waiting call outlives its units; closing ends, and when it has
  ended no thread touches the pool.
- *Parallel-for.* Every selected process is handed out once; the table is not
  refilled under a unit that has yet to read it; the call returns.
- *Handle life cycle.* A call only reaches a live handle; the last close of
  several, and no other, tears it down, once; a parent outlives its children.
- *Page caches.* A page object has one owner; a lookup returns the page that was
  asked for, and content that is not older than a finished write.
- *Process table and refresh.* A table that is visible is whole; an iteration
  returns every process that lived all along, and ascends; the counts of tables and
  processes are exact; what is persistent survives a total refresh.
- *Forensic mode.* A buffer is not fed while it is refilled; the stages keep their
  order; units end before what they use is gone; an initialization ends.

## 2. Modules and how they correspond to the code

| module | models | state corresponds to |
|---|---|---|
| `VmmWork` | the pool (`vmmwork.c`) and the shutdown order of `VmmDllCore_CloseHandle` | `H->work`'s sets and maps, the wakeup event of each thread, `H->fAbort`, the two thread counters, a reference count per unit, a program counter per thread |
| `SRWLock` | the futex lock of `oscompatibility.c` | `xchg`, `c`, a program counter per thread |
| `Mutex` | abstract: what the callers of that lock rely on | the holder |
| `OsEvent` | manual-reset events on that lock; extends `SRWLock`, used by `VmmParallel` | as `SRWLock` |
| `Event` | abstract: what a caller that waits for one signal relies on | is it set, who waits |
| `VmmParallel` | `VmmWork_ProcessActionForeachParallel_Void`, composed with the low priority half of the pool (queue, sleep and wakeup) and with `OsEvent` | the shared object (`iPID`, `dwPIDs`, count, event), queued units, program counters |
| `VmmHandle` | allow-list, reservation, duplication, initialization, closing, parents and children | the global array and its count, `dwHandleCount`, `cThreadExternal`, `childvmm` of every handle, whether its memory is allocated |
| `VmmCache` | one page cache with the physical reads and writes and the refresh that use it (`vmm.c`) | three lists and a bucket table per region, links, count, address and content of each object, `iR`, the locks |
| `VmmProc` | the process table, its readers, the refresh | tables with their order, next table and counts, process objects, reference counts |
| `VmmForensic` | `FcInitialize_ThreadProc` and the units it queues | program counter of the driver, state of each unit, buffers, FindEvil map |
| `ObContainer` | container and the counts of the objects in it | the lock, `pOb`, counts, whether an object is allocated |
| `ObHash` | the open-addressed index shared by set and map: insert, remove with re-hashing, look up, grow | functions from slots to entry indexes |
| `ObSet`, `ObMap` | set and map on that index | the table, its hash index (two for the map) |
| `ObCacheMap`, `LruCache` | the cache map with its age list, and what it promises | `pm`, links, head, count - and a sequence |
| `ObByteQueue`, `Fifo` | the ring of packets, and what it promises | offsets and bytes - and a sequence |
| `ObManager` | the container and the four collections side by side: `structure` says which of them moves, as they share nothing | all of these |
| `MCVmmWork`, `MCVmmHandle`, `MCVmmCache`, `MCVmmProc`, `MCObjects` | instances for TLC: functions that a `.cfg` cannot write, symmetry sets, one view | - |
| `*_proofs` | theorems | - |

**The grain of a step.** A step is what the code does between two points at
which another thread can see or change something: an interlocked operation, a
system call, a critical section, an unprotected read. Critical sections of locks
that are never held across a loop, or across a call that waits, are single steps.
Where a lock *is* held that long, it is a variable: `coreLock` in `VmmHandle`
(the initialization holds it from the slot to the end), `Lock` in `VmmCache`
(a clear), `list` in `VmmProc` (LockMaster, held through a refresh), `shared` and `excl`
in `ObContainer` (there the lock is what the module is about). In `VmmWork` the operations
of `ObSet` and `ObMap` are single steps because each runs under the lock of its own
collection; *between* two of them anything may happen, and this is where the pool is
interesting.

**Abstract specifications.** Four refinements are checked: `SRWLock` implements `Mutex`,
`VmmParallel`'s use of `OsEvent` implements `Event` (with its fairness), `ObCacheMap` implements `LruCache`,
`ObByteQueue` implements `Fifo`. All four are also proved, `Event` without its fairness. `Event` is the abstract event restricted to what
the engine does with it: one thread waits and the same thread resets. For arbitrary
use the code's event is not a manual-reset event (a reset may fail, see section 6).

### VmmWork

A worker walks `VmmWork_MainWorkerLoop_ThreadProc` line by line: `WorkerPop`,
`WorkerPopEmpty`, `WorkerSize` (low priority units only while more than half of
the pool is available), `WorkerPopLow`, `WorkerReset`, `WorkerAvail`,
`WorkerWoken`; at the abort flag `WorkerExitAll`, `WorkerExitPush`,
`WorkerExitCount`. `WorkerStart` is the increment of `cThreadInternal` by the
thread itself; the constant `LateStart` says whether that may happen as late as
during the shutdown. An *agent* is whatever queues units: an API caller, or the
body of a unit. `AgentCheck` to `AgentDecref` are `VmmWork_QueueWorkUnit_DECREF_NULL`,
with the abort check, the push, the pop of a worker and its signal as separate
steps, as no lock holds them together; `AgentWaited` is the wait for all events,
or for the object of `VmmWork_Ob`. The closing thread is `CloseRemove` to
`CloseFree`: `VmmWork_Interrupt` (pop and signal every available thread, empty both
queues), its repetition every thirty seconds (`CloseRetry`), and `VmmWork_Close`.
What a unit computes is nothing; what it queues is `Batch`.

### SRWLock, Mutex, OsEvent, Event

`Acquire` counts the thread in `c` before it looks at `xchg`; `CasOk` and
`CasFail` are the compare-and-swap; `FutexWait` compares and sleeps atomically, as
the kernel does; `FutexInterrupted` is a signal, or the timeout of
`AcquireSRWLockExclusive_Timeout`, which gives up and takes its count back
(`Undo`). `ReleaseCas`, `ReleaseDec` and `ReleaseWake` are the three operations of
the release. The shared acquisitions of the code call the exclusive ones on Linux.
An event is that lock, held while the event is not set: `WaitForSingleObject` acquires and
`WaitPass` gives back, `SetEvent` releases for whoever holds it, `ResetEvent` is one try.

### VmmParallel

The caller is `Fill` to `End`, the unit `TakeIndex` (the interlocked decrement) and `TakeProcess`
(the read of the table), which are two steps because the table could change in between; `Decref` is
`Ob_XDECREF` of the shared object with its callback at count 1 (`Signal`, a step of its own, after which
the thread is still inside the event). The pool is the number of low priority units queued (`queue`), the workers and the
closing thread. A worker takes a unit only while more than `Half` of the others sleep (`WorkerLoop`, `vmmwork.c` 63), which is read
one step before the unit is popped; otherwise, or when the queue is empty, it sleeps one step later (`WorkerSleep`). Who queues a
unit wakes one sleeper (`QueueWake`), other calls do so at any time (`OtherWake`), and the closing thread wakes all and then drops the
units (`InterruptPop`, `Drain`), again and again (`InterruptAgain`). The steps inside going to sleep and inside a wakeup are those
of `VmmWork`; here each is one, as nobody looks at the worker's own event in between. `chosen` and `taken` are history: what was selected, and
what was handed out. A process is named by its place in the selection.

### VmmHandle

API calls (`CallReserve`, `CallReturn`), `VmmDllCore_HandleDuplicate`
(`DuplicateReserve`, `DuplicateReturn`, with the unlocked gap between them),
`VmmDllCore_Initialize` (`InitAlloc` to `InitDone`, and `InitFail`, which closes),
`VmmDllCore_CloseHandle` (`CloseHead` to `Free`) and `VmmDllCore_CloseAll`. A child
closes as a work unit of its parent: the thread of that unit is named by the child
(`UnitStart`). `mem` tells a handle that was freed from one that lives; addresses
are not reused. `owned` is a history of what users were given and did not close; it
restrains them to closing what they own, except for `CloseAll`.

### VmmCache

`Get*` is `VmmCacheGetEx` region by region; `Reserve*` and `Clear*` are
`VmmCacheReserve` and the `VmmCacheClearPartial` it calls; `CallbackRefCount1` is
the callback that `Ob_XDECREF` runs after it dropped a count to 1 - a step of its
own; `Fill*` and `ReserveReturn` are what readers do with a reserved object;
`Unlink` is the critical section of `VmmCacheInvalidate_2`, after a lookup that held
the lock in shared mode only. The walk of a chain is a single step, as the lock is
shared during it. `written` and `need` are history: the last write a get must reflect. A write that a read of the page
straddled when the write left a region (`Straddled`) is not counted.

### VmmProc

Tables are numbered in the order of their allocation, and a process object is named by its PID and
the table it was created for. A refresh takes LockMaster, creates the new table behind
the visible one (`VmmProcessCreateEntry` one process per step, which reuses the object of the visible table or
the persistent part of it), and publishes it. A freed table drops its next table and its processes in the same
step (`Freed`). Readers are `VmmProcessGet` and iterations with `VmmProcessGetNext`, one table access per step. A
terminated process that is entered later gets a table of its own (`CreateTerminatedFakeEntry`). `left` is history: what was visible in
every table of an iteration so far and was not returned yet; only what the call returns is removed from it. What
an enumeration of the target returns is chosen from `Lists`.

### VmmForensic

The driver is one program counter through `FcInitialize_ThreadProc`, with each wait (`Await`), check for the
abort flag (`Check`) and fail path; units are states in `st`: queued, running, calling a plugin, waiting,
done. The two buffers hold a chunk number, and whether it was read whole. The pool is
replaced by what `VmmWork` shows of it: a queued unit starts when a thread is free - a low
priority one while more than half are - and a dropped unit sets its event.

### ObContainer and the collections

In `ObContainer` every access of `ObContainer_GetOb` and `ObContainer_SetOb` is a step, so that only
the lock makes them atomic; `Drop` and `Free`, `SetDecref` and `SetFree` are the two
halves of `Ob_XDECREF`. The other collections hold their lock through each operation, so that what there is to
get wrong is sequential: the index after re-hashing, the age list, the ring. `ObHash` works on a
function from slots to entry numbers as the C arrays do; hash values come from a table with collisions and
a wrap-around. `setStale` marks a removal that hit the defect of section 6, so that the
exactness of the set can be checked for everything else.

## 3. Runs

Every run is a `.cfg` on the module, or on its MC module. States are distinct
states; each run ends within about three minutes with two TLC workers.

| run | instance | checks | states |
|---|---|---|---|
| `work_nested` | 3 workers, a caller waiting for 2 units, one of which waits for a low priority unit of its own; shutdown at any moment | `SleepersReachable` `RefsAreHolders` `NoUnitOutlivesCall` `NoAccessAfterFree` | 1.8 M |
| `work_live` | 2 workers that may start late, a caller waiting for a normal unit and queueing a low priority one without waiting; shutdown | `ShutdownEnds` `WokenUnitTaken` | 159 k |
| `parallel` | 3 workers that sleep and are woken, up to 3 processes in batches of 2; shutdown at any moment | `BatchIntact` `HandedOutOnce`, refinement `EventSpec`, `ForeachEnds` | 360 k |
| `srwlock` | 4 threads, all three acquisitions, signals and timeouts | `CountExact` `NoLostWakeup`, refinement `MutexSpec`, `FreeLockTaken` | 91 k |
| `handle` | a parent, two children, 2 users, duplicates | `CallsOnLiveHandle` `TornDownOnce` `ParentOutlivesChild` `NoLeak` `CloseEnds` | 185 k |
| `cache_evict` | a read, a fetch and a refresh; 2 regions of one object, 2 pages in one bucket | `OneOwner` `CountIsReferences` `ReachableIsInUse` `GetsItsPage` | 175 k |
| `cache_write` | a read, a fetch and a writer of 2 writes; two regions, one page, 3 objects | `InvalidatedIsGone` `FreshAfterWrite` | 659 k |
| `proc` | 2 readers, one of which asks for terminated processes; 5 tables, enumerations out of order, with a duplicate and an exited process | `WholeTable` `CountsExact` `IterationComplete` `IterationAscends` `PersistentKept` | 964 k |
| `forensic` | 4 chunks, 1 item to scan, 9 threads; close at any moment | `BufferExclusive` `StagesInOrder` `OutlivesItsUnits` `InitEnds` | 1.1 M |
| `objects` | container with 3 threads and 3 objects; set of 5, map of 5 pairs, cache map of 3, ring of 10 bytes | `CountIsRefs` `NoUseAfterFree` `TablesExact` `MapStepsExact` `CacheIsLru` `QueueIsFifo` | 165 k |
| `fc_last` (finding) | as `forensic`, 2 items | `LastChunkFed` fails | - |
| `set_remove` (finding) | as `objects` | `SetFindsAll` fails | - |

What the properties say, in one line each, is in the comment above each of them; what would
violate them, in `PROJECT.json` (`mutants`): for every property a plausible slip in one mapped
definition that makes it fail on the same instance.

### Bounds, and why they are enough for the question asked

- *Pool.* With nested waits two deep, three workers are the fewest that keep one
  worker free; a pool with no more workers than nested waiters stops, in the code as
  in the model, and is not what these runs ask. The pool of the program has 32 threads, but
  workers only interact through the sets and through "more than half available",
  for which three workers have both outcomes. `LateStart` is `FALSE` in
  `work_nested`, since `NoAccessAfterFree` fails with it (section 6); it is
  `TRUE` in `work_live`, so that the liveness does not depend on it. With the two workers of `work_live` a low
  priority unit wakes a worker that can never take it (one of two is not more than half): the run has the case in which a woken worker
  goes back to sleep, and the unit stays until the shutdown. In `work_nested` low priority units run. The proofs of section 5 remove the
  bounds from the four safety properties.
- *Parallel-for.* Three processes in batches of two give a full and a partial batch, hence one reset of
  the event and one refill of the table; two units that run at once give a straggler beside the one that signals. Low priority
  units leave more than half of the pool asleep, so that two can run only in a pool of five or more; three
  workers with `Half` = 0, of which one has to sleep, stand for it: what matters is that some of the pool, but never all, may run units
  and that workers that are awake together can all find too few asleep. The selections are of 0 to 3 processes. The proofs
  remove the bounds from both invariants, for every `Half`.
- *Lock.* Four threads give a holder, a releaser that is about to wake, a sleeper and
  a newcomer. The proofs remove the bound.
- *Handles.* `MaxCount` (the slots of the allow-list, 64 in the code) is the number of
  handles, so that the list is never full: the full list is an observation in section
  6. Three slots are what moving the last entry into the first, a middle or the last
  gap takes. `MaxRefs` caps the duplicates of a handle at one (none for the second child). A
  handle is created at most once, as an address is not reused. The proofs remove the bound.
- *Caches.* The interesting cases of a cache are a region at its limit, an object that is
  evicted while it is held, two copies of a page, and chains of two and three objects in
  one bucket. `cache_evict` reaches the first two with one object per region
  (`MaxMems` = 1) and two regions, where the active and the oldest region differ; in the code there are
  three, and the third is only ever passed over by a lookup. `cache_write` reaches the
  others with three objects and a limit above them, so that no region is cleared, and two regions, so that a
  write walks on after the region where it found something:
  with a clear the properties do not hold (section 6). All pages share one
  bucket, which has the longest chains. `MaxWrites` caps the writes to a page.
- *Process table.* `MaxTable` = 4 caps the tables ever allocated at five: two total refreshes with a
  partial one or a terminated entry between them, and a reader left two tables behind. The enumerations contain
  each case the code distinguishes (order, duplicates, exit, absence).
- *Forensic.* Four chunks fill each buffer twice, so that a buffer is refilled after it was fed. `Pool` = 9 is the smallest
  pool that satisfies `PoolAssumption`: with 8 threads, three units that wait would leave too few sleepers
  for units of low priority to start, and the initialization would stop. The code has 32.
- *Collections.* Indexes of four slots that grow to eight at the load factor of the code, with five values of which three
  collide; a cache map that is full with three; packets of three sizes in a ring where they wrap around.
  The halving loop of `_ObMap_QFind` needs nine entries to turn at all: in the run only its linear search is used, and the theorem `Lookups` covers the loop.
  The container has a getter, a setter and a closer, with an object that is contained, one
  that replaces it and one more; the proofs remove the bound.

*Symmetry* is used for safety runs only, over sets whose members the specification
never compares or orders. *View:* `cache_evict` has no writer, so that nobody reads the
address or content of an object that is in no chain and held by nobody, nor its links, nor the
order of a total list; `LiveView` leaves these out. A predicate of the run never
depends on what is left out: `OneOwner` and `CountIsReferences` use the members of the total list,
the others only what can be reached from a bucket or is held by a thread.

*Deadlock* is checked everywhere except in `objects` and `set_remove`, where the container really stops once it
is closed and every thread has dropped what it held, and in `proc`, which stops at its bound when the
last table was used. Modules whose program ends (`VmmWork`, `VmmParallel`, `VmmForensic`) repeat that one
state by `Terminated`, so that every other stop is an error.

## 4. Fairness

- `VmmWork`: weak fairness of every worker, of every agent inside a call, and of the
  closing thread once it has begun. The operating system runs a thread that can run, and the
  closing thread repeats `VmmWork_Interrupt` by its own loop (`vmmdll_core.c`
  313-333) - without that repetition `ShutdownEnds` fails, as a unit can be queued behind the
  interrupt. Nobody is obliged to call the API or to close the handle. Unit bodies are assumed to
  end once their own waits do.
- `SRWLock`: weak fairness of a thread inside the lock's code or its critical section.
  No request and no signal has to come.
- `VmmParallel`: weak fairness of the workers, of the caller and of the closing thread once it has begun; neither an
  abort nor a unit of another call has to come. This does not make the call return: workers that are awake together can all find too few
  asleep and leave its units in the queue (observation 1 of section 6). `ForeachEnds` is relative to that gap:
  the call returns after an abort, and without one it returns or the pool is asleep over its units, once others queue nothing more. `<>(at[Caller] = "done")` alone
  fails in this model. A wait that a signal
  interrupts is left out here: with it the caller would take the return for the event (section 6).
- `VmmForensic`: weak fairness of the driver, of every started unit and of the drop of a queued unit after
  an abort (`ShutdownEnds` of the pool), and of the start of a unit while a thread is free. The last is
  the pool's promise except for the gap of observation 1 of section 6: `InitEnds` is relative to it. Plugins are assumed to return.
- `VmmHandle`: strong fairness of a call that has begun. The lock is taken again and
  again by others, so that a thread that waits for it is enabled only from time to time; a
  futex lock passes to some waiter, and the threads here sleep between attempts.
  This is an assumption about the scheduler that weak fairness does not give.
- `VmmCache`, `VmmProc`, `ObContainer` and the collections have no liveness property: their operations
  wait for nothing but locks.

## 5. Proofs

TLAPS checks all proofs; no step is left without one. Assumed are the `ASSUME`s of the
modules only - finitely many threads, a `None` or `Nobody` that is none of the things it
stands for the absence of, sizes above zero - and what a theorem itself says under `ASSUME`.

**`SRWLock_proofs`**, for every finite set of threads. The inductive invariant is
`TypeOK /\ MutualExclusion /\ HeldIffIn /\ CountExact /\ NoLostWakeup`. `HeldIffIn` (`xchg`
is 1 exactly while a thread is between its two compare-and-swaps) is what makes
exclusion inductive. The interesting step is the release that skips the wakeup: it does so because
`c` became 0, hence by `CountExact` nobody else wants the lock, hence no one
sleeps (`TwoWant`, `StepWakeup`). A release that does not skip it, or a thread in flight, is in `Active`.
Theorems: `Typing`, `Exclusion`, `Counting`, `Wakeup`, and `Implements`: the futex lock
implements `Mutex` (`InitImplements`, `NextImplements`; a step is `Take` when a compare-and-swap succeeds,
`Give` when the release's does, and a stutter otherwise).

**`ObManager_proofs`** has the container and the four collections. `Each` says that a behaviour of `ObManager` is one of each of them.

*Container,* for every finite set of threads and any set of objects. The
inductive invariant is `TypeOK /\ Locking /\ Reading /\ CountIsRefs /\ Alive /\ FreedOnce`. None of the
three properties is inductive alone: that a get increments a live object needs
the container's reference to be counted (`CountIsRefs`) *and* the pointer read before to be still the
contained one (`Reading`), which needs the lock (`Locking`); and that a count above zero means
an allocated object is `Alive`. Counts are cardinalities of three sets of threads; as every step
concerns one thread (`StepOfOne`), `CountFollows` reduces the change of the sum to the change of that
thread's own references (`Weight`). Theorems: `Typing`, `Counts`, `UseBeforeFree`, `OneFree`.

The operators of the collections walk: along links, along slots, over all entries. The prover has no induction over such a walk, so each
walk is written as a recursive function. That such a function exists (`Steps`) and what holds all along it are shown
by taking the least step at which it fails (`NatMin`). What a walk does to the data is then one lemma per start, step and end.

*Byte queue,* for any size of ring and header and any packets (`QueueAssumption`). The invariant is that the packets are `Laid` in the ring: each ends
inside it and leads to the next, and no two overlap - those that came after the wrap-around lie in their order
before all the older ones. A push finds its place by comparing head and tail only; `PlaceIs` shows that this place overlaps nothing. Theorems:
`QueueInvariant`, `QueueImplements`.

*Cache map,* for any keys and objects and any size above zero (`CacheAssumption`). The invariant is one circle of links through exactly the entries (`Linked`) in
which the key table finds each of them and nothing else (`Aged`). `UnlinkIs` and `FrontLinkIs` are the two list operations,
also for circles of one and two entries, where an entry is its own neighbour. Theorems: `CacheInvariant`, `CacheImplements`: a
push, a get with its validation, and an eviction do to the order of ages what the abstract cache does.

*Hash index,* for any hash function (`HashAssumption`). An index is `Placed` if no slot between the one that an entry prefers and its own is
free; with a quarter of its slots free (`Indexed`, by the load factor of the code) a lookup ends, and finds an entry exactly if it is there
(`LookupIs`). The removal is where this is hard: it empties a slot and inserts again every entry behind it up to the next
free one, so that `Placed` fails in between. `During` says by how much: only entries that have yet to be visited may have a free slot on their
way, and it lies between the emptied slot and the one visited now (`LoopStarts`, `LoopStep`, `LoopEnds`, with slots counted
from the next free one on, so that wrapping around vanishes). `GrownIs` is the growth, an insertion of all entries into an empty index of twice the size.

*Set,* for any values (`SetAssumption`). `SetInv` is that no value is there twice and the index leads to each, up to the removal that empties a stale slot
(`setStale`, the finding `set_remove`): the proof of `SetRemoveStep` shows that this defect is the only one. Theorem: `SetInvariant`.

*Map,* for any pairs (`MapAssumption`). The same for keys and values together (`Good`), through removals that move the last entry into the gap, the filter that removes while it
iterates downwards (`Filtering`: what it has yet to visit is where it was, though what it has visited moves), and
the sort (`RankedIs`: ranks by counting smaller keys are a permutation, so nothing is lost or doubled). `StartIs` says that the halving search of a sorted map stays within it, `QFindIs` that with the linear search behind it it
returns the first key that is not less. Theorem: `MapInvariant`; with these, `Lookups` states `TablesExact` and `Effects` states `MapStepsExact`.

**`VmmWork_proofs`**, for any number of workers, callers and units, and any `Batch` - that is, any way in which
units queue further units, as long as no unit is queued by two of them (a unit is an allocation of the call that queues
it). The inductive invariant adds to the types what a thread holds at each program counter (`Held`), which
units a call has left (`Calls`), that a unit is fresh, queued, running, then run, in this order and once (`Once`),
the reference count as a sum of three bits (`Counted`), and the two thread counters as cardinalities, with
what the closing thread may conclude from a zero (`Counters`). `SleepersReachable` is inductive by itself given `Held`. The bits
of `Counted` need `Once`: a decrement takes exactly one of the three away because no second worker
runs the unit. Theorems: `Sleepers`, `References`, `CallsOutliveUnits`, and, assuming `~LateStart`, `FreedLast`.
The assumption is needed: see observation 2 of section 6.

**`VmmHandle_proofs`**, for any users, handles and parent relation. The list of slots is handled by two lemmas, `ListAdd` and
`ListRemove`: compactness makes the set of listed handles (`Allowed`) change by exactly one. Beyond that the
invariant says where each thread can be (`Placed`, `Created`), what a close has already waited for
(`Waited`: no children, then no calls, then no parent), and that both directions of parenthood agree
(`Family`). A call finds its handle alive because it was listed when it was reserved, a listed handle is allocated, and the
thread that frees it passed `waitExt` at zero. Theorems: `Reserved`, `ClosedOnce`,
`Parents`, and, assuming that the list has room for all handles, `NothingLost`. Without room the code leaks
(observation 6).

**`VmmForensic_proofs`**, for any number of chunks, items and threads. The invariant says for each unit at which
places of the driver it may still be unfinished (`MainWaits`): the driver leaves each of these by waiting. With `UnitsWait` for the
units that units queue, `Buffers` relates the chunk number of the driver to the contents of both buffers by its parity (`Alternate`).
Theorems: `Buffered`, `Staged`, `Outlived`.

**`VmmCache_proofs`**, for any threads, pages, hash, regions and objects, in a cache that is written or cleared but not both (`Apart`:
there is no writer, or there is no refresh and memory for fewer objects than a region may have). Observation 4
of section 6 is why: an unlink between the clear and its reader puts what was cleared back into a bucket. The
inductive invariant goes from the outside in. `Held` says which program counters hold an object; `Locking` that one region
is cleared at a time, `Calm` that a cache which is never full is never cleared; `Lists` that lists are free of duplicates and the
total lists of the regions disjoint. `Counts` has both the owner and the count of an object: that a reserved object belongs to nobody
else needs its count, and the count needs that nobody else owns it. `Chained` says that buckets and links stay within the in use
list of their region while it is not being cleared, `ChainedBack` the same of the backward links if nothing is cleared, and `Contents` that an object in use holds the page it is filed
under. The chain of a bucket is a recursive function; that a walk stays within a set is shown by taking the least position where it leaves
it (`ChainWithin`). Theorems: `OneOwnerHolds`, `CountIsReferencesHolds`, `ReachableIsInUseHolds`, `GetsItsPageHolds`.

The other two properties are about writes, and are proved for one writer and a cache that is not cleared (`Sole`, as in
`cache_write`), on top of that invariant: two writers may unlink an object twice, with links that are stale the second time
(observation 4). An object is `Linked` if what precedes it in its bucket leads to it; an unlinked one keeps its links
and stays in use. `Links` says that the chains of linked objects are doubly linked, and in the order of the in use list, to whose front
alone a return adds (`Ordered`). This order makes chains acyclic without any induction over them, and a lookup complete: of the linked
objects that a lookup did not see, the first in the list follows one that it saw (`MissLinked`). So a writer
that leaves a region has unlinked all of the page in it. `Fresh` is then about ages: what is linked reflects every complete
write (`Written`), a writer that is past the first region has removed what was older there (`Writing`), and
a read that could still put older contents back is one that straddles the write (`FreshFor`). The write in progress is
complete at the end only if no read straddled it when a region was left. Theorems: `Writes`, `InvalidatedIsGoneHolds`, `FreshAfterWriteHolds`.

**`VmmProc_proofs`**, for any readers, enumerations, PIDs and number of tables. The invariant says how tables hang off one another
(`Chain`: in order, the last one visible or being filled), that a map has each PID once, in order once it is visible, with the
counts that belong to it (`Maps`), that the table in preparation together with what is still to be entered is the enumeration
(`Whole`), which references there are (`Counts`), that an entry has the persistent information of the one before it
(`Inherited`), and that what an iteration has yet to return is visible in its table and lies ahead of where it stands
(`Reading`). Counts of references are sums of bits and of sets of readers, as in the container. What is new is that the last
reference to a table may free a whole chain: `FreedIs` shows that the tables which die are an interval of numbers, each but the first held by its
predecessor only, so `DropCounts` takes one bit from each, and from each process the tables it loses. The sort is a `CHOOSE`; that there is
a sorted order to choose follows by counting the smaller keys of each entry (`Ranked`, `SortedIs`). A lookup by key in a sorted map returns the
least larger one that the reader may see (`StartIs`, `FollowingIs`), also if the key has vanished from the
map; hence nothing that is left to return is skipped. Theorems: `Inductive`, `WholeTableHolds`, `CountsExactHolds`, `IterationCompleteHolds`,
`IterationAscendsHolds`, `PersistentKeptHolds`. They have no hypotheses beyond the `ASSUME`s of the module: every enumeration starts with the system process, and
PIDs are not zero.

**`VmmParallel_proofs`**, for any number of workers, processes and units in a batch. The invariant says where threads
can be inside the event (`InEvent`), when the event is set relative to the count (`Phases`: once per batch,
by whoever brought the count to one), that the count is the sum of the references of the call, of the filling, and of the
queued and running units (`References`), that there are as many indexes left as units that will take one
(`Index`), which process was taken by whom (`Shares`: table, rest of the selection and what was taken are
disjoint), and that each selected process is in one of these (`Account`): when a table is refilled all that were in it have been
handed out, as no index is left and no unit is on its way. Steps of the pool in which nothing moves but workers without a unit and whoever wakes
them keep all of it (`PoolKeeps`). Theorems: `Intact`, and `HandedOut`, which compares what was handed out with the whole selection, of every batch. On top of the invariant, `EventSteps` proves the safety part of the refinement
`EventSpec`: only the caller is ever on its way through the lock (`OnlyCaller`), so whether the event is set and who waits
depends on `xchg` and on the place of the caller alone (`EventIs`, `EventMoves`), and each action moves these as the
abstract event does, or not at all (`EventFollows`). The fairness in `EventSpec` and `ForeachEnds` are model-checked.


**Model-checked only** is liveness (`ShutdownEnds`, `WokenUnitTaken`, `FreeLockTaken`, `ForeachEnds`, `CloseEnds`, `InitEnds`, and the
fairness in `EventSpec`), since the prover handles neither `ENABLED` nor fairness. Every invariant and every other
action property or refinement of a run is also a theorem; some have the hypotheses stated above.

## 6. Findings and observations

Two runs show the code doing otherwise than a comment of it says; `PROJECT.json` quotes the comments.

- `fc_last` - *"2.3: process last read chunk"* (`fc.c` 1038). The step after the loop selects the buffer
  of the last but one chunk, which was ingested already: the last 16 MB never reach the plugins.
- `set_remove` - *"Check if a value already exists in the ObSet"* (`ob_set.c` 226). A removal uses the slot it looked up before
  another re-hashing moved entries (341); a value that stays in the set is then not found any more.

The following were met while reading the code or while choosing the bounds. They are no runs; where a
model contains the case, it says so.

1. *Sleep over queued work* (`vmmwork.c` 62). A worker finds the queues empty and becomes available only later; a unit queued
   in between wakes nobody. With low priority units the whole pool can go to sleep over a queued unit,
   as each of the last workers reads how many others are available before any of
   them is; and the worker that a low priority unit woke can be one of these. A unit queued later wakes a worker that finds the others asleep and takes the first;
   so does the shutdown end it. `VmmWork` and `VmmParallel` contain it: `WokenUnitTaken` is stated for units of normal priority that woke
   a worker, and `ForeachEnds` names the case (`AllAsleep`) as the only way in which a parallel-for of an open handle does not return.
2. *Late threads* (`vmmwork.c` 60, `vmmdll_core.c` 259-260). A thread counts itself in `cThreadInternal`. One that was created but not yet
   scheduled when the handle closes is not waited for, and works on freed memory: `NoAccessAfterFree` fails with `LateStart = TRUE`.
3. *A parent notified too late* (`vmmdll_core.c` 238-241). The closing child decrements `hParent->childvmm.c`, after which "parent may not be
   valid", and then notifies the plugins of the parent. `VmmHandle` has the step (`DetachNotify`); `ParentOutlivesChild` holds up to the decrement.
4. *Unlinking after a clear* (`vmm.c` 309-322). An invalidation finds an object, its region is cleared, and the invalidation stores the object's
   stale link into the emptied bucket: an object on the empty list can be found by a lookup. Two writers that found the same object
   unlink it twice (310). Hence the split into `cache_evict` and `cache_write`, with one writer.
5. *Duplicates* (`vmmdll_core.c` 128). A duplicate is counted after the lock was released; if the last
   reference is closed in between, the caller is given a handle that is being torn down. `VmmHandle` contains it; later calls are refused.
6. *Full allow-list* (`vmmdll_core.c` 266-281, 935-944). The clean-up of an initialization calls a close that returns at once for an unlisted handle, which leaks.
7. *A failed allocation* (`vmmwork.c` 221) makes `VmmWork_Void` return without setting the event that `VmmWorkWaitMultiple2_Void` then waits for.
8. *A stale page* (`vmm.c` 1504). A read that missed puts its page into the cache although a write has
   invalidated the page since. `FreshAfterWrite` is stated for writes that no such read straddled (`Straddled`).
9. *Finalize on abort* (`fc.c` 1512). On an abort `PluginManager_FcFinalize` runs before the waits, while other plugin functions may still run, against
   "Functions are called in the below order ... 5. pfnFinalize() - single-threaded." (`vmmdll.h` 634-646). `StagesInOrder` is for a handle that stays open.
10. *A chain of tables* (`vmm.c` 1203-1231). `VmmProcessCreateTerminatedFakeEntry` never drops its references to the two tables; as each table
    keeps the next alive, all later tables and their processes stay alive. `CountsExact` states the counts with this leak (`leaked`).
    The entries it makes vanish at the next partial refresh; and an enumeration of ten processes or fewer is
    installed but reported as a failure (`vmmwin.c` 3512).
11. *Lock order.* `VmmProcessForceClearState_DoNotUse` (`vmm.c` 1244-1245) takes LockUpdate, then LockMaster; the refresh takes LockMaster (`vmmproc.c` 134-136), and clearing a
    cache takes LockUpdate (`vmm.c` 86-91).
12. *Tail of `SetEvent`.* The waiter may free the event while the setter is still in its release (`relDec`, `relWake`) and reads and wakes its memory. `BatchIntact` allows
    exactly this. `ResetEvent` is one try, and leaves the event set if any waiter is passing; with the one waiter of the parallel-for that is the
    resetting thread itself, which `EventSpec` confirms to be harmless.
13. *Interrupted waits* (`oscompatibility.c` 550). A signal ends a wait without timeout, and the callers take the return for the event.
14. Smaller ones: the scan worker keeps its item on abort (`fc.c` 1348-1349); a division by zero if there are no ranges (1360) or the ingest takes no time (1412); a pool
    of 8 threads would stop the forensic initialization (`PoolAssumption`); FindEvil entries of YARA are lost before its map exists; the ingest of plugins
    returns early with `MAXIMUM_WAIT_OBJECTS` of them (`pluginmanager.c` 395); the wait of `pdb.c` 1371 may time out while the
    thread still uses event and stack of the waiter; the peek of the byte queue refuses a packet that is *smaller* than the buffer
    (`ob_bytequeue.c` 73), and 219 allocates the size of a pointer (nothing in the engine creates one).

## 7. What is left out

Of the modelled components: failed allocations; the memory list of the API and the parsing of its
arguments; the second table that `VmmCacheGet_FromDeviceOnMiss` consults; `VmmCacheClose`, which runs when no other
thread is left; magic numbers and the debug footer of objects; the Windows variants of locks and
events, which are the operating system's; waits for several events at once; the tokens of processes; the SQL connection pool of forensic mode (`fc.c`
43-88); the JSON log, which is queued, awaited and closed like the CSV log; iteration by index and sorting of maps and sets. The content of a page or buffer is the number of
the write or chunk it reflects, and the work of a unit is the units it queues.

Not modelled is what `PROJECT.json` lists as `not_modelled`, with the reason: parsers
of input formats (page tables, PE, PDB, registry, network), which are functions and not protocols;
plugins that present such tables; front ends and bindings; vendored code (two thirds of the lines of the repository). The
share of lines that the models stand for is small for this reason; it is most of the code that synchronizes.

## 8. Plan

The order was: the pool and its shutdown first, since everything else runs on it and ends by it;
then the lock, the handles, the caches and the container; then events and the parallel-for, the
process table, forensic mode, the collections; and the proofs of the pool, the parallel-for and its event, the handles, the caches, forensic mode, the process table, and last the collections. What would follow:

1. A run for the lock order of LockMaster and LockUpdate (observation 11), which needs a model of nothing but
   these locks and their four users.
2. `VmmScatter`: ranges that share pages, read beside a write; it would compose with `VmmCache`.
3. Search and remote instance: cancellation of one background operation, a thread that closes the handle it runs on.
