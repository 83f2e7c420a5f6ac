# Verification of the thread management library

TLA+ models of the C library in `src/` (pthread wrappers, a thread pool on a
bounded task queue), the TLC runs that check them on small instances, and proofs
checked by TLAPS. Line numbers refer to `src/src/*.c` unless a path is given.

## 1. Inventory

| Component | State | Operations | Interacts with |
|---|---|---|---|
| Task queue, `scheduler.c` | linked list (`head`, `tail`, `count`), `capacity`, `shutdown`, one mutex, `not_empty`, `not_full` | init, push, pop, try_pop, size, shutdown, destroy | called by submitters, workers and the destroyer of the pool |
| Thread pool, `thread_pool.c` | atomics `state`, `active_tasks`, `completed_tasks`, `submitted_tasks`; `wait_lock`, `wait_cond`; workers | worker loop, create, destroy, submit, wait, four queries | task queue; user tasks, which may call back into the pool |
| Public pool calls, `sthread.c:294-376` | none | forwarding, translation of return codes | thread pool |
| Thread handles, `sthread.c:22-94` | malloc'ed handle with a `detached` flag | create, join, detach, self, yield | the thread itself |
| Semaphore, `sync.c:145-249`, `sthread.c:228-292` | handle, `count`, `max_count`, one mutex, one condition variable | init, destroy, wait, trywait, post, getvalue | user threads |
| Mutex, condition variable, `sync.c:28-143`, `sthread.c:96-226` | handles and `initialized` flags | init, destroy, lock/trylock/unlock, wait/timedwait/signal/broadcast | user threads |
| Stack and object pool memory, `memory.c` | free list threaded through one block, `allocated_count` | create, destroy, alloc, free, counts; guarded stacks | no caller inside the library |
| Platform layer, `platform.h` | a cached time base (macOS) | cores, monotonic time, deadline, guarded mmap | queue (`submit_time`), `sync_cond_timedwait`, pool creation |
| Tests, examples, benchmarks | | clients of the library | read for the promises they state |

What is hard here:

* **Task queue.** Two condition variables signalled once per operation; wakeups
  that lose the race for the mutex; spurious wakeups; shutdown against sleeping
  pushers and poppers; a popped node that is read and freed after the mutex has
  been given back. Correct means: a FIFO that loses and duplicates nothing, no lost
  wakeup on either side, never above capacity, no leak, everybody released by a
  shutdown.
* **Thread pool.** Three counters updated without a common lock, compared by
  `thread_pool_wait`; the window between that comparison and the sleep; the state
  check of a submit that is stale by the time of its push; shutdown and joining
  against workers that still hold tasks; tasks that submit to their own pool;
  several destroyers. Correct means: an accepted task runs exactly once, wait returns
  and returns only when it may, destroy returns and frees nothing that is in use.
* **Synchronisation objects.** Destruction while in use, partial failure of a
  destroy, error codes, semaphore posts against waiters, wrap-around of counts.
* **Handles.** A thread runs before its creator has stored the handle; threads that
  detach themselves; join and create failing half-way, with the handle to free.
* **Memory.** A free list threaded through memory that callers write to, sizes that
  are rounded and clamped, a mapping recorded by the wrong end.

Correct means, for handles: one owner each, and each stands for its thread; for the
synchronisation objects: the return codes tell every thread whether it has what it
asked for, and go on being true; for memory: the free list is what nobody has, and what is mapped is
what the live stacks need.

`PROJECT.json` lists each hazard at its line with the properties that cover it, and
those that no property covers with the reason.

## 2. Modules

```
TaskFifo          effects of the queue operations on a FIFO
  BoundedQueue    the calls of threads on it: what the queue promises (abstract)
  PoolService     what the pool promises its callers (abstract)
  ThreadPool      pool, with the queue taken at that promise
    ThreadPoolProps            properties; refinement of PoolService
                               -> MCThreadPool
      ThreadPool_proofs        creation and teardown, no lost wakeup
        ThreadPoolTasks_proofs tasks, counters, types, exact waits;
                               implements PoolService
TaskQueue         the queue as scheduler.c implements it (detailed)
  TaskQueueProps  properties; refinement of BoundedQueue (INSTANCE ... WITH)
                               -> MCTaskQueue
    TaskQueue_proofs           mutex, list, nodes of a thread; implements BoundedQueue
      TaskQueueWakeups_proofs  no lost wakeup, no leaked node
SyncErrors        the error codes of sync.c
  Semaphore       the semaphore as sync.c implements it (detailed)
    SemaphoreProps  properties; refinement of CountingSemaphore (abstract)
                               -> MCSemaphore, Semaphore_proofs
  Sync            mutex, condition variable, deadlines
    SyncProps                  -> MCSync, Sync_proofs
ThreadHandle      handles of sthread.c against the running threads
  ThreadHandleProps            -> MCThreadHandle, ThreadHandle_proofs
MemoryPool, StackAlloc         the two allocators of memory.c
  Memory          both                -> MCMemory, Memory_proofs
```

**TaskQueue.** One step per stretch of code that runs without another thread being
able to interfere: acquiring the mutex is one step (`Acquire`, also the one that
ends a `pthread_cond_wait`), the code from there to the unlock or to the wait
another. Nodes are addresses in `heap` with their fields in functions. malloc may
return any free address or fail. `pthread_cond_signal` wakes an arbitrary waiter;
a wait may end spuriously. `chain`, the list as a sequence, is a history variable.
`task_queue_destroy` is called only when no other thread is in a call, as
`thread_pool_destroy` does after joining; from the start of it on no call begins.

| Code | Action |
|---|---|
| push: malloc and field writes, 68-77 | `PushCall`, `PushNoMemory` |
| push: 81-95 | `PushWait`, `PushRefused` (the two shutdown tests differ only in whether the thread has waited) |
| push: 97-109 | `PushLink` |
| pop 119-126, try_pop 155-158 | `PopWait`, `PopFails` |
| pop 128-139, try_pop 160-171 | `PopUnlink` |
| pop 141-145, try_pop 173-177 | `PopCopyOut` |
| size, shutdown | `SizeRead`, `ShutdownBroadcast` |
| destroy 42-60 | `DestroyStart`, `DestroyFreeNode`, `DestroyEnd` |

**BoundedQueue** lets every call take effect atomically, between its invocation
and its return, on the sequence of TaskFifo. The refinement mapping takes the
tasks of the nodes in `chain` for the queue and reads each thread's abstract call
off its program counter; a call takes effect in the step that gives the mutex back.

**ThreadPool** models each access to an atomic, to `wait_lock` and to the queue as
a step, except that malloc, local to its thread, goes with the state check before
it. The two loads of the loop condition (163) happen in either order. One client
creates the pool, worker by worker, while the workers started so far already run;
the pool ends when it is freed, by destroy or by a creation that failed. Each element
of `Tasks` is one submission. `usage`, chosen at the start from `Usages`, says what
the program around the pool does: `"nested"`, running tasks submit to their own pool;
`"overlap"`, clients call, and destroy, while another client destroys; `"plain"`,
neither. Without overlap a client calls destroy only while no other client is in a
call. Variables marked "history" (`acked`, `runs`, `due`, `quiet`, `chain`)
exist for the properties only. There is at least one worker and one slot, as
`thread_pool_create` sees to.

| Code | Action |
|---|---|
| create: allocations, inits 41-91 | `CreateInit`, `CreateNoMemory` |
| create: 93-94, return | `CreateWorker`, `CreateReturn`, `CreateFails` |
| create: clean-up 95-106 | `AbortShutdown`, `AbortJoin`, `AbortFree` |
| submit: 145, malloc of the push | `SubmitCheck`, `SubmitTooLate`, `SubmitNoMemory` |
| submit: 149 | `SubmitPush`, `SubmitRefused` |
| submit: 150-153 | `SubmitCount` |
| wait: 161-169 | `WaitLock`, `WaitLoad`, `WaitSleep`, `SpuriousWakeup`, `WaitReturn` |
| worker: 18-26 | `WorkerPop`, `WorkerExit`, `WorkerCheck` |
| worker: 28-31 | `WorkerBegin`, `TaskReturns`, `WorkerEnd`, `WorkerComplete` |
| worker: 33-35 | `NotifyLock`, `Notify` |
| destroy: 119-136 | `DestroyCas`, `DestroyLost`, `DestroyShutdown`, `DestroyJoin`, `DestroyTerminate`, `DestroyFree` |

**PoolService** has no workers, counters or locks. Accepted tasks wait in a FIFO
and are started in its order, at most `Limit` at a time; each call of a thread takes
effect at one instant. It says what every return code means: SUCCESS of a submit
that the task is accepted, SHUTDOWN that the pool is being ended, SUCCESS of a wait
that what the wait `owed` is finished, and of a destroy either that somebody else is
ending the pool or that nothing accepted is left. A submit cancels what the waits
under way owe: that is as much as the counters can promise (see 5). The mapping
reads the call off the program counter (`CallAt`); a task runs while a worker is
between its pop and the return of the function (`Running`); a creation that fails
half-way ends the pool like a destroy, and is answered NULL.

**Semaphore** has the granularity of TaskQueue. The handle starts zeroed. A thread
initialises or destroys it only while no other thread is in a call (`Alone`), which
the library leaves to its callers; both are therefore one step, and the two
`pthread_*_destroy` calls cannot fail. The counter is unsigned and counts modulo
`Word`; getvalue reads it as an int (`AsInt`). `Permits` bounds how far callers
drive the counter up; nothing in the code does, `max_count` is never read.

| Code | Action |
|---|---|
| `sthread_sem_init`, `sync_sem_init` | `SemInit` (`SyncInit`, or `SyncInitFails` when malloc or a pthread init fails) |
| `sthread_sem_destroy`, `sync_sem_destroy` | `SemDestroy` (`SyncDestroy`) |
| entry of the other calls, `sthread.c:262-292` | `Call`, `CallInvalid` |
| wait 193-199, trywait 211-218 | `WaitSleep`, `Take`, `TryBusy` |
| post 228-234, getvalue 244-246 | `Post`, `GetValue` |

**CountingSemaphore** keeps a number of permits without a width, which calls change
or read at one instant. The refinement mapping is the identity on the counter and
reads the abstract call off the program counter.

**Sync** is one mutex and one condition variable behind their handles. The pthread
objects are external: an error-checking mutex (EDEADLK, EPERM, EBUSY instead of
blocking or harm), a condition variable that wakes arbitrary waiters or spuriously.
A call that cannot block is one step, for all it does is one pthread call. Threads
call without knowing whether they hold the mutex, and learn it from the codes only:
`holds` is who believes to hold it. Init and destroy happen while nobody is inside a
blocking call (`Alone`), but a holder may exist, and the handle may be initialised
again. Destroying a held mutex answers BUSY and frees it (`sthread.c:124`); the code
goes to the destroyer, so `holds` stays as it is, and the history variable `robbed`
notes whose mutex it was. The clock, a number of seconds and nanoseconds, advances by itself.

| Code | Action |
|---|---|
| mutex init, destroy: `sync.c:28-58`, `sthread.c:96-128` | `MutexInit`, `MutexDestroy` (`SyncMutexDestroy`) |
| lock 60-66, trylock 68-74, unlock 76-82 | `Lock`, `LockReturn`, `Trylock`, `Unlock` |
| cond init, destroy | `CondInit`, `CondDestroy` |
| cond wait 110-116 | `CondWait`, `SpuriousWakeup`, `Relock` |
| timed wait 118-127 with `platform_get_abstime` | `TimedWait`, `TimedSleep`, `TimedWaitFails`, `Timeout`, `Relock` |
| signal, broadcast | `CondSignal`, `CondBroadcast` |
| `map_pthread_error` | `SyncErrors!MapError` |

**ThreadHandle** follows each handle from malloc to free. The pthread is external:
it runs as soon as `pthread_create` succeeds, before the creator has stored the
handle, and ends when its function returns. A join is split at `pthread_join`, a
create at `pthread_create` and at the store. Joining oneself through `sthread_self`
fails (EDEADLK). Duties of the callers that nothing in the code enforces: a thread is
joined or detached once, a handle is not passed again after a join or detach, joins do
not wait in a circle (a thread creates and joins higher-numbered ones only).

| Code | Action |
|---|---|
| create: 22-42 | `CreateCall`, `CreateThread`, `CreateFails`, `CreateStore` |
| join: 44-63 | `Join` (`JoinCheck`), `JoinReturns`, `Free` |
| detach: 66-80 | `Detach` (`DetachCheck`), `Free` |
| self: 82-90 | `Self` |

**MemoryPool** holds its mutex from the first access to the last in every call, so a
call is one step. Objects are offsets from the start of the block; `first_word` is
the link of a free object, or whatever a caller has written there. `size_t` counts
modulo `Word`. Callers free what they were given, once, and ask for pools that fit
into the address space (`Fits`), which the code does not check. **StackAlloc** keeps,
per page of an address space, what `platform_alloc_with_guard` and
`platform_free_with_guard` have made of it. **Memory** runs both side by side; they
share nothing, and no other file of the library calls either.

| Code | Action |
|---|---|
| `memory_pool_create` 71-115, `_destroy` 117-125 | `Create`, `Destroy` |
| `_alloc` 127-146, `_free` 148-161 | `Alloc`, `AllocFails`, `Free` |
| `stack_alloc_create` 11-42, `_destroy` 44-55, `platform.h:92-120` | `StackCreate` (`MapWithGuard`), `StackDestroy` (`UnmapWithGuard`) |

Definitions that stand directly before the one they vary (`SleepHoldingMutex`
before `Sleep`, `QuitsOnShutdown` before `Quits`, ...) are plausible bugs, used
to confirm that a property notices them; no action of the model uses them.

## 3. Runs

| Run | Instance | Shows |
|---|---|---|
| `queue_safety` | 2 pushers, 2 poppers, owner, 1 task value, 4 nodes, capacity 2 | types, mutual exclusion, list shape, node ownership, no lost wakeup on either side, nobody asleep after shutdown |
| `queue_refines` | 2 pushers, popper, owner, 2 task values, 3 nodes, capacity 2 | the list implements the atomic FIFO: order, capacity, loss, duplication, return codes |
| `queue_progress` | 2 pushers, popper, owner, capacity 1 | a shutdown lets every call return; the progress `BoundedQueue` promises |
| `pool_safety` | 2 workers, 2 clients, 3 submissions, capacity 1, all three usages | each accepted task runs exactly once; counters; no lost completion; nothing freed in use, no hopeless join, also after a creation that failed half-way; an undisturbed wait is exact; the pool implements PoolService, order and return codes included |
| `pool_progress` | 1 worker, 1 client, 3 submissions, plain and nested | wait returns and accepted tasks run, unless all workers are blocked in a submit; destroy returns even then |
| `semaphore` | 4 threads, counter of 3 bits, 2 permits | mutual exclusion on every path, no lost post, only library codes returned; each permit handed out once, reports true at one instant; a waiter gets a permit that stays available |
| `sync` | 3 threads, seconds of 2 ms of 2 ns, timeouts of 1 and 3 ms, clock up to 2 s | the codes tell everybody whether they hold the mutex, except a holder whose mutex is destroyed, and nobody but the holder releases it; a timed wait is not cut short and ends; a lock by the holder returns |
| `handle` | threads 0..2, 4 handles | one owner per handle, handles stand for their threads, joins return |
| `memory` | `size_t` of 5 bits, words of 4 bytes, 6 sizes, 1 to 4 objects; 2 stacks in 7 pages of 4 bytes, 6 sizes | the free list is what no caller has, objects fit; mapped pages are those of the live stacks, each with its room and guard |
| `pool_wait_early` | 1 worker, 2 clients | violation, see 5 |
| `pool_refusal_code` | 1 worker, 1 client, tasks submit | violation, see 5 |
| `sync_destroy_held` | 2 threads | violation, see 5 |

*Bounds.* Two threads of a kind are the least that compete, and a signal that
reaches the wrong one of two, or one of two instead of both, is what the
wakeup properties look for. Capacity 2 lets threads sleep on both conditions of
the queue while it is neither full nor empty for the rest; capacity 1 makes the
pool's queue full with one task. Nodes bound how many tasks can be between malloc
and free: 4 is capacity plus both pushers, 3 still lets the queue be full with a
pusher asleep. The pool's three submissions fill one worker, the queue slot and a
blocked submitter; two workers let the creation fail with one of them already
running. `queue_progress` has one popper and two nodes, so that no two threads sleep
on the same side of the queue there: which of several sleepers is woken, and that all
are by a shutdown, is left to `NoLostTask`, `NoLostRoom` and `ShutdownWakesAll` in
`queue_safety`, with two of a kind, and to their proofs. In `pool_progress` the only worker can be blocked by a task that submits
twice; that several clients wait at once is left to `NoLostWakeup` in `pool_safety`
and its proof. Symmetry is used for safety only.

The threads of the semaphore play any role: four are two sleepers,
one that posts twice, and one that takes a permit first. Its counter stays below half of its
range, where it and the int of getvalue agree; that a wrap-around loses no post
either is proved, not run (`NoPostIsLost`). In `sync` the third thread is the one
that takes the mutex between a signal and its waiter. The short second makes
timeouts of 1 and 3 ms lie on both sides of it, and every phase of the clock occurs;
at `MaxSec` the clock stands still, and timed waits that would end later do not
start. In `handle`, thread 1 can create, join and detach 2 while 0 does the same to
1; four handles are two of created threads and two of `sthread_self`. The sizes in
`memory` are below, at and above the word, the page and both clamps of the stack
(2 and 10, neither a multiple of the page), and the largest pool that a `size_t` can
count.

*Fairness.* A thread inside a call keeps running (weak fairness of its steps).
It obtains a mutex that becomes free again and again (strong fairness of the
acquisition): POSIX does not promise this, but the schedulers the library runs on
provide it, and without it a waiter that wakes up spuriously without end could
keep a worker from `wait_lock`. A task returns. Pushes and pops progress as a
group, which is what `queue_progress` establishes for the real queue; no individual
thread is promised its turn. Calls, failing mallocs and spurious wakeups
have no fairness. `WaitReturns` is checked for finitely many submissions: with
clients that submit for ever the counters need never be equal. In `sync` the clock
advances, and the steps inside a blocking call have weak fairness only: nothing
there needs the mutex from somebody who may never release it. In `handle` a thread's
function returns, however often it calls the library before (strong fairness).

## 4. Proofs

All for every value of the constants under the module's named assumption.

`TaskQueue_proofs`, for all finite sets of threads and nodes, any tasks and capacity:

* `MutualExclusion`, `ShutdownLeavesNoSleeper` from the inductive invariant
  `Control`: types of the control variables; a thread is at a place that needs the
  mutex exactly when it holds it; a destroy runs alone; nobody sleeps after a
  shutdown. `ControlMove` shows once what a step of one thread, with the wakeups it
  causes, does to these, and every action is an instance of it.
* `TypeCorrect`, `ListStaysSound`, `NodesArePrivate` from the inductive invariant
  `Data` on top of `Control`. `ListShape` alone is not inductive: linking a node
  keeps the list sound only if the node is not in it yet and ends in NULL
  (`PrivateNodes`, `FreshNodes`), which in turn needs that malloc cannot return a
  node of the list (`ListAllocated`), which holds while no destroy is freeing them
  (`DestroyAlone`). Types need it too: `head = next[head]` stays an address only because
  a list with `count # 0` has a head.
* `NeverOverfull`: a push re-checks the capacity in the step that links. No run
  checks it by itself: `queue_refines` implies it.
* `Refinement`: every step of TaskQueue is a step of BoundedQueue or leaves its
  variables alone. Acquiring, waiting, waking and the copying out of a popped node
  are invisible (`Unseen`); push and pop take effect in the step that gives the
  mutex back (`Pushes`, `Pops`). It needs that the fields of a node survive until it
  is freed (`FilledNodes`), and `PrivateNodes`, so that no malloc overwrites them.

`TaskQueueWakeups_proofs`, under the same assumption:

* `NotEmptyIsSignalled`, `NotFullIsSignalled`: with `Control` and `Data`, `NoLostTask`
  and `NoLostRoom` are inductive. A push adds one task and, if anyone sleeps, one
  popper under way (`WakeupsPushLink`); a removal takes at most one of each, and does
  the same for slots and pushers (`WakeupsPopUnlink`); a popper falls asleep only at
  count 0; who gives up on the way does so because of the shutdown, when nobody
  sleeps. Cardinalities come from `FiniteSetTheorems` (`SizeAfterStep`).
* `NoNodeLeaks` from `Ownership`: while no destroy is freeing the list, the heap is the
  list and what threads carry (`AllReachable`); a destroy that stands at node k has
  left the list from k on (`RestReachable`); a destroyed queue has nothing, and
  nobody in it but the returning destroy (`NothingLeft`).

`ThreadPool_proofs` and `ThreadPoolTasks_proofs`, for any finite set of workers that is
not empty, any clients, tasks and usages, any capacity above 0:

* `OneTearsDown`, `FreedIsUnused`, `JoinedAreToldToLeave` from the inductive
  `Control`: who may be where (`Places`), who must be alone (`Alone`), and what a
  client that ends the pool has established at each of its steps (`Teardown`). That
  one client tears down is not inductive by itself: it needs that state is RUNNING
  as long as nobody has, and that a creator, who does not use the compare-exchange,
  is alone. No run checks it by itself: `pool_safety` implies it, for PoolService is
  ended once.
* `NoWakeupLost` from `Waking`: whoever is between the loads and the sleep, or about
  to broadcast, holds `wait_lock`; a loaded `submitted` is never too large; a loaded
  `completed` that has become stale means that somebody is still on the way to
  the lock.
* `TasksRunOnce`, `CountersAgree` from `Tasking`, with `Drained`. `Tasking` is
  `RunOnce` and `Accounting` with who holds which task where (`Hold`): a worker has a
  task exactly from its pop to its count, a submitter one that nobody else has.
  `Drained` says that a worker leaves only an empty queue that is shut down, so the
  clean-up of the queue finds nothing to free; that there is a worker matters here.
  Every step that moves no task is an instance of `QuietTasking`; the others
  compare the cardinalities of what one worker or submitter adds and removes.
* `TypeCorrect` from these; `QuietWaitIsExact` from `Accounting`, `RunOnce` and
  `Undisturbed`: while no submit is under way, equal counters leave the queue and the
  workers' hands empty.
* `Refinement`: ThreadPool implements PoolService. One lemma per step that a caller
  can see (`AcceptSteps`, `StartSteps`, `EndSteps`, ...), and `Silent` for those of
  one thread that it cannot. That no more tasks run than there are workers is that
  `Running` is an image of the workers that hold one. A task that returns is
  in nobody else's hands because `RunOnce` holds after the step (`FinishSteps`). What the
  service knows is what `Accepted` says (`KnownIs`), so that a wait that begins
  without a submit under way owes exactly what has been acknowledged. For the end
  of the pool `Teardown` has to carry the shutdown of the queue up to the last step.

`Semaphore_proofs`, for any finite set of threads, any width of the counter and
any bound on the permits:

* `TypeCorrect`, `MutualExclusion` from the inductive `Control`.
* `NoPostIsLost`: `NoLostPost` is inductive on top of `Control`. A thread falls
  asleep only at count 0; a post adds one permit and, if anyone sleeps, one waiter
  under way; a waiter that takes a permit removes one of each; trywait only removes
  a permit. The cardinalities come from `FiniteSetTheorems`.
* `Refinement`: if `2 * Permits < Word`, Semaphore implements CountingSemaphore.
  The mapping needs that the counter with the posts under way stays within
  `Permits`, so that no post wraps and `AsInt` changes nothing (`WithinPermits`),
  and that only a returning thread has a result (`BlankResults`).

`Sync_proofs`, for any threads, timeouts and subdivision of the second:

* `DeadlineExact`: `platform_get_abstime` returns a well-formed time exactly
  `timeout_ms` later.
* `TypeCorrect`, `MutualExclusion`, `TimedWaitInFull`. `Exclusion` is inductive with
  the types; the invariant adds that a deadline is well-formed while its wait has
  not begun to sleep and stands for the same nanosecond as the history variable `due`.
  `MutualExclusion` says what the codes are worth: among the threads whose mutex was
  not destroyed under them, the holder believes that it holds the mutex and nobody
  else does. It includes that a robbed thread cannot release the next mutex of the
  handle, and that it is right again once it has locked that one.
* `OneHolderUnlessRobbed`: in a program that destroys no held mutex no two threads
  are in the critical sections of one handle. The condition is needed (see 5).

`ThreadHandle_proofs`, for any number of threads and any memory:

* `TypeCorrect`, `OneOwnerEach`, `HandlesStayTrue` from `Inv`. `OneOwner` is not
  inductive: a creator stores into a variable that must be free, which needs that
  nobody else is creating the same thread and that a started thread is not started
  again (`Places`). The owners of all handles are seen as the slots of one function,
  so that a step gains, moves or drops the content of a slot (`Gain`, `Move`, `Drop`).

`Memory_proofs`, for every width of a `size_t` and of a word, every set of sizes and
counts, any stacks, pages, page size and limits, the two specifications side by side:

* `FreeListSoundAlways`, `ObjectsFitAlways` from `PoolInv`: there is a list `f` of the
  objects nobody has, without repetition, that starts at `free_list` and is linked by
  the first words (`IsFreeList`), next to the layout that create has computed.
  alloc drops the first member of `f`, free puts one in front, and neither touches
  the word of another member; a caller writes only to objects outside `f`. The
  invariant says "there is a list" where the property follows the links: that both
  are the same (`WalkIs`) is an induction along the list. The induction theorems of
  the library take an operator, so `SetInduction` is proved from the least element of
  a set of numbers instead, which suffices for sets written out by comprehension.
* The proof of `ObjectSizeFits` found a gap in the first statement of the assumption:
  with `PtrSize < Word` alone, rounding an object as small as a pointer could wrap.
  `2 * PtrSize <= Word` holds wherever both are powers of two and a pointer is narrower
  than the address space.
* `MappedExactlyAlways`, `GuardedRoomAlways` from `StackInv`: each live stack is a run
  of whole pages (`Shape`) disjoint from those of the others, and has its room
  (`Roomy`). `PageRange` turns a range of bytes into a range of pages once for
  creation, which counts from the mapping, and destruction, which counts from the
  stack; `StackSizeFits` is the clamping and rounding.
* `MemoryTypes` from both.

Model-checked only: liveness, with the fairness of the refinements (out of the
prover's reach).

## 5. Where the code and its documents disagree

* `thread_pool_submit` counts a task after pushing it (149-151). A worker can
  finish the task in between, `completed_tasks` is then ahead, and
  `thread_pool_wait` returns although another acknowledged task has not run
  (`pool_wait_early`), against "Wait for all tasks to complete"
  (`src/Readme.md:83`). `WaitExactWhenQuiet` states what does hold: a wait that no
  submit overlaps is exact.
* Destroy runs all pending tasks: after a shutdown `task_queue_pop` fails only when the
  queue is empty (`scheduler.c:123`). `src/tests/test_pool.c:291` says that it should
  "discard pending", but counts nothing that would show it. There is no violation run
  for this: `pool_safety` shows and `Refinement` proves that a pool is gone only when
  all it has accepted is finished.
* A submit refused by the shutdown inside the push reports
  `STHREAD_ERROR_SYSTEM` (`pool_refusal_code`) where `src/Readme.md:140` has
  `STHREAD_ERROR_SHUTDOWN` for a pool that is shutting down.
* `sthread_mutex_destroy` of a mutex that is held: pthread answers EBUSY and
  `sync_mutex_destroy` leaves the mutex alone (`sync.c:52-55`), but `sthread.c:124-125`
  frees it and clears the handle, and reports `STHREAD_ERROR_BUSY` to its caller only.
  t1 locks; t2 destroys (BUSY), initialises the handle again and locks: both have been
  told that they hold the mutex (`sync_destroy_held`), against "Mutual exclusion lock
  for critical sections" (`src/Readme.md:20`). POSIX leaves destroying a held mutex
  undefined; on an error-checking mutex the implementations answer EBUSY, which
  is what the library passes on. `Exclusion` states what does hold.
* `src/Readme.md:139` documents `STHREAD_ERROR_DEADLOCK`; no line of the library
  returns it (`MapError` folds EDEADLK into SYSTEM). There is no run for this: the
  document promises no case in which it is returned.

## 6. Not modelled

Left out because they change nothing: NULL-argument checks, `priority`,
`submit_time` and `max_count` (stored, never read), the pool's queries, counts of the
object pool, `sthread_yield`, the core count, monotonic clock, page size and memory
barrier of the platform layer. Tests, examples and benchmarks are clients of the
library: the examples, more than a third of the lines of C in the repository, call
the operations modelled here and print. The build is not a behaviour.

Excluded by the rules of use that the models assume, each of which the library leaves
to its callers: a client inside the pool while another one frees it; a task that waits
for its own pool; initialising or destroying a semaphore, mutex or condition variable
while another thread is in a call on it; initialising one whose handle is initialised
(the code overwrites the pointer, and the old object leaks with its holder and its
permits); joining or detaching twice; freeing an object that one does not have; a pool
of objects larger than the address space (`memory.c:87` does not check the product for
overflow, so that hazard is assumed away, not covered); creating a stack in a record
that holds one; setting the clock back during a timed wait.
