# TLA+ models of ggsddu

The repository is a collection of C and C++ building blocks for servers: a
thread pool with a hand-made spin lock, a coroutine library that turns blocking
socket calls into asynchronous ones, an epoll reactor, memory pools, and demos.
This directory models the parts in which steps of several actors meet, checks
them with TLC on small instances, and proves what matters most for instances of
every size with TLAPS.

`tlc -config <run>.cfg <module>.tla` runs a check, `tlapm <module>Proofs.tla`
checks the proofs; PROJECT.json says which run checks what, which source lines
each definition stands for, and for every property a faulty variant of the code
(the definitions commented "Wrong variant") that the property catches.

## 1. The system

| Part | Source | State | Operations | Models |
|---|---|---|---|---|
| Spin lock | `tools/thread_pool/src/spinlock.h`, `atomic.h` | one atomic int | lock, trylock, unlock | `SpinLock` |
| Task queue | `thrd_pool.c` `task_queue_t` | linked list, tail pointer, spin lock | `__add_task`, `__pop_task` | `TaskQueue` |
| Thread pool | `thrd_pool.c` `thrdpool_s` | quit, block, mutex, condition, queue, workers | post, terminate, waitdone, the worker | `ThreadPool` |
| Its construction | `thrd_pool.c` | what is allocated and initialised | `thrdpool_create` and its error paths | `PoolCreate` |
| C++ pool | `CThreadPool.cc` | two mutexes, vector of threads, deque | getInstance, initialize, submitTask, workerThread | `CThreadPool` |
| Coroutine scheduler | `cppNetwork/wlyCo/src/nty_schedule.c`, `nty_coroutine.c` | ready queue, sleeping and waiting trees, status bits | run, resume, yield, create, wait for a descriptor | `Scheduler` |
| Its time | `nty_schedule.c` | keys of the sleeping tree, timeouts | sleepdown, expired, min_timeout, epoll, renice | `SleepTimer` |
| Coroutine stacks | `nty_coroutine.c` | one stack, a copy per coroutine | `_save_stack`, `_load_stack` | `SharedStack` |
| Socket hooks, poller | `nty_socket.c`, `nty_epoll.c` | what epoll watches; a call's progress | socket, accept, connect, recv, send, recvfrom, sendto, close | `SocketHooks`, `Scheduler` |
| BSD trees and queues | `nty_tree.h`, `nty_queue.h` | links, colours | the `RB_` and `TAILQ_` macros | `RBTree`, `WaitTree`, `TailQueue`, `TailQueues` |
| Echo server on coroutines | `wlyCo/test/hook_tcpserver.c` | local variables | server, server_reader | `HookServer` |
| Second copy of the coroutine library | `cppNetwork/NtyCo/core` | | byte for byte `wlyCo/src` | by the same models |
| Fixed block pool | `tools/mem_pool/src/mempool.c` | free list in a page | init, alloc, free | `MemPool` |
| Pool with large blocks | `tools/mem_pool/src/mmpool-success.c` | chain of nodes with last, end and failed; list of large blocks | create, alloc, nalloc, memalign, free, reset, destroy | `MpPool` |
| Unfinished pool | `server_mpool.c` | | a variant of the same that was not finished | |
| Stand-alone reactor | `cppNetwork/reactor/reactor-socket.cpp` | table of connections in blocks, epoll's set | accept_cb, recv_cb, send_cb, zv_connect_idx, main loop | `EchoReactor` |
| wlnet reactor | `cppNetwork/wlnet/src`, `test/server_TCP.cc` | blocks of connections, callbacks, epoll's set | accept_cb, recv_cb, send_cb, wl_connect_idx, wl_run_reactor | `Wlnet` |
| wlnet work queue | `test/server_TCP_threadpool.cc` | LIFO of jobs, workers | add, worker, shutdown | `WorkQueue`, `Wlnet` |
| Demonstration servers | `cppNetwork/select`, `poll`, `epoll`, `socket` | descriptor sets, a buffer | a loop each | `DemoServers` |
| Clients, examples, notes | `client_TCP.c`, `setjmp.c`, `Ucontext.c`, `cmake-`, `middleware`, `workResults`, `tools/cnn_pool` | | | no behaviour of interest |

How they interact:

- A pool's threads share its queue. `thrdpool_post` allocates a task,
  links it under the spin lock and signals the condition *without* the mutex; a
  worker that finds the queue empty takes the mutex, tests `block` and waits.
  `thrdpool_terminate` sets the atomic `quit`, clears `block` under the mutex
  and broadcasts. `thrdpool_waitdone` joins the workers and frees everything.
- A coroutine that calls a hooked socket function registers the descriptor with
  epoll, puts itself into the waiting tree and yields. The loop of
  `nty_schedule_run` resumes it when epoll reports an event; after its yield it
  takes itself out again. All run on one stack, which is copied out and in.
- A reactor calls the callback that its table has for an event's descriptor;
  the callback changes the table, the interest in epoll and the set of open
  descriptors before the rest of the batch has its turn. The stand-alone one is
  level triggered; wlnet's is edge triggered, and in `server_TCP_threadpool.cc` its loop
  makes a job of each event, which a worker takes from a list and runs
  beside the other workers.
- A large block of the memory pool is known by an entry that the pool allocates
  from its own small blocks; the free blocks of the other pool are its list.

What is hard: the order of lock-free reads and locked steps in the pool, a
shutdown that overlaps with posts, freed tasks whose addresses come back;
events that were fetched in a batch while the coroutines resumed for the first
of them close, hand on or reuse the descriptors of the others; bookkeeping of
coroutines in five containers by hand; starvation between the loop's three
sources of work; buffers and table entries that pass from one connection to the
next; edges that are reported once; calls that are cut short and go on; links of
trees and queues that only some sequences of operations reach; pointer arithmetic
and failure counts along a chain of pool nodes. PROJECT.json lists these hazards at
their lines.

## 2. Modules

`Mutex` and `Fifo` are the abstract specifications: a lock that has at most one
holder, and a queue whose operations take effect at one instant.
`PrivateStacks` is a stack of its own for each coroutine, `Timers` a set of
deadlines and a line of the ready. `Sockets` is what the servers see of the
operating system, and the peers behind it.

- **SpinLock** - every access to the atomic int is an action: the exchange of
  `spinlock_lock`, the load and the exchange of `spinlock_trylock`, the store of
  `spinlock_unlock`. *Implements `Mutex`*.
- **TaskQueue** - head, tail and links as addresses; `task_s.next` comes first,
  so a task's address is its link's, and `tail` is `&queue->head` or a task.
  Each read or write of them is an action under the lock (`Mutex`); `malloc`
  may return any address that is not live. *Implements `Fifo`*.
- **ThreadPool** - uses the abstract `Fifo` and `Mutex`. An action is one
  access to shared state: a pop or an add, the test or store of `quit`, the
  mutex, the test or the clearing of `block`, `pthread_cond_wait`, the signal.
  Wake-ups may be spurious. Tasks may post and terminate like any thread.
- **PoolCreate** - the steps of `thrdpool_create`, each of which may fail, the
  undoing, the joining, and the freeing in `thrdpool_waitdone`.
- **CThreadPool** - the blocks under `m_taskMutex` are atomic; `m_mutex` is held
  for the whole of `initialize` while the threads already run.
- **Scheduler** - `phase` is where `nty_schedule_run` is, `curr` the running
  coroutine. The loop's steps are actions; so is what a coroutine does up to its
  yield or to the return of its library call. A coroutine may be at two places:
  in its own code, or in `nty_poll_inner` between the yield and what follows.
  The states `null_pointer`, `assert`, `dangling` and `queued_twice` are those
  in which the code dereferences NULL, fails an assert, leaves a freed coroutine
  in a container or links one twice; they are final.
- **WorkQueue** - `waiting_jobs` is touched under `jobs_mutex` (`Mutex`) only, so
  what lies between a lock and its unlock or wait is one action. The list is a
  stack: new jobs go to its head. `workqueue_shutdown` writes the flags without
  the mutex, one worker at a time; a worker that sees its flag leaves with the
  mutex *locked*, and its record is freed, which the walk may read (`wild`).
- **MpPool** - addresses are words from the start of a node's memory. `CutFrom`
  and `CutNew` are the two ways a call gets a block, for the caller or for an
  entry of the large list. `garbage` says that `head->next`, which
  `mp_create_pool` does not set, is not NULL; a call that follows it ends in
  `wild`. `overrun` is the state after a block was given beyond its node.
- **MemPool** - the page as words, in which a block holds its link when it is
  free and the caller's data when it is not.
- **Sockets** - peers connect, send numbered bytes, read, end and reset by themselves.
  The kernel is modelled from how the code uses it: lowest free descriptor, a
  reset that is reported once and then kills the sender by SIGPIPE. Three modules
  extend it with a server:
- **EchoReactor** - the callbacks are actions, with the branches of their system
  calls; `events` is what is left of the batch of `epoll_wait`. Level triggered.
- **Wlnet** - the callbacks step by step, one action for each system call and
  each access to the connection's entry, since workers run them side by side;
  `edge` is what epoll has not reported yet. With `Workers = {}` it is
  `server_TCP.cc`, otherwise `server_TCP_threadpool.cc`.
- **DemoServers** - the four loops around a blocking read and a blocking send;
  `kind` says whose, and so whom it sees to first and what a failed call leads to.
- **SocketHooks** - every `nty_` call and the hooked call of the same name:
  the poll, the yield, and the system calls with their results between which
  the peers and the network act. `ResumeWaiting` is what Scheduler does in detail.
- **RBTree**, **TailQueue** - the macros of `nty_tree.h` and `nty_queue.h` as
  operators on records of links, one for each macro and each turn of a loop;
  `While` turns one until its condition fails. **WaitTree** and **TailQueues** run
  them in every order, next to the set and the sequences that they should be.
- **SleepTimer** - the sleeping tree and the ready queue down to their links, the
  keys, and the timeout as it goes through `timespec` to whole milliseconds.
  *Implements `Timers`*.
- **HookServer** - extends SharedStack: every step that runs a coroutine is one of
  its steps, with the word in which `server` keeps `clientfd` and `server_reader` a
  part of its buffer. `OneStack` is the build with `_USE_UCONTEXT`, without it
  every coroutine has a stack of its own.
- **SharedStack** - words counted from the top; calls, returns and stores of the
  running coroutine, copies out and in. *Implements `PrivateStacks`*.

The composition is by refinement: SpinLock implements the Mutex that TaskQueue
extends, TaskQueue implements the Fifo that ThreadPool instantiates. Each step
is both model-checked and proved. WorkQueue instantiates the same `Mutex`;
SleepTimer and WaitTree extend RBTree, SleepTimer uses TailQueue, HookServer the stack. SocketHooks assumes of the
scheduler what Scheduler's `EventsAreServed` and `WokenInTime` say.

`MC*` modules give constants their values. `*Proofs` modules hold the theorems.
Some of the MC modules put small components that do not interact side by side: a
variable `part` is chosen in the beginning, one component takes steps and the
others stay in their initial states. Their state spaces add up and do not multiply.

### Abstractions

- Payloads, callbacks' arguments and messages are model values. The C11 atomics
  are sequentially consistent: the code uses the default order, except the
  relaxed/acquire pairs in spinlock.h, whose effect on one word is the same.
- `ThreadPool.Shared` is the contract of the pool, taken from
  `test/main.c`: threads other than the workers stop using a pool when
  its owner has called `thrdpool_waitdone`, which frees it. Tasks do not stop.
- `Scheduler` has a set of sleepers, any of which may be due at any time. The
  times, the bumping of equal keys and the length of epoll's wait are
  `SleepTimer`'s. `Next` is without sleepers; `TimedNext` adds the calls of
  `nty_coroutine_sleep(msecs)`, whose caller the loop resumes wherever it is then:
  the call does not yield (nty_coroutine.c), so a "sleeper" runs on. `SleepTimer` has the
  callers that yield at once.
- In `Scheduler` a descriptor is used by the coroutine that owns it, and may be
  passed on, as `hook_tcpserver.c` does. Two coroutines that wait for one
  descriptor at a time would meet the assert of nty_schedule.c:172.
- In `SharedStack` a coroutine uses its own frames: what wlyCo/README.md:65
  calls stacks of their own (独立栈) holds for what a coroutine reaches by itself.
  `hook_tcpserver.c:62` passes a pointer into another's frames (`HookServer`). Where
  the reader's own calls overwrite that word first, which depends on the
  compiler, the argument is lost sooner than in the model.
- In `HookServer` the server's sockets are made, and what peers send is left
  out: whoever waits for an open connection may have an event.
- In `SleepTimer` a second has two milliseconds and a millisecond two microseconds:
  enough for a timeout to have seconds, milliseconds and a rest.
- In `WaitTree` a coroutine is the descriptor it waits for. `RBTree` has the
  trees of the header, not its splay trees, which nobody uses.
- `SocketHooks` counts bytes that a connection takes (`Room`) and what is to be read as
  there or not; a descriptor is used by one call at a time.
- In `MpPool` a request that gets no memory leaves the pool as it was; the
  contents of blocks are left out. Lengths are whole words: 4095 bytes, the
  largest small block, are 511. `PoolAssumption` wants room for a list entry in a
  node (two words): below it `mp_alloc_large` writes past a node's end.
- In `MemPool` sizes are whole words of eight bytes: a smaller block could not hold
  its link. Only blocks that are out are freed; `memp_free` itself does not look.
- In `EchoReactor` `zv_dest_reactor` is left out (the loop never ends), and a `malloc` that fails. Its sockets
  block, so a callback whose event no longer holds would stop the whole server.
- In `Wlnet` a `malloc` that fails is left out (the caller would follow NULL), and
  `m_mutex`: it is held within one step. The sources have conflict
  markers of an unfinished merge (wlnet.cpp:188-206), so the file does not compile as it is;
  both sides do the same. The answer is a fixed text, which counts for all the
  bytes that were received before.
- In `WorkQueue` all workers start: `workqueue_init`'s result is ignored by its
  caller, and a half-started queue is not modelled.
- EPOLLHUP may accompany every event. A descriptor that epoll reported stays
  reported until it is read or closed (the code registers level-triggered).
- A freed coroutine that is still in the sleeping tree or the ready queue ends
  the behaviour; what the program does after that is not modelled.

## 3. Runs

| Run | Instance | States | Shows |
|---|---|---|---|
| `pool_parts` | lock: 4 threads; create: 5 workers; C++ pool: 2 callers, 2 tasks, 2 threads; work queue: 2 workers + loop, 3 jobs at once, no end of events | 17 k | the lock implements `Mutex` and somebody always gets in; what a failed create leaves behind, and that the rest is given back after its workers have ended; one batch of threads, and one that has not ended drains; custody of jobs, a signal is not lost, a free worker takes a job |
| `task_queue` | 3 threads, 3 addresses | 77 k | no access to a freed task, implements `Fifo` |
| `thread_pool` | 2 workers + main, 2 tasks | 26 k | custody of tasks, no worker sleeps through shutdown, teardown is alone and completes, an awake worker drains |
| `thread_pool_lost_wakeup` | 1 worker, 2 tasks | | violation: a queued task may wait with an idle worker |
| `scheduler` | 3 coroutines, 2 descriptors | 328 k | nobody lost or resumed twice, events meet their waiters, recv finds what it was woken for, only who returned is freed, the ready run, events are served |
| `sleepers` | 2 coroutines, 2 descriptors, calls of nty_coroutine_sleep(msecs) that return at once | 189 k | the asserts hold under the timer |
| `trees` | timer: 3 coroutines, time to 8; tree of waiters: 9 descriptors | 569 k | implements `Timers`, waits are never too long; the tree is red-black, ordered, linked both ways and finds |
| `coroutine_calls` | hooks: 2 coroutines, 2 descriptors, room for 1 byte, sends of 0 and 2; server: 2 readers, 2 connections, own stacks; stack: 2 coroutines, 3 words; queues: 2 with 4 elements | 129 k | a send sends a prefix once; calls look as if they blocked, and return if the ready queue keeps running empty; a reader gets its client; copies fit, implements `PrivateStacks`; queues keep their order |
| `hook_server` | the same server on one stack | | violation: a reader gets another word for its descriptor |
| `mem_pools` | 5 words a node, up to 8 nodes and 9 blocks, 2 large blocks; a page of 8 words in blocks of 2, 3, 8, 9 | 510 k | blocks apart, large blocks freed once; the free list survives what callers write |
| `servers` | 2 peers; reactor: 3 and 1 bytes, 2 descriptors in 2 table blocks; demos: 2 and 1 bytes; wlnet: 2 bytes and none, 1 byte read at a time, alone and with a worker | 193 k | each is echoed its own bytes, no event is handled that does not hold, what an accepted peer sends is answered (by `select`'s and `poll`'s servers once nobody waits to be accepted) |
| `wlnet_pool` | wlnet with 2 workers, 2 bytes read at a time | | violation: one worker's recv takes the bytes of two edges, the other's waits |

A type invariant is the first conjunct of an invariant of each run
(`OnePlace`, `OneBatch`, `CreateFailureIsUndone`, `JobCustody`, `BlocksApart`,
`EventsHold`, `FreeListSound`, `TreeOfWaiters`), or is proved (`SpinLock`,
`TaskQueue`, `ThreadPool`, `SharedStack`, ...).

Bounds. Four spinning threads give every overlap of a winner, a losing
trylock, a losing lock and a waiter. Three addresses in the queue are enough for
a first, a last and a middle task and for one to be reused while two are in use;
threads post and pop without bound. Two tasks and two workers let one worker
sleep while the other posts, terminates, or takes the last task; the proofs cover
any number, and client threads besides main, which the run leaves out for its
liveness. Five workers let `pthread_create` fail at the first, a middle and the
last one. Three coroutines and two descriptors let a batch of two events meet a
coroutine that acts between them. Three words of stack give frames that
grow, shrink and grow again. Nine descriptors give red-black trees of height
four, in which each of the cases of insertion and removal occurs, at the root and
below it; the runs reach every sequence of operations on them. Three
sleepers give a tree with two children, and equal ends that are counted on twice;
time to eight leaves room for two seconds. Four elements give a queue a first, a last and two in
the middle, while the other is empty or not. Three jobs at once are two that the workers
have and one more to be taken; one that was freed is made again. Requests of one, five and six words into nodes
of five fill a node, exactly or with a rest, and go to the large list; the
sixth failure, which moves `current`, needs eight nodes. Three bytes and a
buffer of two give a full, a partial and a second read; the second descriptor is
in a table block of its own. wlnet's bytes are read one by one, so that one is there
already when the interest changes; in `wlnet_pool` two at a time, so that one recv can take
the bytes of two edges. Two bytes into a connection with room for one make a
send poll in between, twice when the first attempt finds no room. Two readers let one run
between the creation of the other and its start. `MaxNodes` and `MaxBlocks` bound what a pool
cannot give back before it is reset. `MaxJobs` bounds wlnet's waiting jobs, `MaxNow` the time. There are no
state constraints: the only bounds are the constants.

Deadlock checking is off where a system may stop: a pool that was freed, a
pool whose workers wait for tasks nobody posts (idle), a create that returned, a scheduler
whose coroutines have all ended or that reached one of the final states above, a
work queue without events or with its mutex lost to a worker that left, a memory
pool that was destroyed, a server without peers or killed by SIGPIPE, coroutines whose
peers do nothing.

### Fairness

- `SpinLock`: a thread that is in an operation takes its next step, and a holder
  unlocks (WF). Nobody must start an operation. The property is that *some*
  thread gets in; starvation of one is possible and not excluded.
- `ThreadPool`: enabled steps of a running thread are taken (WF). A
  mutex that becomes free again and again is got (SF: the pthread mutex does not promise it
  to the letter, but its queueing gives it). A task's function returns however
  often it posts (SF, because calls of the pool it makes disable the return for a while).
  Nobody is obliged to create, post, terminate or wait; no wake-up is forced.
- `PoolCreate`, `CThreadPool`: the same; workers that were told to exit do.
- `Scheduler`: the loop goes on, and no coroutine runs for ever without yielding
  or returning. Nothing is assumed of the kernel: descriptors need not fire.
- `WorkQueue`: threads take their steps and get the mutex, as in `ThreadPool`. A job's
  callback need *not* return, since those of wlnet may wait in `recv` and `send` for ever
  (wlnet.cpp:235, 283). No event has to come or to stop coming, and nobody has to shut down.
- The servers: the server takes its steps, and peers read what they were sent
  (WF): a peer that never reads stops its own echo, and in the demonstration
  servers, which block, everybody's. Which event of a batch is handled first is
  open, but a batch is handled before the next wait. `accept` may fail for ever, as it
  does when the process has no descriptor left.
- `SocketHooks`: a coroutine in a call goes on (WF) and does not run for ever
  without waiting (SF on its yield); one whose descriptor has an event again and again *when the
  ready queue is empty* (`NobodyReady`) is resumed (SF), which is `EventsAreServed` of Scheduler:
  epoll is asked only then (nty_schedule.c:289). Peers read and the network answers a
  connect (WF). Nobody has to send.
- The other parts are checked for safety only.

## 4. What the checks show

**Pool.** Every task is in one place (`Custody`) through posting, running,
refusal and dropping; a terminated pool starts at most one more task per worker
(`AtMostOneMoreTask`): the read of `quit` precedes the pop. No worker sleeps once
`block` is cleared and the broadcast made (`ShutdownWakesAll`): the
clearing is under the mutex that a worker keeps from its test to its wait. The
signal of a post has no such protection, so a task may be left with a worker
that just went to sleep (run `thread_pool_lost_wakeup`, which contradicts
README.md:42 of the pool); what does hold is that a worker which is awake and not past its empty
pop keeps tasks from staying (`AwakeWorkerDrains`).

**Scheduler.** `OnePlace`: a live coroutine is in exactly one of ready queue,
waiting tree and `curr`. `EventsHaveWaiters`: the unchecked lookup at
nty_schedule.c:128 never fails, as long as coroutines use their own descriptors:
a coroutine with an event left in the array cannot run, so nobody can close or
reuse its descriptor. `WokenInTime`: recv finds what it was woken for.
`FreedWhenReturned`: the `FDEOF` bit that EPOLLHUP sets is cleared again by
`nty_schedule_desched_wait` before line 334 could free a coroutine that goes on.
A round ends after everyone found was resumed, and only then, although the
code compares with the coroutine that was last when it began (proved).
`ReadyRuns`, and `EventsAreServed` on the condition that the ready queue keeps
running empty - coroutines that keep it filled (with sleep(0), or by creating
others) keep epoll from being asked at all (nty_schedule.c:289).
`AssertsHold` depends on descriptors not being shared at a time.
Lines 160 and 162 set status bits 0 and 1 by their number where the other lines
use BIT: to wait for input sets nothing, to wait for output sets WAIT_READ. The
model has both, and the asserts hold all the same, since waiting ends with status 0.

**Creation.** `CreateFailureIsUndone` says of each way in which `thrdpool_create` fails what
is left behind: nothing, but for the attributes when there is no memory for the threads
(thrd_pool.c:169-184 destroys them inside the `if`), and for the queue when its mutex or condition
could not be initialised (thrd_pool.c:58-61), where in addition that object is destroyed all the
same. When `pthread_create` fails, at the first worker or later, everything is given back, and what workers
use only after those that were started have ended.

**Stacks.** Although `co->stack` grows only when the *last* copy was smaller
(nty_coroutine.c:57), and its size is that of the last copy and not that
of the memory, the copies fit. To a coroutine by itself the shared stack
is a private one.

**Work queue.** `JobCustody`: no job is run twice, freed early or lost but by
shutdown. Unlike the pool above, this queue signals under the mutex and workers
look at the list again before they wait, so `JobsHaveAWorker` holds until a
shutdown begins: jobs never wait while every worker sleeps. `JobsAreTaken` is about each
worker: unless it is in a callback, it takes a job as long as there are any, although
callbacks of others may never return. A signal for the first job of an empty list
alone would be enough for the former and not for the latter. Neither says that a given job is run:
the list is last-in first-out (see below).

**Memory pool.** `mp_alloc` compares `(size_t)(end - m)` with the size; when
aligning takes `m` beyond `end` the difference is huge and the block is
given anyway. `BlocksApart` says exactly when: the node's end must be off an
alignment boundary. For every size one of the two kinds of node, head or later,
has such an end, because their headers differ. `PassedOverHaveFailed`: `current`
jumps behind the *last* node that failed often enough, which loses nothing only
because failure counts never rise along the chain. `LargeCustody`: each large block
is in one entry, and is freed once, by `mp_free`, reset or destroy.

In `mempool.c` the links lie in the blocks themselves; `FreeListSound` says that they,
the count and the blocks that are out always make up the page, whatever the callers
write. The NULL after the last block is written one block further, past the page
when the size divides it (mempool.c:38); the model has a word there.

**Servers.** `EventsHold`: no callback of a batch can make a later event of it
false, since each callback touches its own descriptor and a descriptor that is closed
had its event taken. With blocking sockets this is what keeps one connection
from stopping all. In wlnet it includes that the second `close` of wlnet.cpp:251 finds a
descriptor nobody has: with one thread, nothing runs between the two.
`EchoesItsOwn` holds although buffers are not cleared between
connections: what was received bounds what is sent, and every entry is opened anew. A reset
that meets a send stays open until a second send, whose SIGPIPE ends the
process; `RepliesCome` excepts it. `RepliesCome` is about peers that were accepted. For `select`'s
and `poll`'s servers it has a premise, that from some time on no peer waits to be accepted: while one does they see to
nobody else, for ever if `accept` fails for want of a descriptor. Of wlnet with one thread it
says that no edge of a *connection* is lost:
EPOLL_CTL_MOD looks at the descriptor anew, so bytes that arrived while a send was
waited for are reported. Of its listener it says nothing: see the end of this section.
With worker threads that is not enough (run
`wlnet_pool`, which contradicts wlnet/README.md:3 and :12): two edges become two
jobs, the first worker's `recv` takes the bytes of both, and the second waits in `recv`.

**Socket hooks.** A hooked send tries before it polls and leaves the result of the
first attempt, also an error, to the second; then it goes on behind what was
taken. `SendsAPrefix` and `LooksBlocking` say that nothing is sent twice or left out,
and that no call of a connection returns for want of data, room or an
answer. `CallsReturn`, that a call returns if the ready queue runs empty again and again, holds without timers - the timeout 1 that all calls pass
sets none (nty_schedule.c:175) - because epoll is level triggered and every poll
registers and removes its own interest. Beside a coroutine that
yields in a loop it need not return: epoll is not asked (nty_schedule.c:289). Datagrams are excepted from `LooksBlocking`: `recvfrom` returns
EAGAIN when the datagram was dropped after the event.

**Time.** SleepTimer implements `Timers`: whoever sleeps is resumed no earlier than
its end, in the order of ends, and the line of the ready loses nobody. The removal by key before an insertion
(nty_schedule.c:90) never hits another sleeper. From one second on the timeout drops the milliseconds
(nty_schedule.c:292), and epoll_wait gets whole ones: `WaitsNoLongerThanSleep` says that
neither makes a wait too long. Both make it too short: the loop then goes round
again, below a millisecond without waiting at all.

**Trees and queues.** `TreeOfWaiters`: after any sequence of insertions and removals the
tree is ordered, red-black, consistent upwards and downwards, holds exactly the
waiters, and RB_FIND, RB_NFIND, RB_MIN, RB_MAX, RB_NEXT and RB_PREV find what they should.
`LinksKeepOrder`: the same of tail queues, read in both directions.

**Echo server on coroutines.** `server` gives its readers the address of its local variable.
With a stack for each coroutine that is right, for a reason that is not in
the server: the ready queue is run before epoll is asked again, so a reader has read its
argument before `server` accepts the next connection. On the shared stack the build uses, `server`'s frames have been
copied out by then; the word still holds the descriptor unless another reader
was resumed in the same batch (run `hook_server`, which contradicts wlyCo/README.md:65).

Also seen, and not among the runs:
`head->next` of a memory pool is read before it was ever written
(mmpool-success.c:57-76, states `wild` of `MpPool`); under a steady stream of events an old job of
the work queue is never run, since new ones are put in front (server_TCP_threadpool.cc:137);
wlnet's listener is edge triggered (wlnet.cpp:101) and `accept_cb` accepts once for
each edge, so of two peers that connect at once one may wait until a third connects;
no shutdown of the work queue
comes to its end once a worker has seen its flag and left with the mutex
(server_TCP_threadpool.cc:60), and it may read a freed record (line 119); nobody calls it;
a thread of `CThreadPool` that finds the deque empty ends, so that later tasks may
have no thread (CThreadPool.cc:51; `LiveThreadDrains` speaks of those that live).

## 5. Proofs

All theorems hold for every value of the constants under the `ASSUME`s of the
modules, all of them what the code needs to make sense: distinct model values; a stack of
at least one word; at least one worker; nodes of at least two words; blocks of at
least one word; a table block and a buffer of at least one entry; trees over finitely many
nodes; a second of a whole number of milliseconds; in `hook_tcpserver.c`, three frames.

- `PoolPartsProofs`, the thread pool's small parts. Spin lock: `LockInv` = type,
  exclusion and the exactness of the word (1 exactly while somebody is inside) is
  inductive. From it `Exclusion` (which `ImplementsMutex` includes), and
  `SpinLockImplementsMutex` by one case per action: only the exchange that read 0
  and the store are visible.
  `thrdpool_create`: `CreateInv` adds to the type what the pool has at
  each step (`HaveInOrder`), that the workers that run are those started and not
  yet joined (`WorkersInOrder`), which failures lead to which place (`FailedInOrder`), and that only
  the two paths that destroy what was never initialised do so (`MisuseInOrder`). Its consequence
  `FailedCreateIsUndone` covers every failing step.
  C++ pool: `CxxInv` adds who may be inside `initialize` (`OneInitializes`), that the vector
  is what was started (`VectorExact`), and that started and left to start are one batch (`BatchCounted`).
  The work queue: `JobInv` adds to `JobCustody` at which pc a thread has a job in
  hand (`Hands`), and that workers leave only when told (`LeaveWhenTold`): that is
  why, before a shutdown, a worker woken or working is one that looks at the
  list again, which makes `JobsHaveAWorker` inductive.
- `TaskQueueProofs`: `QueueInv` adds to the type who holds the lock at which pc
  (`LockHeld`), that an address belongs to one thread, or to the queue, or is
  free (`Ownership`), that head and links spell `fifo` (`ListIsFifo`), where
  `tail` is at each step under the lock (`TailIsLast`), and what a thread knows
  between two accesses (`LocalFacts`). Neither of `ListIsFifo` and `TailIsLast`
  is inductive alone: the add writes through `tail`, and the pop must know that
  `tail` will be repaired. `MemorySafe` and `ListImplementsFifo` follow; an add
  takes effect at its write of `*tail`, a pop at its write of head, or at its
  read of NULL.
- `ThreadPoolProofs`: `PoolInv` adds to `Custody` whose hands a popped task is in
  (`Hands`), where the mutex is held, that a worker about to sleep saw
  `block = 1` and that this is still so, which phases of main allow which places
  of the others (`Phases`), and how many tasks were begun late (`LateTasks`).
  From it the safety theorems.
- `MemPoolProofs`, both pools. With nodes: `PoolInv` adds where a node's marks are (`NodesFit`: below the
  end, with every block below `last`) and that failure counts are at most five
  from `current` on and never rise along the chain (`FailedInOrder`), without
  which `PassedOverHaveFailed` is not inductive. `StepKinds` reduces every
  step, as far as nodes are concerned, to a cut or a step that leaves them alone.
  The page: `FreeListSound` is inductive together with its types (`PageInv`), for every page
  and every block size. The work is arithmetic: distinct multiples of the size are at least a block
  apart (`MultiplesApart`, `BlocksInPage`), so that what a caller writes into a block it
  holds meets no link.
- `SchedulerProofs`. For coroutines that do not sleep (`Next`) `SchedInv`
  adds to `OnePlace` that a waiting coroutine owns the descriptor it waits for
  and epoll's set is those descriptors (`WaitersOwn`), that the owners of the
  events left in a batch still wait and do not run (`BatchWaits`: so nobody
  can close, pass on or wait for such a descriptor), that own code has neither a wait bit
  nor FDEOF (`CleanStatus`), and that a round owes its turn to the prefix of the
  ready queue up to `last` (`Owes`). All safety properties of the run
  `scheduler` follow, `FreedWhenReturned` as an action property; so does
  `RoundIsComplete`, that a round ends when everyone it found was resumed.
  With sleepers (`TimedNext`) the timer resumes whom it likes, and most of that is
  false: a coroutine may be in two places. What is left is `SleepersInv`: who waits is inside
  `nty_poll_inner` and owns its descriptor, only who waits has the bit of a waiter,
  and FDEOF is had only by the coroutine that was resumed for an event. That is enough for
  `AssertsHold` and `FreedWhenReturned`.
- `CoroutineCallProofs`, what coroutines call and run on.
  Stacks: `StackInv` says that a coroutine's copy has the size
  recorded and fits; `SharedImplementsPrivate` maps each step to one of
  `PrivateStacks` or a stutter.
  Echo server: `HookInv` adds to `StackInv` where a coroutine's frames are at each place of its
  function (`Placed`), that at most one reader is in the ready queue (`OneReady`), and that
  `server` is not resumed, and its word not written, before that reader has read its argument (`ArgumentStays`).
  It holds in both builds: `clientfd`, in `server`'s own frames, still is what was accepted. With stacks of
  their own readers therefore serve their clients (`OwnStacksServe`, a part of it); on the shared
  stack the address leads into somebody else's frames, which the run `hook_server` shows.
  Socket calls: `CallsInv` says that a call in progress has no error, and behind it a prefix of its
  buffer (`SendsInv`), that its descriptor is in a state for it (`InItsState`), that a descriptor has one call,
  which epoll watches for what it waits for (`OneCallEach`), and that the event that resumed it is still
  true (`EventIsTrue`). `SendsSendAPrefix` and the action property `CallsLookAsIfBlocking` follow.
  Tail queues: `QueuesInv` describes links without recursion: the i-th link of a queue
  points to the element behind it and whatever is behind points back (`Chain`), the elements of a queue are
  distinct, and queues share none. Every macro is an insertion, a removal, a concatenation or a swap of chains. The walks read
  a link as a head, as TAILQ_PREV does; what they find follows from `Chain`.
- `ServersProofs`, the servers over `Sockets`, for any number of peers, any buffer and table block.
  `SocketsInv` is about the peers: descriptors are of one peer each, what was echoed is a prefix of what was
  taken, and that of what was sent. On top of it `ReactorInv` has, for each entry, that its callback
  and the interest in epoll agree and that its buffer holds just the bytes that are owed (`EntryInv`), and that the rest of a batch is
  still so (`BatchInv`); `DemosInv` that the one buffer has the last bytes of the connection in hand
  (`BuffInv`, `LagInv`) and that what the loop was told is still so (`ToldInv`);
  `WlInv` that every connection but the one in hand is coupled to its interest (`Coupled`), with what holds
  before each step of its callback (`StepInv`). With workers (`pool`) only what does not need the one
  thread is claimed and proved. `EachIsEchoedItsOwn` and `EventsStayTrue` follow.
- `TreeProofs`, the trees and the ready queue of nty_schedule.c. The proofs of nty_tree.h use no recursion: a
  tree has a witness `sub`, the set of nodes below each node, and a height `h`, the
  number of black nodes on the way down, and the invariant `Sound` says that there are such
  functions (`Shape`: links agree both ways, `sub` of a node is itself and its children's, keys are in order;
  `Coloured`: the black heights of children agree, and no red node has a red child). `UnderIsSub` and
  `ColouredIsRedBlack` show that the recursive definitions of `TreeOfWaiters` say the same.
  The loops of the header go by one rule (`LoopRule`): what every turn keeps holds where `While` ends, if a set shrinks with
  each turn. The nodes below the one at hand shrink on the way down, those not below it on the way up.
  A rotation keeps `Shape` and changes `h` in one place; `InsertColor` and `RemoveColor` are then case
  by case those of the macros: a red node below a red one, or one black node too few below a node, moves
  up or is mended. `TreeOfWaitersHolds` follows, with what each search and step finds.
  Sleepers: the inductive `SleepInv` names a set A of sleepers and a sequence s, and says that the tree
  is `Sound` for A, that the links of the ready queue are those of s (`LineOf`), that nobody is
  in two of A, s and the coroutine that runs (`Lined`), and of the keys (`AwakeInv`) that those of A
  are their own, while the stale key of whoever is awake is over and no sleeper's. The last part is what the
  removal at the head of `nty_schedule_sched_sleepdown` depends on: it searches under the stale
  key, and would otherwise take somebody else out (`ClearedFacts`). The count to a free key ends since
  there are more keys than coroutines (`FreeFromFacts`, by the pigeonhole principle). That links spell one sequence is by
  least counterexample along them (`WalkIsLine`). `SleepTimerImplementsTimers` then has one case per
  action; `WaitsAreShortEnough` needs the first sleeper (`SoundMin`) and that a time
  cut into seconds, nanoseconds and milliseconds does not grow, because a second is a whole number of
  milliseconds (`CutDown`).

The kernel gives out the lowest descriptor that is free; that a set of numbers has a least one
is derived from the well-foundedness of the naturals (`LeastNatural`, `MinIsLeast`), since an
induction theorem would take an operator as its parameter.

Model-checked only:

- All liveness - `SomeThreadGetsIn`, `LiveThreadDrains`, `ShutdownCompletes`, `AwakeWorkerDrains`,
  `ReadyRuns`, `EventsAreServed`, `JobsAreTaken`, `RepliesCome`, `CallsReturn`: the prover has no
  fairness and no ENABLED.

## 6. Not modelled, and plan

Not modelled, and why:

- `cppNetwork/NtyCo/core` is byte for byte `wlyCo/src`, and has no tests of its own.
- `server_mpool.c` was not finished: its functions are those of `mmpool-success.c`
  half way; `client_TCP.c` opens connections and counts them.
- `setjmp.c`, `Ucontext.c`, `cmake-`, `middleware`, `workResults`, `tools/cnn_pool`:
  straight-line examples, build files and notes.
- The splay trees, lists, simple and circular queues of `nty_tree.h` and `nty_queue.h`:
  nobody uses them.
- `wl_dest_reactor`, `zv_dest_reactor`, `nty_schedule_free`: after loops that never end, or at the end.
  `nty_coroutine_detach` and `nty_schedule_cancel_wait` have no caller.
- `workqueue_init` failing half way: its caller ignores the result.
- Limits with which the code compares no descriptor: poll's array of POLL_SIZE entries
  (poll-socket.cpp:56, 76), and FD_SETSIZE, the bits of select's sets (select-socket.cpp:79).
- A `malloc` that fails when the reactors' tables grow: `zv_connect_idx` then returns NULL, which its callers
  follow (reactor-socket.cpp:171-176, 205-209, 245-246); so does `wl_connect_idx`, with `m_mutex` locked.
- An `emplace_back` of `CThreadPool::initialize` that throws.
- The kernel beyond what the actions say, printing, address families, the
  assembly context switch, the end of the process.

Next: what happens to the peers that nobody accepts and to the coroutines and jobs that starve
(sections 3 and 4 name them) is left to premises of the liveness properties; a
bound on how long each of these lasts would be worth stating.
