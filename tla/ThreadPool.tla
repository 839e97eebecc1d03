----------------------------- MODULE ThreadPool ------------------------------
(***************************************************************************)
(* tools/thread_pool/src/thrd_pool.c: a pool of workers that sleep on a    *)
(* condition variable while the task queue is empty.                       *)
(*                                                                         *)
(* The queue is Fifo, which the linked list implements (TaskQueue), the    *)
(* pthread mutex is Mutex.  Every action is one access to what the threads *)
(* share: the queue, the atomic quit, block under the mutex, the mutex,    *)
(* the condition variable.  A worker waiting on the condition is at pc     *)
(* "wait"; it may wake up for no reason, as pthread_cond_wait may.         *)
(*                                                                         *)
(* Main creates the pool, uses it and calls thrdpool_waitdone; Clients are *)
(* other threads that use it.  The functions that workers run use it too.  *)
(* thrdpool_waitdone frees the pool, so as in test/main.c nobody outside   *)
(* of the pool uses it from then on (Shared).                              *)
(***************************************************************************)
EXTENDS Naturals, Sequences

CONSTANTS Workers,   \* the threads the pool is to have
          Clients,   \* threads that post and terminate
          Main,      \* the thread that creates the pool and waits for it
          Tasks,     \* the tasks that may be posted, each once
          NoTask,    \* NULL
          Nothing,   \* what a thread has popped that has not popped
          Free       \* nobody, as the holder of the mutex

Threads == Workers \cup Clients \cup {Main}

ASSUME PoolAssumption ==
    /\ Workers \cap Clients = {} /\ Main \notin Workers \cup Clients
    /\ NoTask \notin Tasks /\ Nothing \notin Tasks /\ Free \notin Threads

VARIABLES pool,      \* the memory of the pool and its queue: none, live or freed
          created,   \* thrdpool_create has returned a pool
          quit,      \* pool->quit
          block,     \* queue->block
          mutex,     \* the thread that holds queue->mutex, or Free
          queue,     \* the tasks in the task queue
          popped,    \* what each thread's last __pop_task returned
          arg,       \* the task each thread is posting
          pc,        \* where each thread is
          status,    \* history: what became of each task
          late       \* history: how many tasks a worker took after quit was set

vars == <<pool, created, quit, block, mutex, queue, popped, arg, pc, status, late>>

Poppers == Workers \cup {Main}

Queue == INSTANCE Fifo WITH QueueThreads <- Poppers
Lock  == INSTANCE Mutex WITH holder <- mutex

WorkerPCs == {"unborn", "test", "pop", "lock", "check", "sleep", "wait", "relock",
              "unlock", "func", "exited"}
MainPCs   == {"create", "spawn", "app", "join", "destroy", "done"}
CallPCs   == {"post_add", "post_signal", "term_lock", "term_block", "term_bcast"}

Statuses == {"new", "posting", "queued", "running", "done", "refused", "dropped"}

TypeOK == /\ pool \in {"none", "live", "freed"}
          /\ created \in BOOLEAN
          /\ quit \in {0, 1} /\ block \in {0, 1}
          /\ Lock!MutexTypeOK
          /\ queue \in Seq(Tasks)
          /\ popped \in [Poppers -> Tasks \cup {NoTask, Nothing}]
          /\ arg \in [Threads -> Tasks \cup {NoTask}]
          /\ pc \in [Threads -> WorkerPCs \cup MainPCs \cup CallPCs]
          /\ \A w \in Workers : pc[w] \in WorkerPCs \cup CallPCs
          /\ \A c \in Clients : pc[c] \in {"app"} \cup CallPCs
          /\ pc[Main] \in MainPCs \cup CallPCs
          /\ status \in [Tasks -> Statuses]
          /\ late \in [Workers -> Nat]

Init == /\ pool = "none" /\ created = FALSE
        /\ quit = 0 /\ block = 1
        /\ Lock!MutexInit
        /\ Queue!FifoInit
        /\ arg = [t \in Threads |-> NoTask]
        /\ pc = [t \in Threads |-> IF t \in Workers THEN "unborn"
                                   ELSE IF t = Main THEN "create" ELSE "app"]
        /\ status = [k \in Tasks |-> "new"]
        /\ late = [w \in Workers |-> 0]

Goto(t, from, to) == pc[t] = from /\ pc' = [pc EXCEPT ![t] = to]

poolVars  == <<pool, created>>
flagVars  == <<quit, block>>
taskVars  == <<queue, popped, status, late>>
-----------------------------------------------------------------------------
(* thrdpool_create: the pool and its queue are allocated, quit is 0 and      *)
(* block is 1 (PoolCreate has the ways in which this fails) ...              *)
CreatePool == /\ Goto(Main, "create", "spawn")
              /\ pool' = "live"
              /\ UNCHANGED <<created, flagVars, mutex, taskVars, arg>>

(* ... then __threads_create starts the workers one by one ... *)
Spawn == /\ pc[Main] = "spawn"
         /\ \E w \in Workers :
              /\ pc[w] = "unborn"
              /\ pc' = [pc EXCEPT ![w] = "test"]
         /\ UNCHANGED <<poolVars, flagVars, mutex, taskVars, arg>>

CreateReturn == /\ \A w \in Workers : pc[w] # "unborn"
                /\ Goto(Main, "spawn", "app")
                /\ created' = TRUE
                /\ UNCHANGED <<pool, flagVars, mutex, taskVars, arg>>

\* Wrong variant: the workers that did start are joined but not woken.
SpawnFailJoins == /\ \E w \in Workers : pc[w] = "unborn"
                  /\ Goto(Main, "spawn", "join")
                  /\ quit' = 1
                  /\ UNCHANGED <<poolVars, block, mutex, taskVars, arg>>

(* ... and if one does not start, __threads_terminate stops those that did. *)
SpawnFail == /\ \E w \in Workers : pc[w] = "unborn"
             /\ Goto(Main, "spawn", "term_lock")
             /\ quit' = 1
             /\ UNCHANGED <<poolVars, block, mutex, taskVars, arg>>
-----------------------------------------------------------------------------
\* Wrong variant: while (1)
WorkerNoTest(w) == /\ Goto(w, "test", "pop")
                   /\ UNCHANGED <<poolVars, flagVars, mutex, taskVars, arg>>

(* while (atomic_load(&pool->quit) == 0) *)
WorkerTest(w) == /\ Goto(w, "test", IF quit = 0 THEN "pop" ELSE "exited")
                 /\ UNCHANGED <<poolVars, flagVars, mutex, taskVars, arg>>

\* Wrong variant: the task stays in the queue.
WorkerPeek(w) == /\ queue # <<>>
                 /\ Goto(w, "pop", "func")
                 /\ popped' = [popped EXCEPT ![w] = Head(queue)]
                 /\ status' = [status EXCEPT ![Head(queue)] = "running"]
                 /\ late' = [late EXCEPT ![w] = @ + quit]
                 /\ UNCHANGED <<poolVars, flagVars, mutex, queue, arg>>

(* __get_task returns what __pop_task found; the worker frees the task and  *)
(* calls its function.                                                      *)
WorkerTake(w) == /\ Goto(w, "pop", "func")
                 /\ Queue!Take(w)
                 /\ status' = [status EXCEPT ![Head(queue)] = "running"]
                 /\ late' = [late EXCEPT ![w] = @ + quit]
                 /\ UNCHANGED <<poolVars, flagVars, mutex, arg>>

WorkerFindNone(w) == /\ Goto(w, "pop", "lock")
                     /\ Queue!TakeNothing(w)
                     /\ UNCHANGED <<poolVars, flagVars, mutex, arg, status, late>>

WorkerLock(w) == /\ Goto(w, "lock", "check")
                 /\ Lock!Acquire(w)
                 /\ UNCHANGED <<poolVars, flagVars, taskVars, arg>>

(* if (queue->block == 0): __get_task returns NULL and the worker breaks. *)
WorkerBreak(w) == /\ block = 0
                  /\ Goto(w, "check", "exited")
                  /\ Lock!Release(w)
                  /\ UNCHANGED <<poolVars, flagVars, taskVars, arg>>

WorkerGoOn(w) == /\ block = 1
                 /\ Goto(w, "check", "sleep")
                 /\ UNCHANGED <<poolVars, flagVars, mutex, taskVars, arg>>

(* pthread_cond_wait gives the mutex back and waits, in one step. *)
WorkerSleep(w) == /\ Goto(w, "sleep", "wait")
                  /\ Lock!Release(w)
                  /\ UNCHANGED <<poolVars, flagVars, taskVars, arg>>

SpuriousWakeup(w) == /\ Goto(w, "wait", "relock")
                     /\ UNCHANGED <<poolVars, flagVars, mutex, taskVars, arg>>

WorkerRelock(w) == /\ Goto(w, "relock", "unlock")
                   /\ Lock!Acquire(w)
                   /\ UNCHANGED <<poolVars, flagVars, taskVars, arg>>

\* Wrong variant: a woken worker looks at block again, and not at the queue.
WorkerUnlockOnly(w) == /\ Goto(w, "unlock", "lock")
                       /\ Lock!Release(w)
                       /\ UNCHANGED <<poolVars, flagVars, taskVars, arg>>

WorkerUnlock(w) == /\ Goto(w, "unlock", "pop")
                   /\ Lock!Release(w)
                   /\ UNCHANGED <<poolVars, flagVars, taskVars, arg>>

(* The task's function returns. *)
FuncReturn(w) == /\ Goto(w, "func", "test")
                 /\ status' = [status EXCEPT ![popped[w]] = "done"]
                 /\ Queue!Forget(w)
                 /\ UNCHANGED <<poolVars, flagVars, mutex, arg, late>>
-----------------------------------------------------------------------------
(* Who may call thrdpool_post and thrdpool_terminate, from where, and where *)
(* the call returns to.  __threads_terminate in a failed thrdpool_create    *)
(* goes on to join.                                                         *)
Shared == created /\ pc[Main] \notin {"join", "destroy", "done"}

Caller(t) == \/ t \in Workers /\ pc[t] = "func"
             \/ t \notin Workers /\ pc[t] = "app" /\ Shared

ReturnTo(t) == CASE t \in Workers -> "func"
                 [] t = Main /\ ~created -> "join"
                 [] OTHER -> "app"

(* thrdpool_post returns -1: quit is set, or malloc fails. *)
PostRefused(t, k) == /\ Caller(t) /\ status[k] = "new"
                     /\ status' = [status EXCEPT ![k] = "refused"]
                     /\ UNCHANGED <<poolVars, flagVars, mutex, queue, popped, arg, pc, late>>

PostStart(t, k) == /\ Caller(t) /\ status[k] = "new"
                   /\ quit = 0
                   /\ pc' = [pc EXCEPT ![t] = "post_add"]
                   /\ arg' = [arg EXCEPT ![t] = k]
                   /\ status' = [status EXCEPT ![k] = "posting"]
                   /\ UNCHANGED <<poolVars, flagVars, mutex, queue, popped, late>>

(* __add_task: the task is queued under the spin lock ... *)
PostAdd(t) == /\ Goto(t, "post_add", "post_signal")
              /\ Queue!Push(arg[t])
              /\ status' = [status EXCEPT ![arg[t]] = "queued"]
              /\ arg' = [arg EXCEPT ![t] = NoTask]
              /\ UNCHANGED <<poolVars, flagVars, mutex, late>>

Waiting == {w \in Workers : pc[w] = "wait"}

(* ... and one waiting worker is woken, if there is one; no mutex is held. *)
PostSignal(t) ==
    /\ pc[t] = "post_signal"
    /\ \/ /\ Waiting = {}
          /\ pc' = [pc EXCEPT ![t] = ReturnTo(t)]
       \/ \E w \in Waiting :
            pc' = [pc EXCEPT ![t] = ReturnTo(t), ![w] = "relock"]
    /\ UNCHANGED <<poolVars, flagVars, mutex, taskVars, arg>>

(* thrdpool_terminate *)
Terminate(t) == /\ Caller(t)
                /\ quit' = 1
                /\ pc' = [pc EXCEPT ![t] = "term_lock"]
                /\ UNCHANGED <<poolVars, block, mutex, taskVars, arg>>

(* __nonblock: block is cleared under the mutex ... *)
TermLock(t) == /\ Goto(t, "term_lock", "term_block")
               /\ Lock!Acquire(t)
               /\ UNCHANGED <<poolVars, flagVars, taskVars, arg>>

TermBlock(t) == /\ Goto(t, "term_block", "term_bcast")
                /\ block' = 0
                /\ Lock!Release(t)
                /\ UNCHANGED <<poolVars, quit, taskVars, arg>>

\* Wrong variant: pthread_cond_signal in place of pthread_cond_broadcast.
TermSignal(t) ==
    /\ pc[t] = "term_bcast"
    /\ \/ /\ Waiting = {}
          /\ pc' = [pc EXCEPT ![t] = ReturnTo(t)]
       \/ \E w \in Waiting :
            pc' = [pc EXCEPT ![t] = ReturnTo(t), ![w] = "relock"]
    /\ UNCHANGED <<poolVars, flagVars, mutex, taskVars, arg>>

(* ... and then all that wait are woken. *)
TermBroadcast(t) ==
    /\ pc[t] = "term_bcast"
    /\ pc' = [u \in Threads |-> IF u = t THEN ReturnTo(t)
                                ELSE IF u \in Waiting THEN "relock" ELSE pc[u]]
    /\ UNCHANGED <<poolVars, flagVars, mutex, taskVars, arg>>
-----------------------------------------------------------------------------
(* thrdpool_waitdone, called while no client is in a call. *)
WaitDone == /\ created /\ \A c \in Clients : pc[c] = "app"
            /\ Goto(Main, "app", "join")
            /\ UNCHANGED <<poolVars, flagVars, mutex, taskVars, arg>>

\* Wrong variant: one of the workers is joined.
JoinOne == /\ \E w \in Workers : pc[w] = "exited"
           /\ Goto(Main, "join", "destroy")
           /\ UNCHANGED <<poolVars, flagVars, mutex, taskVars, arg>>

(* pthread_join, of every worker that was started *)
Join == /\ \A w \in Workers : pc[w] \in {"unborn", "exited"}
        /\ Goto(Main, "join", "destroy")
        /\ UNCHANGED <<poolVars, flagVars, mutex, taskVars, arg>>

(* __taskqueue_destroy drops the tasks that are left ... *)
DropTask == /\ pc[Main] = "destroy" /\ pool = "live"
            /\ Queue!Take(Main)
            /\ status' = [status EXCEPT ![Head(queue)] = "dropped"]
            /\ UNCHANGED <<poolVars, flagVars, mutex, arg, pc, late>>

(* ... and the queue and the pool are freed. *)
FreePool == /\ Goto(Main, "destroy", "done")
            /\ Queue!TakeNothing(Main)
            /\ pool' = "freed"
            /\ UNCHANGED <<created, flagVars, mutex, arg, status, late>>
-----------------------------------------------------------------------------
Create == CreatePool \/ Spawn \/ CreateReturn \/ SpawnFail

(* A worker's steps other than to return from a task and to get the mutex. *)
WorkerStep(w) == \/ WorkerTest(w) \/ WorkerTake(w) \/ WorkerFindNone(w)
                 \/ WorkerBreak(w) \/ WorkerGoOn(w) \/ WorkerSleep(w) \/ WorkerUnlock(w)

WorkerAcquire(w) == WorkerLock(w) \/ WorkerRelock(w)

Call(t) == Terminate(t) \/ \E k \in Tasks : PostRefused(t, k) \/ PostStart(t, k)

CallStep(t) == PostAdd(t) \/ PostSignal(t) \/ TermBlock(t) \/ TermBroadcast(t)

Shutdown == Join \/ DropTask \/ FreePool

Next == \/ Create \/ WaitDone \/ Shutdown
        \/ \E w \in Workers :
             WorkerStep(w) \/ WorkerAcquire(w) \/ FuncReturn(w) \/ SpuriousWakeup(w)
        \/ \E t \in Threads : Call(t) \/ CallStep(t) \/ TermLock(t)

Spec == Init /\ [][Next]_vars

(* Threads that can run do run (WF); a mutex that is free again and again   *)
(* is got in the end, and a task's function returns however often it calls  *)
(* the pool (SF).  Nobody is obliged to create, post, terminate or wait for *)
(* a pool, and no wakeup is spurious for sure.                              *)
Fairness ==
    /\ WF_vars(Create) /\ WF_vars(Shutdown)
    /\ \A w \in Workers : /\ WF_vars(WorkerStep(w))
                          /\ SF_vars(WorkerAcquire(w))
                          /\ SF_vars(FuncReturn(w))
    /\ \A t \in Threads : WF_vars(CallStep(t)) /\ SF_vars(TermLock(t))

FairSpec == Spec /\ Fairness
-----------------------------------------------------------------------------
InQueue(k) == \E i \in 1..Len(queue) : queue[i] = k

(* Where a worker is running the task it popped. *)
Running(w) == pc[w] \in {"func"} \cup CallPCs

(* Every task is in one place: with the thread that posts it, once in the   *)
(* queue, or with the one worker that runs it.  None is posted or run twice *)
(* and none gets lost on its way, whatever the threads interleave.          *)
Custody ==
    /\ \A i, j \in 1..Len(queue) : queue[i] = queue[j] => i = j
    /\ \A k \in Tasks : status[k] = "queued" <=> InQueue(k)
    /\ \A k \in Tasks : status[k] = "posting" <=>
                          \E t \in Threads : pc[t] = "post_add" /\ arg[t] = k
    /\ \A k \in Tasks : status[k] = "running" <=>
                          \E w \in Workers : Running(w) /\ popped[w] = k
    /\ \A t, u \in Threads : t # u /\ pc[t] = "post_add" /\ pc[u] = "post_add"
                              => arg[t] # arg[u]
    /\ \A v, w \in Workers : v # w /\ Running(v) /\ Running(w)
                              => popped[v] # popped[w]

(* Between the mutex's Acquire and Release a thread holds it, elsewhere not. *)
MutexHeld ==
    \A t \in Threads : mutex = t <=> pc[t] \in {"check", "sleep", "unlock", "term_block"}

(* No worker sleeps through the shutdown: once block is cleared, either     *)
(* nobody waits or a broadcast is still to come.  This is why __nonblock    *)
(* clears block under the mutex that a worker holds from its test of block  *)
(* until it waits.                                                          *)
ShutdownWakesAll ==
    block = 0 => \/ Waiting = {}
                 \/ \E t \in Threads : pc[t] = "term_bcast"

(* A worker about to wait has seen block = 1, and that is still so. *)
SleepsWhileBlocking == \A w \in Workers : pc[w] = "sleep" => block = 1

(* __get_task returns NULL, and a worker breaks, only in a pool that quits. *)
BreakMeansQuit == block = 0 => quit = 1

(* From the first moment at which thrdpool_waitdone, or a failed            *)
(* thrdpool_create, tears the queue down, nobody else is in the pool's      *)
(* code, waits on its condition or holds its mutex - not even a task that   *)
(* posted or terminated while main was joining.                             *)
NoUseAfterFree ==
    pc[Main] \in {"destroy", "done"} =>
      /\ \A w \in Workers : pc[w] \in {"unborn", "exited"}
      /\ \A c \in Clients : pc[c] = "app"
      /\ mutex = Free

(* When the pool is freed every task that thrdpool_post took has run to its *)
(* end or was dropped: none leaks.                                          *)
NoTaskLeaks ==
    pool = "freed" => \A k \in Tasks : status[k] \in {"new", "refused", "done", "dropped"}

(* After thrdpool_terminate (or a failed create) has set quit, each worker  *)
(* starts at most one more task, however many are queued.                   *)
AtMostOneMoreTask == \A w \in Workers : late[w] <= 1
-----------------------------------------------------------------------------
(* thrdpool_waitdone returns once the pool has been terminated, and so does *)
(* a thrdpool_create that could not start its workers.                      *)
ShutdownCompletes == pc[Main] = "join" /\ quit = 1 ~> pool = "freed"

(* A worker that is awake, and not past the point where it found the queue  *)
(* empty, keeps every queued task from staying behind: it, or another, will *)
(* take the task, or the pool is told to quit.  So a signal that meets a    *)
(* waiting worker is never in vain.                                         *)
Awake(w) == pc[w] \in {"test", "pop", "relock", "unlock", "func"} \cup CallPCs

AwakeWorkerDrains ==
    \A k \in Tasks : status[k] = "queued" /\ (\E w \in Workers : Awake(w))
                        ~> status[k] # "queued" \/ quit = 1

(* README.md:42 of the thread pool: when there is a task to execute, a task *)
(* is taken from the queue and given to an idle thread.  The code does not  *)
(* keep this: __add_task signals without the mutex, and a worker that has   *)
(* found the queue empty but does not wait yet misses the signal.           *)
QueuedTaskGetsWorker ==
    \A k \in Tasks : status[k] = "queued" ~> status[k] # "queued" \/ quit = 1
=============================================================================
