----------------------------- MODULE CThreadPool -----------------------------
(***************************************************************************)
(* tools/thread_pool/src/CThreadPool.cc: a singleton pool of std::threads  *)
(* that take tasks from a deque and end when they find it empty.           *)
(*                                                                         *)
(* m_taskMutex is held for one block that does nothing else, so a block is *)
(* one action; m_mutex is held while initialize starts the threads, which  *)
(* run, and take tasks, in the meantime.                                   *)
(***************************************************************************)
EXTENDS Naturals, Sequences, FiniteSets

CONSTANTS Callers,      \* the threads that call initialize and submitTask
          Tasks,        \* the tasks, each submitted once
          ThreadIds,    \* the threads the operating system may start
          numThreads,   \* the argument of initialize
          Free,         \* nobody, as the holder of m_mutex
          Null          \* no task

VARIABLES m_initialized, m_mutex,
          m_threads,    \* the threads in the vector
          m_tasks,      \* the deque
          pc,           \* where each caller is
          left,         \* how many threads the running initialize has still to start
          thread,       \* what each thread does
          task,         \* the task each thread has taken
          status        \* history: what became of each task

vars == <<m_initialized, m_mutex, m_threads, m_tasks, pc, left, thread, task, status>>

Lock == INSTANCE Mutex WITH Threads <- Callers, holder <- m_mutex

TypeOK == /\ m_initialized \in BOOLEAN /\ Lock!MutexTypeOK
          /\ m_threads \subseteq ThreadIds /\ m_tasks \in Seq(Tasks)
          /\ pc \in [Callers -> {"idle", "lock", "check", "start"}]
          /\ left \in 0..numThreads
          /\ thread \in [ThreadIds -> {"unborn", "loop", "running", "ended"}]
          /\ task \in [ThreadIds -> Tasks \cup {Null}]
          /\ status \in [Tasks -> {"new", "queued", "running", "done"}]

(* getInstance *)
Init == /\ m_initialized = FALSE /\ Lock!MutexInit
        /\ m_threads = {} /\ m_tasks = <<>>
        /\ pc = [c \in Callers |-> "idle"] /\ left = 0
        /\ thread = [t \in ThreadIds |-> "unborn"]
        /\ task = [t \in ThreadIds |-> Null]
        /\ status = [k \in Tasks |-> "new"]

Goto(c, from, to) == pc[c] = from /\ pc' = [pc EXCEPT ![c] = to]
-----------------------------------------------------------------------------
InitializeCall(c) ==
    /\ Goto(c, "idle", "lock")
    /\ UNCHANGED <<m_initialized, m_mutex, m_threads, m_tasks, left, thread, task, status>>

InitializeLock(c) ==
    /\ Goto(c, "lock", "check")
    /\ Lock!Acquire(c)
    /\ UNCHANGED <<m_initialized, m_threads, m_tasks, left, thread, task, status>>

InitializeAgain(c) ==
    /\ m_initialized
    /\ Goto(c, "check", "idle")
    /\ Lock!Release(c)
    /\ UNCHANGED <<m_initialized, m_threads, m_tasks, left, thread, task, status>>

InitializeFirst(c) ==
    /\ ~m_initialized
    /\ Goto(c, "check", "start")
    /\ left' = numThreads
    /\ UNCHANGED <<m_initialized, m_mutex, m_threads, m_tasks, thread, task, status>>

(* m_threads.emplace_back *)
StartThread(c) ==
    /\ pc[c] = "start" /\ left > 0
    /\ \E t \in ThreadIds :
         /\ thread[t] = "unborn"
         /\ thread' = [thread EXCEPT ![t] = "loop"]
         /\ m_threads' = m_threads \cup {t}
    /\ left' = left - 1
    /\ UNCHANGED <<m_initialized, m_mutex, m_tasks, pc, task, status>>

\* Wrong variant: m_initialized stays false.
ReturnUninitialized(c) ==
    /\ left = 0
    /\ Goto(c, "start", "idle")
    /\ Lock!Release(c)
    /\ UNCHANGED <<m_initialized, m_threads, m_tasks, left, thread, task, status>>

InitializeReturn(c) ==
    /\ left = 0
    /\ Goto(c, "start", "idle")
    /\ m_initialized' = TRUE
    /\ Lock!Release(c)
    /\ UNCHANGED <<m_threads, m_tasks, left, thread, task, status>>

SubmitTask(c, k) ==
    /\ pc[c] = "idle" /\ status[k] = "new"
    /\ m_tasks' = Append(m_tasks, k)
    /\ status' = [status EXCEPT ![k] = "queued"]
    /\ UNCHANGED <<m_initialized, m_mutex, m_threads, pc, left, thread, task>>
-----------------------------------------------------------------------------
(* workerThread, the block under m_taskMutex *)
TakeTask(t) ==
    /\ thread[t] = "loop" /\ m_tasks # <<>>
    /\ thread' = [thread EXCEPT ![t] = "running"]
    /\ task' = [task EXCEPT ![t] = Head(m_tasks)]
    /\ m_tasks' = Tail(m_tasks)
    /\ status' = [status EXCEPT ![Head(m_tasks)] = "running"]
    /\ UNCHANGED <<m_initialized, m_mutex, m_threads, pc, left>>

Break(t) ==
    /\ thread[t] = "loop" /\ m_tasks = <<>>
    /\ thread' = [thread EXCEPT ![t] = "ended"]
    /\ UNCHANGED <<m_initialized, m_mutex, m_threads, m_tasks, pc, left, task, status>>

\* Wrong variant: a thread runs one task.
TaskReturnsOnce(t) ==
    /\ thread[t] = "running"
    /\ thread' = [thread EXCEPT ![t] = "ended"]
    /\ status' = [status EXCEPT ![task[t]] = "done"]
    /\ task' = [task EXCEPT ![t] = Null]
    /\ UNCHANGED <<m_initialized, m_mutex, m_threads, m_tasks, pc, left>>

(* task() returns. *)
TaskReturns(t) ==
    /\ thread[t] = "running"
    /\ thread' = [thread EXCEPT ![t] = "loop"]
    /\ status' = [status EXCEPT ![task[t]] = "done"]
    /\ task' = [task EXCEPT ![t] = Null]
    /\ UNCHANGED <<m_initialized, m_mutex, m_threads, m_tasks, pc, left>>

Initialize(c) == \/ InitializeAgain(c) \/ InitializeFirst(c)
                 \/ StartThread(c) \/ InitializeReturn(c)

Next == \/ \E c \in Callers : \/ InitializeCall(c) \/ InitializeLock(c) \/ Initialize(c)
                              \/ \E k \in Tasks : SubmitTask(c, k)
        \/ \E t \in ThreadIds : TakeTask(t) \/ Break(t) \/ TaskReturns(t)

Spec == Init /\ [][Next]_vars

(* Threads that run go on, tasks return, and initialize gets its mutex. *)
Fairness == /\ \A c \in Callers : WF_vars(Initialize(c)) /\ SF_vars(InitializeLock(c))
            /\ \A t \in ThreadIds : WF_vars(TakeTask(t) \/ Break(t)) /\ WF_vars(TaskReturns(t))
-----------------------------------------------------------------------------
(* However many callers initialize the pool at once, one batch of threads   *)
(* is started, and when any initialize has returned it is complete.         *)
OneBatch == /\ TypeOK
            /\ Cardinality(m_threads) <= numThreads
            /\ m_initialized => Cardinality(m_threads) = numThreads

(* A thread that has not ended yet leaves no queued task behind: while the  *)
(* deque is not empty it goes on, and every task that is queued is run.     *)
LiveThreadDrains ==
    \A k \in Tasks :
       status[k] = "queued" /\ (\E t \in m_threads : thread[t] # "ended")
          ~> status[k] = "done"

=============================================================================
