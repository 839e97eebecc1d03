--------------------------------- MODULE Fifo --------------------------------
(***************************************************************************)
(* What the pool's task queue promises: tasks leave it in the order in     *)
(* which they came, each to one thread, and a thread is told that there is *)
(* no task only when there is none.  Every operation is one indivisible    *)
(* step.  TaskQueue, the linked list of thrd_pool.c, is shown to implement *)
(* this module; ThreadPool is built on top of it.                          *)
(***************************************************************************)
EXTENDS Sequences

CONSTANTS QueueThreads,   \* the threads that push and pop
          Tasks,          \* the tasks
          NoTask,         \* the NULL that __pop_task returns for an empty queue
          Nothing         \* popped[t] of a thread that has not popped anything

VARIABLES queue,          \* the tasks in the queue, the oldest first
          popped          \* popped[t]: what thread t's last __pop_task returned

fifoVars == <<queue, popped>>

FifoInit == /\ queue = <<>>
            /\ popped = [t \in QueueThreads |-> Nothing]

(* __add_task *)
Push(k) == /\ queue' = Append(queue, k)
           /\ UNCHANGED popped

(* __pop_task, when there is a task *)
Take(t) == /\ queue # <<>>
           /\ queue' = Tail(queue)
           /\ popped' = [popped EXCEPT ![t] = Head(queue)]

(* __pop_task, when there is none *)
TakeNothing(t) == /\ queue = <<>>
                  /\ popped' = [popped EXCEPT ![t] = NoTask]
                  /\ UNCHANGED queue

(* The thread is done with what it popped. *)
Forget(t) == /\ popped' = [popped EXCEPT ![t] = Nothing]
             /\ UNCHANGED queue

FifoNext == \/ \E k \in Tasks : Push(k)
            \/ \E t \in QueueThreads : Take(t) \/ TakeNothing(t) \/ Forget(t)

FifoSpec == FifoInit /\ [][FifoNext]_fifoVars
=============================================================================
