------------------------------ MODULE TaskQueue ------------------------------
(***************************************************************************)
(* The intrusive linked list of tools/thread_pool/src/thrd_pool.c, pointer *)
(* by pointer.  task_s.next is the first field of a task, so a task's      *)
(* address is also the address of its link; tail holds the address of the  *)
(* link to be written next: &queue->head, or the last task's.              *)
(*                                                                         *)
(* Every action is one access to what the threads share: the lock (Mutex,  *)
(* implemented by SpinLock), head, tail, a task's link, or the allocator.  *)
(* An address that was freed may be allocated again.                       *)
(***************************************************************************)
EXTENDS Mutex, Sequences, Integers

CONSTANTS Addr,      \* the addresses malloc may return for a task
          Null,      \* NULL
          HeadLink   \* &queue->head, as a value of queue->tail

ASSUME AddrAssumption == Null \notin Addr /\ HeadLink \notin Addr

VARIABLES head,      \* queue->head
          tail,      \* queue->tail
          next,      \* next[a]: the first word of the memory at address a
          live,      \* the addresses that are allocated
          pc,        \* where each thread is
          task,      \* the task each thread's current operation is about
          fifo       \* history: the tasks in the queue, in the order of the adds

queueVars == <<head, tail, next, fifo>>
vars == <<holder, head, tail, next, live, pc, task, fifo>>

PCs == {"idle", "link", "add_lock", "add_link", "add_tail", "add_unlock",
        "pop_test", "pop_head", "pop_tail", "pop_unlock", "pop_free",
        "pop_none", "none"}

TypeOK == /\ MutexTypeOK
          /\ head \in Addr \cup {Null}
          /\ tail \in Addr \cup {HeadLink}
          /\ next \in [Addr -> Addr \cup {Null}]
          /\ live \subseteq Addr
          /\ pc \in [Threads -> PCs]
          /\ task \in [Threads -> Addr \cup {Null}]
          /\ fifo \in Seq(Addr)

Goto(t, from, to) == pc[t] = from /\ pc' = [pc EXCEPT ![t] = to]

(* __taskqueue_create, on success.  The memory malloc will return holds anything. *)
Init == /\ MutexInit
        /\ head = Null
        /\ tail = HeadLink
        /\ next \in [Addr -> Addr \cup {Null}]
        /\ live = {}
        /\ pc = [t \in Threads |-> "idle"]
        /\ task = [t \in Threads |-> Null]
        /\ fifo = <<>>
-----------------------------------------------------------------------------
(* thrdpool_post: the task is allocated ... *)
Malloc(t) == /\ Goto(t, "idle", "link")
             /\ \E a \in Addr \ live :
                  /\ live' = live \cup {a}
                  /\ task' = [task EXCEPT ![t] = a]
             /\ UNCHANGED <<holder, queueVars>>

(* ... and becomes the end of a list, before the lock is taken. *)
ClearLink(t) == /\ Goto(t, "link", "add_lock")
                /\ next' = [next EXCEPT ![task[t]] = Null]
                /\ UNCHANGED <<holder, head, tail, live, task, fifo>>

AddLock(t) == /\ Goto(t, "add_lock", "add_link")
              /\ Acquire(t)
              /\ UNCHANGED <<queueVars, live, task>>

(* *queue->tail = link *)
AddLink(t) ==
    /\ Goto(t, "add_link", "add_tail")
    /\ \/ /\ tail = HeadLink
          /\ head' = task[t]
          /\ UNCHANGED next
       \/ /\ tail # HeadLink
          /\ next' = [next EXCEPT ![tail] = task[t]]
          /\ UNCHANGED head
    /\ fifo' = Append(fifo, task[t])
    /\ UNCHANGED <<holder, tail, live, task>>

AddTail(t) == /\ Goto(t, "add_tail", "add_unlock")
              /\ tail' = task[t]
              /\ UNCHANGED <<holder, head, next, live, task, fifo>>

AddUnlock(t) == /\ Goto(t, "add_unlock", "idle")
                /\ Release(t)
                /\ task' = [task EXCEPT ![t] = Null]
                /\ UNCHANGED <<queueVars, live>>
-----------------------------------------------------------------------------
PopLock(t) == /\ Goto(t, "idle", "pop_test")
              /\ Acquire(t)
              /\ UNCHANGED <<queueVars, live, task>>

\* Wrong variant: NULL is returned without a look at head.
GiveUp(t) == /\ Goto(t, "pop_test", "pop_none")
             /\ UNCHANGED <<holder, queueVars, live, task>>

PopEmpty(t) == /\ head = Null
               /\ Goto(t, "pop_test", "pop_none")
               /\ UNCHANGED <<holder, queueVars, live, task>>

PopEmptyUnlock(t) == /\ Goto(t, "pop_none", "none")
                     /\ Release(t)
                     /\ UNCHANGED <<queueVars, live, task>>

(* __get_task and the destroying loop look at the NULL and go on. *)
SeeNone(t) == /\ Goto(t, "none", "idle")
              /\ UNCHANGED <<holder, queueVars, live, task>>

PopTest(t) == /\ head # Null
              /\ Goto(t, "pop_test", "pop_head")
              /\ task' = [task EXCEPT ![t] = head]
              /\ UNCHANGED <<holder, queueVars, live>>

(* queue->head = task->next *)
PopHead(t) == /\ Goto(t, "pop_head", "pop_tail")
              /\ head' = next[task[t]]
              /\ fifo' = Tail(fifo)
              /\ UNCHANGED <<holder, tail, next, live, task>>

\* Wrong variant: tail is not moved back.
KeepTail(t) == /\ Goto(t, "pop_tail", "pop_unlock")
               /\ UNCHANGED <<holder, queueVars, live, task>>

PopTail(t) == /\ Goto(t, "pop_tail", "pop_unlock")
              /\ tail' = IF head = Null THEN HeadLink ELSE tail
              /\ UNCHANGED <<holder, head, next, live, task, fifo>>

PopUnlock(t) == /\ Goto(t, "pop_unlock", "pop_free")
                /\ Release(t)
                /\ UNCHANGED <<queueVars, live, task>>

(* free(task), by the worker or by __taskqueue_destroy.  The allocator may *)
(* write to the memory it gets back.                                       *)
FreeTask(t) ==
    /\ Goto(t, "pop_free", "idle")
    /\ live' = live \ {task[t]}
    /\ \E junk \in Addr \cup {Null} : next' = [next EXCEPT ![task[t]] = junk]
    /\ task' = [task EXCEPT ![t] = Null]
    /\ UNCHANGED <<holder, head, tail, fifo>>

Post(t) == \/ Malloc(t) \/ ClearLink(t) \/ AddLock(t)
           \/ AddLink(t) \/ AddTail(t) \/ AddUnlock(t)

Pop(t) == \/ PopLock(t) \/ PopEmpty(t) \/ PopEmptyUnlock(t) \/ SeeNone(t)
          \/ PopTest(t) \/ PopHead(t) \/ PopTail(t) \/ PopUnlock(t) \/ FreeTask(t)

Next == \E t \in Threads : Post(t) \/ Pop(t)

Spec == Init /\ [][Next]_vars
-----------------------------------------------------------------------------
Locked == {"add_link", "add_tail", "add_unlock",
           "pop_test", "pop_head", "pop_tail", "pop_unlock", "pop_none"}

(* Where a thread is between lock and unlock, it holds the lock. *)
LockHeld == \A t \in Threads : holder = t <=> pc[t] \in Locked

(* Where task[t] is a task that no other thread and no link can reach. *)
Private(t) == pc[t] \in {"link", "add_lock", "add_link",
                        "pop_tail", "pop_unlock", "pop_free"}

InFifo(a) == \E i \in 1..Len(fifo) : fifo[i] = a

(* A task is in the queue, or in the hands of the one thread that posts it, *)
(* or of the one thread that popped it: never two threads with the same     *)
(* task (it would run twice and be freed twice), never a task both in the   *)
(* list and in somebody's hands.                                            *)
Ownership ==
    /\ \A t \in Threads : Private(t) => task[t] \in live /\ ~InFifo(task[t])
    /\ \A t, u \in Threads :
         Private(t) /\ Private(u) /\ t # u => task[t] # task[u]
    /\ \A i \in 1..Len(fifo) : fifo[i] \in live
    /\ \A i, j \in 1..Len(fifo) : fifo[i] = fifo[j] => i = j

(* head and the links lead through exactly the tasks of the queue, in the   *)
(* order in which they were added, and end with NULL.                       *)
ListIsFifo ==
    /\ fifo = <<>> <=> head = Null
    /\ fifo # <<>> => head = fifo[1] /\ next[fifo[Len(fifo)]] = Null
    /\ \A i \in 1..Len(fifo) - 1 : next[fifo[i]] = fifo[i + 1]

(* The link that an add has to write, and that tail is about to be, or is. *)
LastLink == IF fifo = <<>> THEN HeadLink ELSE fifo[Len(fifo)]

(* tail is the last link of the list whenever the lock is free.  Under the  *)
(* lock it lags behind: by one task after the link of an add, and by the    *)
(* popped task when a pop took the last one.                                *)
TailIsLast ==
    /\ (\A t \in Threads : pc[t] \notin {"add_tail", "pop_tail"}) => tail = LastLink
    /\ \A t \in Threads :
         /\ pc[t] = "add_tail" =>
              /\ fifo # <<>> /\ task[t] = fifo[Len(fifo)]
              /\ tail = IF Len(fifo) = 1 THEN HeadLink ELSE fifo[Len(fifo) - 1]
         /\ pc[t] = "pop_tail" =>
              tail = IF fifo = <<>> THEN task[t] ELSE fifo[Len(fifo)]

(* What a thread relies on between two of its accesses: the link of a task  *)
(* about to be added is still NULL, the task about to be unlinked is still  *)
(* the first.                                                               *)
LocalFacts ==
    \A t \in Threads :
      /\ pc[t] \in {"add_lock", "add_link"} => next[task[t]] = Null
      /\ pc[t] = "pop_head" => head = task[t] /\ fifo # <<>>

(* No operation reads or writes the link of a task that was freed: neither  *)
(* the add through tail, nor the pop through the task it read from head.    *)
NoUseAfterFree ==
    \A t \in Threads :
      /\ pc[t] = "add_link" => tail \in live \cup {HeadLink}
      /\ pc[t] \in {"link", "pop_head", "pop_free"} => task[t] \in live

QueueInv == /\ TypeOK /\ LockHeld /\ Ownership
            /\ ListIsFifo /\ TailIsLast /\ LocalFacts
-----------------------------------------------------------------------------
(* What a thread has popped, seen from outside.  A pop takes effect when it *)
(* writes head, or when it reads NULL there; an add when it writes *tail.   *)
Nothing == "nothing"
Popped ==
    [t \in Threads |->
        CASE pc[t] \in {"pop_tail", "pop_unlock", "pop_free"} -> task[t]
          [] pc[t] \in {"pop_none", "none"} -> Null
          [] OTHER -> Nothing]

Abstract == INSTANCE Fifo WITH QueueThreads <- Threads, Tasks <- Addr, NoTask <- Null,
                               queue <- fifo, popped <- Popped

(* The linked list under the spin lock is a first-in first-out queue: each  *)
(* add and pop takes effect at one instant, a pop returns the oldest task,  *)
(* and NULL only if at that instant there is none.                          *)
ImplementsFifo == Abstract!FifoSpec
=============================================================================
