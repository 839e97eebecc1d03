----------------------------- MODULE PoolCreate ------------------------------
(***************************************************************************)
(* What thrdpool_create acquires, step by step, what it gives back when a  *)
(* step fails, and what thrdpool_waitdone gives back in the end            *)
(* (tools/thread_pool/src/thrd_pool.c).  Workers are no more here than     *)
(* threads that run until the pool is terminated: ThreadPool has the rest. *)
(***************************************************************************)
EXTENDS Integers

CONSTANT ThreadCount   \* the argument of thrdpool_create

VARIABLES pc,          \* where the creating thread is
          have,        \* what is allocated or initialised
          spawned,     \* how many workers were started
          running,     \* the workers that run
          joined,      \* how many workers were joined
          failed,      \* history: what could not be had
          misuse       \* history: what was destroyed without having been initialised

vars == <<pc, have, spawned, running, joined, failed, misuse>>

Resources == {"pool", "queue", "mutex", "cond", "attr", "threads"}

PCs == {"pool", "queue", "mutex", "cond", "attr", "threads", "spawn", "undo_cond",
        "undo_mutex", "fail_join", "fail_threads", "fail_queue", "fail_pool", "null",
        "returned", "join", "free", "done"}

TypeOK == /\ pc \in PCs
          /\ have \subseteq Resources /\ misuse \subseteq Resources
          /\ failed \in Resources \cup {"spawn", "none"}
          /\ spawned \in 0..ThreadCount /\ joined \in 0..spawned
          /\ running \subseteq 1..spawned

Init == /\ pc = "pool" /\ have = {} /\ misuse = {} /\ failed = "none"
        /\ spawned = 0 /\ running = {} /\ joined = 0

Goto(from, to) == pc = from /\ pc' = to

(* A step that acquires r and goes on at ok, or fails and goes on at undo. *)
Try(r, from, ok, undo) ==
    /\ pc = from
    /\ \/ pc' = ok /\ have' = have \cup {r} /\ UNCHANGED failed
       \/ pc' = undo /\ failed' = r /\ UNCHANGED have
    /\ UNCHANGED <<spawned, running, joined, misuse>>

(* A step that destroys or frees everything in rs. *)
Destroy(rs, from, to) ==
    /\ Goto(from, to)
    /\ have' = have \ rs
    /\ misuse' = misuse \cup (rs \ have)
    /\ UNCHANGED <<spawned, running, joined>>

Undo(rs, from, to) == Destroy(rs, from, to) /\ UNCHANGED failed
-----------------------------------------------------------------------------
MallocPool == Try("pool", "pool", "queue", "null")

(* __taskqueue_create: when an init fails, the destroys that follow begin   *)
(* with the object that failed, and the queue itself is not freed.          *)
MallocQueue == Try("queue", "queue", "mutex", "fail_pool")
MutexInit   == Try("mutex", "mutex", "cond", "undo_mutex")
CondInit    == Try("cond", "cond", "attr", "undo_cond")
UndoCond    == Undo({"cond"}, "undo_cond", "undo_mutex")
UndoMutex   == Undo({"mutex"}, "undo_mutex", "fail_pool")

(* __threads_create: attr is destroyed only if threads could be allocated.  *)
AttrInit      == Try("attr", "attr", "threads", "fail_queue")
MallocThreads == Try("threads", "threads", "spawn", "fail_queue")

SpawnOne == /\ pc = "spawn" /\ spawned < ThreadCount
            /\ spawned' = spawned + 1
            /\ running' = running \cup {spawned + 1}
            /\ UNCHANGED <<pc, have, joined, failed, misuse>>

SpawnDone == /\ spawned = ThreadCount
             /\ Undo({"attr"}, "spawn", "returned")

(* pthread_create fails, the first or a later one. *)
SpawnFail == /\ spawned < ThreadCount
             /\ failed' = "spawn"
             /\ Destroy({"attr"}, "spawn", "fail_join")

(* __threads_terminate makes the workers exit and joins those that started; *)
(* once the pool was returned, somebody's thrdpool_terminate does.          *)
WorkerExit == /\ pc \in {"fail_join", "returned", "join"}
              /\ \E w \in running : running' = running \ {w}
              /\ UNCHANGED <<pc, have, spawned, joined, failed, misuse>>

(* pthread_join, in the order of the threads array *)
JoinOne == /\ pc \in {"fail_join", "join"} /\ joined < spawned
           /\ joined + 1 \notin running
           /\ joined' = joined + 1
           /\ UNCHANGED <<pc, have, spawned, running, failed, misuse>>

\* Wrong variant: nobody is joined.
FailUnjoined == Undo({}, "fail_join", "fail_threads")

FailJoined  == joined = spawned /\ Undo({}, "fail_join", "fail_threads")
FailThreads == Undo({"threads"}, "fail_threads", "fail_queue")

(* __taskqueue_destroy *)
FailQueue == Undo({"queue", "cond", "mutex"}, "fail_queue", "fail_pool")
FailPool  == Undo({"pool"}, "fail_pool", "null")
-----------------------------------------------------------------------------
(* thrdpool_waitdone *)
WaitDone == Undo({}, "returned", "join")
Joined   == joined = spawned /\ Undo({}, "join", "free")

FreeAll  == Undo({"queue", "cond", "mutex", "threads", "pool"}, "free", "done")

Creating == \/ MallocPool \/ MallocQueue \/ MutexInit \/ CondInit \/ UndoCond \/ UndoMutex
            \/ AttrInit \/ MallocThreads \/ SpawnOne \/ SpawnDone \/ SpawnFail
            \/ FailJoined \/ FailThreads \/ FailQueue \/ FailPool

Next == Creating \/ WorkerExit \/ JoinOne \/ WaitDone \/ Joined \/ FreeAll

Spec == Init /\ [][Next]_vars
-----------------------------------------------------------------------------
(* What the workers use is there while one of them runs.                   *)
WorkersHaveAPool == running # {} => {"pool", "queue", "mutex", "cond"} \subseteq have

(* What a create that failed leaves behind: the attributes, if no memory   *)
(* was had for threads (thrd_pool.c:169-184 destroys them only inside the  *)
(* if), and the queue, if its mutex or condition was not initialised.      *)
LeftBehind == IF failed = "threads" THEN {"attr"}
              ELSE IF failed \in {"mutex", "cond"} THEN {"queue"} ELSE {}

(* ... and what it destroyed although its initialisation had failed        *)
Misused == {failed} \cap {"mutex", "cond"}

(* However a create fails, at its first malloc, at an init, or at the      *)
(* first or a later pthread_create, it gives back everything else, once,   *)
(* and does so after the workers that it did start have ended: no worker   *)
(* runs without the pool, the queue, its mutex and condition.  And a pool  *)
(* whose end was waited for gives back everything.                         *)
CreateFailureIsUndone ==
    /\ TypeOK
    /\ WorkersHaveAPool
    /\ pc = "null" => have = LeftBehind /\ misuse = Misused
    /\ pc = "done" => have = {} /\ misuse = {}
=============================================================================
