----------------------------- MODULE MCPoolParts -----------------------------
(***************************************************************************)
(* Parts of the pools on small instances, one of them in each behaviour:   *)
(* the spin lock with four threads that lock, try to lock and unlock       *)
(* without bound; the creation of a pool of five workers; the C++ pool     *)
(* with two callers that initialize and submit, two tasks, two threads     *)
(* wanted and as many again that a second batch would start; and the work  *)
(* queue of wlnet's server with two workers, three jobs at once and no end *)
(* of events.                                                              *)
(***************************************************************************)
EXTENDS SpinLock, Sequences, FiniteSets

CONSTANTS Callers, Tasks, ThreadIds, Null,   \* of CThreadPool
          Workers, Main, Jobs, NoJob,        \* of WorkQueue
          PoolSize,                          \* what thrdpool_create ...
          BatchSize                          \* ... and initialize are to start

ASSUME CallersAssumption == Free \notin Callers /\ Null \notin Tasks
ASSUME SizesAssumption == PoolSize \in Nat /\ BatchSize \in Nat
ASSUME WorkAssumption == /\ Workers # {} /\ Main \notin Workers /\ NoJob \notin Jobs
                         /\ Free \notin Workers \cup {Main}

VARIABLES part,
          createPc, have, spawned, running, joined, failed, misuse,
          m_initialized, m_mutex, m_threads, m_tasks, poolPc, left, thread, task, status,
          jobs_mutex, waiting_jobs, terminate, workPc, job, flagged, jobStatus

createVars == <<createPc, have, spawned, running, joined, failed, misuse>>
poolVars   == <<m_initialized, m_mutex, m_threads, m_tasks, poolPc, left, thread, task, status>>
workVars   == <<jobs_mutex, waiting_jobs, terminate, workPc, job, flagged, jobStatus>>
allVars    == <<part, vars, createVars, poolVars, workVars>>

Create == INSTANCE PoolCreate WITH ThreadCount <- PoolSize, pc <- createPc
CxxPool == INSTANCE CThreadPool WITH numThreads <- BatchSize, pc <- poolPc
Work == INSTANCE WorkQueue WITH pc <- workPc, status <- jobStatus

MCInit == /\ part \in {"lock", "create", "cxx", "work"}
          /\ Init /\ Create!Init /\ CxxPool!Init /\ Work!Init

(* A create that failed, or a pool whose end was waited for, is the end. *)
CreateEnds == createPc \in {"null", "done"} /\ UNCHANGED createVars

(* No event comes any more, or a worker left with the mutex. *)
WorkEnds == ~ENABLED Work!Next /\ UNCHANGED workVars

MCNext == /\ UNCHANGED part
          /\ \/ part = "lock"   /\ Next /\ UNCHANGED <<createVars, poolVars, workVars>>
             \/ part = "create" /\ (Create!Next \/ CreateEnds) /\ UNCHANGED <<vars, poolVars, workVars>>
             \/ part = "cxx"    /\ CxxPool!Next /\ UNCHANGED <<vars, createVars, workVars>>
             \/ part = "work"   /\ (Work!Next \/ WorkEnds) /\ UNCHANGED <<vars, createVars, poolVars>>

(* What the lock, the creation and the C++ pool ask for is never enabled   *)
(* while they stay as they are; the work queue's workers would start.      *)
MCSpec == /\ MCInit /\ [][MCNext]_allVars
          /\ Fairness /\ CxxPool!Fairness /\ (part = "work" => Work!Fairness)
-----------------------------------------------------------------------------
(* However a create fails, all but what LeftBehind names is given back,     *)
(* after the workers that it started have ended: see PoolCreate.           *)
CreateFailureIsUndone == Create!CreateFailureIsUndone

(* One batch of threads, however many callers initialize: see CThreadPool. *)
OneBatch == CxxPool!OneBatch

(* A thread that has not ended leaves no task behind in the deque. *)
LiveThreadDrains == CxxPool!LiveThreadDrains

(* Every job is in one place: see WorkQueue. *)
JobCustody == Work!JobCustody

(* Jobs that wait have a worker that does not: see WorkQueue. *)
JobsHaveAWorker == Work!JobsHaveAWorker

(* A worker that is free takes a job if there are any: see WorkQueue. *)
JobsAreTaken == Work!JobsAreTaken
=============================================================================
