------------------------------ MODULE WorkQueue ------------------------------
(***************************************************************************)
(* cppNetwork/wlnet/test/server_TCP_threadpool.cc: the thread that asks    *)
(* epoll makes a job of every event, and workers run the jobs, the newest  *)
(* first.                                                                  *)
(*                                                                         *)
(* waiting_jobs is touched only under jobs_mutex, so what a thread does    *)
(* between lock and unlock, or wait, is one action; worker->terminate is   *)
(* written without it.  Nobody calls workqueue_shutdown in the repository; *)
(* here the main thread may.                                               *)
(***************************************************************************)
EXTENDS Naturals, Sequences

CONSTANTS Workers,
          Main,      \* the thread that runs wl_run_reactor
          Jobs,      \* the jobs there may be at once; one that was freed is made again
          NoJob,     \* NULL
          Free       \* nobody, as the holder of jobs_mutex

Everybody == Workers \cup {Main}

VARIABLES jobs_mutex,
          waiting_jobs,   \* the list, from its head
          terminate,      \* worker->terminate
          pc, job,        \* where each thread is, and its variable job
          flagged,        \* the workers that workqueue_shutdown has told, in this order
          status          \* history: what became of each job

vars == <<jobs_mutex, waiting_jobs, terminate, pc, job, flagged, status>>

Lock == INSTANCE Mutex WITH Threads <- Everybody, holder <- jobs_mutex

(* A worker at "left" has left its loop, with the mutex locked; at "gone"   *)
(* its worker_t is freed.  Main at "wild" reads the link of one that is.    *)
WorkerPCs == {"lock", "locked", "wait", "relock", "run", "left", "gone"}
MainPCs   == {"events", "add_lock", "add", "flags", "down_lock", "down", "over", "wild"}

TypeOK == /\ Lock!MutexTypeOK
          /\ waiting_jobs \in Seq(Jobs)
          /\ terminate \in [Workers -> BOOLEAN]
          /\ pc \in [Everybody -> WorkerPCs \cup MainPCs]
          /\ \A w \in Workers : pc[w] \in WorkerPCs
          /\ pc[Main] \in MainPCs
          /\ job \in [Everybody -> Jobs \cup {NoJob}]
          /\ flagged \in Seq(Workers)
          /\ status \in [Jobs -> {"new", "made", "waiting", "running", "done", "dropped"}]

(* workqueue_init, in which all workers are started *)
Init == /\ Lock!MutexInit
        /\ waiting_jobs = <<>>
        /\ terminate = [w \in Workers |-> FALSE]
        /\ pc = [t \in Everybody |-> IF t = Main THEN "events" ELSE "lock"]
        /\ job = [t \in Everybody |-> NoJob]
        /\ flagged = <<>>
        /\ status = [j \in Jobs |-> "new"]

Goto(t, from, to) == pc[t] = from /\ pc' = [pc EXCEPT ![t] = to]
-----------------------------------------------------------------------------
(* worker_function: lock, also on the way back from pthread_cond_wait *)
WorkerLock(w) == /\ \/ Goto(w, "lock", "locked")
                    \/ Goto(w, "relock", "locked")
                 /\ Lock!Acquire(w)
                 /\ UNCHANGED <<waiting_jobs, terminate, job, flagged, status>>

(* ... the list is empty: wait *)
WorkerWait(w) == /\ waiting_jobs = <<>> /\ ~terminate[w]
                 /\ Goto(w, "locked", "wait")
                 /\ Lock!Release(w)
                 /\ UNCHANGED <<waiting_jobs, terminate, job, flagged, status>>

SpuriousWakeup(w) == /\ Goto(w, "wait", "relock")
                     /\ UNCHANGED <<jobs_mutex, waiting_jobs, terminate, job, flagged, status>>

(* ... terminate is set: leave the loop, without an unlock; free(worker) *)
WorkerBreak(w) == /\ terminate[w]
                  /\ Goto(w, "locked", "left")
                  /\ UNCHANGED <<jobs_mutex, waiting_jobs, terminate, job, flagged, status>>

WorkerExit(w) == /\ Goto(w, "left", "gone")
                 /\ UNCHANGED <<jobs_mutex, waiting_jobs, terminate, job, flagged, status>>

\* Wrong variant: without LL_REMOVE.
WorkerPeek(w) == /\ waiting_jobs # <<>> /\ ~terminate[w]
                 /\ Goto(w, "locked", "run")
                 /\ job' = [job EXCEPT ![w] = Head(waiting_jobs)]
                 /\ status' = [status EXCEPT ![Head(waiting_jobs)] = "running"]
                 /\ Lock!Release(w)
                 /\ UNCHANGED <<waiting_jobs, terminate, flagged>>

(* ... take the first job, LL_REMOVE, and unlock *)
WorkerTake(w) == /\ waiting_jobs # <<>> /\ ~terminate[w]
                 /\ Goto(w, "locked", "run")
                 /\ waiting_jobs' = Tail(waiting_jobs)
                 /\ job' = [job EXCEPT ![w] = Head(waiting_jobs)]
                 /\ status' = [status EXCEPT ![Head(waiting_jobs)] = "running"]
                 /\ Lock!Release(w)
                 /\ UNCHANGED <<terminate, flagged>>

(* client_job calls the connection's callback, which may wait in recv or    *)
(* send for ever (wlnet.cpp:235, 283), and frees the job.                   *)
JobReturns(w) == /\ Goto(w, "run", "lock")
                 /\ status' = [status EXCEPT ![job[w]] = "done"]
                 /\ job' = [job EXCEPT ![w] = NoJob]
                 /\ UNCHANGED <<jobs_mutex, waiting_jobs, terminate, flagged>>
-----------------------------------------------------------------------------
Waiting == {w \in Workers : pc[w] = "wait"}

(* wl_run_reactor: an event, of which a job is made; there is no last event *)
MakeJob(j) == /\ status[j] \in {"new", "done"}
              /\ Goto(Main, "events", "add_lock")
              /\ job' = [job EXCEPT ![Main] = j]
              /\ status' = [status EXCEPT ![j] = "made"]
              /\ UNCHANGED <<jobs_mutex, waiting_jobs, terminate, flagged>>

(* workqueue_add_job: lock ... *)
AddLock == /\ Goto(Main, "add_lock", "add")
           /\ Lock!Acquire(Main)
           /\ UNCHANGED <<waiting_jobs, terminate, job, flagged, status>>

(* ... LL_ADD, a signal that wakes one of sleepers if there are any, unlock *)
AddWaking(sleepers) ==
    /\ pc[Main] = "add"
    /\ waiting_jobs' = <<job[Main]>> \o waiting_jobs
    /\ status' = [status EXCEPT ![job[Main]] = "waiting"]
    /\ job' = [job EXCEPT ![Main] = NoJob]
    /\ \/ /\ sleepers = {}
          /\ pc' = [pc EXCEPT ![Main] = "events"]
       \/ \E w \in sleepers : pc' = [pc EXCEPT ![Main] = "events", ![w] = "relock"]
    /\ Lock!Release(Main)
    /\ UNCHANGED <<terminate, flagged>>

\* Wrong variants: no signal, and one only for the first job of an empty list
AddQuietly      == AddWaking({})
AddSignalsFirst == AddWaking(IF waiting_jobs = <<>> THEN Waiting ELSE {})

AddJob == AddWaking(Waiting)

(* workqueue_shutdown: the list of workers is walked without the mutex.    *)
Shutdown == /\ Goto(Main, "events", "flags")
            /\ UNCHANGED <<jobs_mutex, waiting_jobs, terminate, job, flagged, status>>

(* ... worker->terminate = 1, for the next worker in the list *)
SetFlag(w) == /\ pc[Main] = "flags" /\ ~terminate[w]
              /\ terminate' = [terminate EXCEPT ![w] = TRUE]
              /\ flagged' = Append(flagged, w)
              /\ UNCHANGED <<jobs_mutex, waiting_jobs, pc, job, status>>

(* ... worker = worker->next, which may read a worker_t that was freed since *)
(* its flag was set: the old link, as if nothing had happened, or anything.  *)
FlagsWild == /\ flagged # <<>> /\ pc[flagged[Len(flagged)]] = "gone"
             /\ Goto(Main, "flags", "wild")
             /\ UNCHANGED <<jobs_mutex, waiting_jobs, terminate, job, flagged, status>>

FlagsSet == /\ \A w \in Workers : terminate[w]
            /\ Goto(Main, "flags", "down_lock")
            /\ UNCHANGED <<jobs_mutex, waiting_jobs, terminate, job, flagged, status>>

DownLock == /\ Goto(Main, "down_lock", "down")
            /\ Lock!Acquire(Main)
            /\ UNCHANGED <<waiting_jobs, terminate, job, flagged, status>>

(* ... both lists are dropped and all workers woken *)
Down == /\ pc[Main] = "down"
        /\ waiting_jobs' = <<>>
        /\ status' = [j \in Jobs |-> IF status[j] = "waiting" THEN "dropped" ELSE status[j]]
        /\ pc' = [t \in Everybody |-> IF t = Main THEN "over"
                                    ELSE IF t \in Waiting THEN "relock" ELSE pc[t]]
        /\ Lock!Release(Main)
        /\ UNCHANGED <<terminate, job, flagged>>
-----------------------------------------------------------------------------
WorkerStep(w) == WorkerWait(w) \/ WorkerBreak(w) \/ WorkerExit(w) \/ WorkerTake(w)

MainStep == \/ AddJob \/ FlagsWild \/ FlagsSet \/ Down
            \/ \E w \in Workers : SetFlag(w)

Next == \/ \E w \in Workers : WorkerLock(w) \/ WorkerStep(w) \/ JobReturns(w) \/ SpuriousWakeup(w)
        \/ MainStep \/ AddLock \/ DownLock \/ Shutdown
        \/ \E j \in Jobs : MakeJob(j)

Spec == Init /\ [][Next]_vars

(* Threads run, and a mutex that is free again and again is got in the end. *)
(* No callback has to return, no event has to come or to stop coming, and   *)
(* nobody has to shut down.                                                 *)
Fairness == /\ \A w \in Workers : WF_vars(WorkerStep(w)) /\ SF_vars(WorkerLock(w))
            /\ WF_vars(MainStep) /\ SF_vars(AddLock)

FairSpec == Spec /\ Fairness
-----------------------------------------------------------------------------
InList(j) == \E i \in 1..Len(waiting_jobs) : waiting_jobs[i] = j

(* Every job is in one place: with the main thread that made it, once in   *)
(* the list, or with the one worker that runs and frees it.                 *)
JobCustody ==
    /\ TypeOK
    /\ \A i, k \in 1..Len(waiting_jobs) : waiting_jobs[i] = waiting_jobs[k] => i = k
    /\ \A j \in Jobs :
         /\ status[j] = "waiting" <=> InList(j)
         /\ status[j] = "made" <=> job[Main] = j
         /\ status[j] = "running" <=> \E w \in Workers : job[w] = j
    /\ \A v, w \in Workers : v # w /\ job[v] # NoJob => job[v] # job[w]

(* Down to the last job there is a worker for it that does not wait, or is  *)
(* woken already: the signal is sent under the mutex, and a worker that was *)
(* woken, or has run its job, looks at the list before it waits again.      *)
Awake(w) == pc[w] \in {"lock", "locked", "relock", "run"}

JobsHaveAWorker == waiting_jobs # <<>> /\ flagged = <<>> => \E w \in Workers : Awake(w)

(* A worker that is not in a callback takes a job as long as there are any, *)
(* whatever became of the jobs that the others took: every job that is      *)
(* added while somebody waits wakes somebody of its own.  Which job is      *)
(* taken is not said: the newest is, and an old one may never be.           *)
JobsAreTaken == \A w \in Workers :
    pc[w] # "run" /\ waiting_jobs # <<>> /\ flagged = <<>>
        ~> pc[w] = "run" \/ waiting_jobs = <<>> \/ flagged # <<>>
=============================================================================
