----------------------------- MODULE SleepTimer ------------------------------
(***************************************************************************)
(* nty_schedule.c: time.  The tree of the sleeping coroutines, keyed by    *)
(* the microsecond their sleep ends in, the ready queue, and the timeout   *)
(* with which nty_schedule_epoll waits; both down to their links.          *)
(*                                                                         *)
(* nty_coroutine_sleep(msecs) returns at once and the caller yields, as    *)
(* lthread's does in the function itself; Scheduler has the callers that   *)
(* do not.  Nobody waits for a descriptor here.                            *)
(***************************************************************************)
EXTENDS RBTree, Sequences

CONSTANTS Coroutines,      \* the nodes of RBTree that are coroutines here
          ReadyHead,
          Milli, Sec,      \* microseconds in one millisecond, and in one second
          Msecs,           \* what coroutines sleep
          DefaultTimeout,  \* sched->default_timeout
          Nice,            \* how often nty_coroutine_renice returns
          MaxNow           \* bound: time stands still then

ASSUME TimerAssumption ==
    /\ Coroutines \subseteq Nodes /\ ReadyHead \notin Nodes \cup {Nil}
    /\ Milli \in Nat \ {0} /\ Sec \in Nat \ {0} /\ Sec % Milli = 0
    /\ Msecs \subseteq Nat /\ {DefaultTimeout, Nice, MaxNow} \subseteq Nat

VARIABLES now,       \* nty_coroutine_usec_now() - sched->birth
          sleeping,  \* sched->sleeping
          sleep_usecs,
          queue,     \* sched->ready
          curr,      \* sched->curr_thread
          ops,       \* its co->ops
          live,
          phase,     \* where nty_schedule_run is
          last,      \* last_co_ready
          timeout    \* what epoll_wait is given, while the phase is "wait"

vars == <<now, sleeping, sleep_usecs, queue, curr, ops, live, phase, last, timeout>>

Ready == INSTANCE TailQueue WITH Heads <- {ReadyHead}, Elems <- Coroutines

Asleep == Under(sleeping, sleeping.root)
Queued == Ready!Contents(queue, ReadyHead)

(* nty_schedule_create, and main creates a coroutine *)
Init == /\ now = 0 /\ curr = Nil /\ ops = 0 /\ last = Nil /\ timeout = 0
        /\ phase = "expired"
        /\ sleeping = EmptyTree
        /\ sleep_usecs = [co \in Nodes |-> 0]
        /\ \E co \in Coroutines : /\ live = {co}
                                  /\ queue = Ready!InsertTail(Ready!NoQueues, ReadyHead, co)
-----------------------------------------------------------------------------
(* What the coroutine that runs does until it yields *)

Create(new) == /\ curr # Nil /\ new \notin live
               /\ live' = live \cup {new}
               /\ queue' = Ready!InsertTail(queue, ReadyHead, new)
               /\ UNCHANGED <<now, sleeping, sleep_usecs, curr, ops, phase, last, timeout>>

(* The loop of the ready queue ends after the coroutine that was its last. *)
Yield == /\ curr' = Nil /\ ops' = 0
         /\ phase' = IF phase = "ready" /\ curr = last THEN "epoll" ELSE phase
         /\ UNCHANGED <<now, last, timeout>>

Taken(tree, keys, k) == Find(tree, keys, k) # Nil

(* The first key that is free from wish on *)
FreeFrom(tree, keys, wish) ==
    CHOOSE k \in wish..(wish + Cardinality(Coroutines)) :
        ~Taken(tree, keys, k) /\ \A n \in wish..(k - 1) : Taken(tree, keys, n)

(* Whoever is found under the key of the coroutine that runs is taken out. *)
Cleared == LET old == Find(sleeping, sleep_usecs, sleep_usecs[curr])
           IN  IF old = Nil THEN sleeping ELSE Remove(sleeping, old)

SleepUntil(k) == /\ sleep_usecs' = [sleep_usecs EXCEPT ![curr] = k]
                 /\ sleeping' = Insert(Cleared, sleep_usecs', curr)
                 /\ UNCHANGED <<now, queue, curr, ops, live, phase, last, timeout>>

\* Wrong variant: an equal key is not counted on.
SleepDownTies(msecs) == SleepUntil(now + msecs * Milli)

(* nty_schedule_sched_sleepdown *)
SleepDown(msecs) == SleepUntil(FreeFrom(Cleared, sleep_usecs, now + msecs * Milli))

(* nty_coroutine_sleep *)
Sleep(msecs) == /\ curr # Nil /\ msecs # 0
                /\ SleepDown(msecs)

YieldAsleep == /\ curr # Nil /\ curr \in Asleep
               /\ Yield
               /\ UNCHANGED <<sleeping, sleep_usecs, queue, live>>

SleepZero == /\ curr # Nil /\ curr \notin Asleep
             /\ queue' = Ready!InsertTail(queue, ReadyHead, curr)
             /\ Yield
             /\ UNCHANGED <<sleeping, sleep_usecs, live>>

Renice == /\ curr # Nil /\ curr \notin Asleep
          /\ IF ops + 1 < Nice
             THEN /\ ops' = ops + 1
                  /\ UNCHANGED <<now, queue, curr, phase, last, timeout>>
             ELSE Yield /\ queue' = Ready!InsertTail(queue, ReadyHead, curr)
          /\ UNCHANGED <<sleeping, sleep_usecs, live>>

(* Its function returns, and it is freed. *)
Return == /\ curr # Nil /\ curr \notin Asleep
          /\ live' = live \ {curr}
          /\ sleep_usecs' = [sleep_usecs EXCEPT ![curr] = 0]
          /\ Yield
          /\ UNCHANGED <<sleeping, queue>>
-----------------------------------------------------------------------------
Loop(p) == phase = p /\ curr = Nil

First == MinMax(sleeping, "left")

Due == IF First = Nil THEN FALSE ELSE sleep_usecs[First] <= now

(* nty_schedule_expired, until it returns NULL *)
Expire == /\ Loop("expired") /\ Due
          /\ sleeping' = Remove(sleeping, First)
          /\ curr' = First
          /\ UNCHANGED <<now, sleep_usecs, queue, ops, live, phase, last, timeout>>

NoneExpired == /\ Loop("expired") /\ ~Due
               /\ phase' = IF Ready!Empty(queue, ReadyHead) THEN "epoll" ELSE "ready"
               /\ last' = Ready!Last(queue, ReadyHead)
               /\ UNCHANGED <<now, sleeping, sleep_usecs, queue, curr, ops, live, timeout>>

RunReady == /\ Loop("ready") /\ ~Ready!Empty(queue, ReadyHead)
            /\ curr' = Ready!First(queue, ReadyHead)
            /\ queue' = Ready!Remove(queue, ReadyHead, Ready!First(queue, ReadyHead))
            /\ UNCHANGED <<now, sleeping, sleep_usecs, ops, live, phase, last, timeout>>

MinTimeout == IF First = Nil THEN DefaultTimeout
              ELSE IF sleep_usecs[First] > now THEN sleep_usecs[First] - now ELSE 0

\* Wrong variant: the microseconds of the whole are added to the seconds.
TimespecWhole(usecs) == (usecs \div Sec) * Sec + usecs

(* tv_sec and tv_nsec together, in microseconds: from one second on, the *)
(* milliseconds between are dropped.                                     *)
Timespec(usecs) == IF usecs \div Sec # 0 THEN (usecs \div Sec) * Sec + (usecs % Milli)
                   ELSE usecs

(* nty_epoller_wait: epoll_wait is given whole milliseconds. *)
WholeMillis(usecs) == (usecs \div Milli) * Milli

(* nty_schedule_epoll and the next round's nty_schedule_isdone *)
NextRound == phase' = IF Asleep = {} /\ Ready!Empty(queue, ReadyHead) THEN "done" ELSE "expired"

SkipEpoll == /\ Loop("epoll") /\ (MinTimeout = 0 \/ ~Ready!Empty(queue, ReadyHead))
             /\ NextRound
             /\ UNCHANGED <<now, sleeping, sleep_usecs, queue, curr, ops, live, last, timeout>>

WaitEpoll == /\ Loop("epoll") /\ MinTimeout # 0 /\ Ready!Empty(queue, ReadyHead)
             /\ phase' = "wait" /\ timeout' = WholeMillis(Timespec(MinTimeout))
             /\ UNCHANGED <<now, sleeping, sleep_usecs, queue, curr, ops, live, last>>

(* With less than a millisecond to go the loop goes round and round.     *)
TimedOut == /\ Loop("wait")
            /\ now' \in (IF timeout = 0 THEN {now, now + 1} ELSE {now + timeout})
            /\ now' <= MaxNow
            /\ timeout' = 0
            /\ NextRound
            /\ UNCHANGED <<sleeping, sleep_usecs, queue, curr, ops, live, last>>

(* EINTR: the wait begins anew, with the same timeout. *)
Interrupted == /\ Loop("wait")
               /\ now' \in (now + 1)..MaxNow /\ now' < now + timeout
               /\ UNCHANGED <<sleeping, sleep_usecs, queue, curr, ops, live, phase, last, timeout>>

(* Time passes while a coroutine runs. *)
Tick == /\ curr # Nil /\ now < MaxNow
        /\ now' = now + 1
        /\ UNCHANGED <<sleeping, sleep_usecs, queue, curr, ops, live, phase, last, timeout>>

Call == \/ \E new \in Coroutines : Create(new)
        \/ \E msecs \in Msecs : Sleep(msecs)
        \/ YieldAsleep \/ SleepZero \/ Renice \/ Return \/ Tick

RunLoop == \/ Expire \/ NoneExpired \/ RunReady
           \/ SkipEpoll \/ WaitEpoll \/ TimedOut \/ Interrupted

Next == Call \/ RunLoop

Spec == Init /\ [][Next]_vars
-----------------------------------------------------------------------------
Deadline == [co \in Coroutines |-> IF co \in Asleep THEN sleep_usecs[co] ELSE 0]

Promise == INSTANCE Timers WITH clock <- now, deadline <- Deadline, line <- Queued

(* Trees, keys and links implement Timers: the removal before an insertion *)
(* never ends another coroutine's sleep, equal ends are told apart, the    *)
(* earliest sleeper is the one found, and the queue loses nobody.          *)
ImplementsTimers == Promise!TimersSpec

(* However the timeout is cut into seconds, nanoseconds and milliseconds,  *)
(* epoll_wait is given none that outlasts the first sleep.                 *)
WaitsNoLongerThanSleep == [][WaitEpoll => \A co \in Asleep : now + timeout' <= sleep_usecs[co]]_vars
=============================================================================
