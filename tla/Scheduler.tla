------------------------------ MODULE Scheduler ------------------------------
(***************************************************************************)
(* cppNetwork/wlyCo/src: the coroutine scheduler.  nty_schedule_run drives *)
(* coroutines that run one at a time until they yield: in the ready queue, *)
(* or in the tree of those that wait for a file descriptor, where epoll    *)
(* reports which of them may go on.                                        *)
(*                                                                         *)
(* All of it is one thread; only the kernel acts at the same time.  An     *)
(* action is a step of the run loop, or what a coroutine does until it     *)
(* yields or its call of the library returns.                              *)
(***************************************************************************)
EXTENDS Naturals, Sequences, FiniteSets

CONSTANTS Coroutines,  \* the addresses calloc may return for a coroutine
          First,       \* the coroutine that main creates
          Fds,         \* file descriptors
          Null         \* NULL, and the owner of a descriptor that is closed

ASSUME SchedulerAssumption ==
    /\ First \in Coroutines /\ Null \notin Coroutines /\ Null \notin Fds

VARIABLES phase,     \* where nty_schedule_run is
          curr,      \* sched->curr_thread
          last,      \* last_co_ready
          events,    \* the descriptors of the events not handled yet
          ready, sleeping, waiting,
          live,      \* the coroutines that are allocated
          status,    \* the bits of co->status that are set
          fd,        \* co->fd
          at,        \* where a coroutine goes on: in nty_poll_inner, or in its own code
          epoll,     \* the descriptors registered with the poller
          owner,     \* the coroutine that opened a descriptor, or was given it
          fired,     \* the open descriptors with an event, as epoll would report them
          owed       \* history: those this round found ready and has not resumed yet

loopVars == <<phase, last, events, owed>>
coVars   == <<status, fd, at>>
fdVars   == <<epoll, owner, fired>>
vars     == <<loopVars, curr, ready, sleeping, waiting, live, coVars, fdVars>>

Bits == {"WAIT_READ", "NEW", "READY", "EXITED", "SLEEPING", "FDEOF", "DETACH"}

Crashes == {"assert", "null_pointer", "dangling", "queued_twice"}
Phases  == {"round", "expired", "ready", "epoll", "events", "done"} \cup Crashes

InReady(co) == \E i \in 1..Len(ready) : ready[i] = co

TypeOK == /\ phase \in Phases
          /\ {curr, last} \subseteq Coroutines \cup {Null}
          /\ ready \in Seq(Coroutines)
          /\ sleeping \subseteq Coroutines /\ waiting \subseteq Coroutines
          /\ live \subseteq Coroutines /\ owed \subseteq Coroutines
          /\ status \in [Coroutines -> SUBSET Bits]
          /\ fd \in [Coroutines -> Fds \cup {Null}]
          /\ at \in [Coroutines -> {"own", "poll"}]
          /\ events \subseteq Fds /\ epoll \subseteq Fds /\ fired \subseteq Fds
          /\ owner \in [Fds -> Coroutines \cup {Null}]

(* main has created the first coroutine and calls nty_schedule_run. *)
Init == /\ phase = "round" /\ curr = Null /\ last = Null
        /\ events = {} /\ owed = {}
        /\ ready = <<First>> /\ sleeping = {} /\ waiting = {} /\ live = {First}
        /\ status = [co \in Coroutines |-> IF co = First THEN {"NEW"} ELSE {}]
        /\ fd = [co \in Coroutines |-> Null]
        /\ at = [co \in Coroutines |-> "own"]
        /\ epoll = {} /\ fired = {}
        /\ owner = [f \in Fds |-> Null]
-----------------------------------------------------------------------------
(* nty_coroutine_resume, to the switch *)
Resume(co, bits) ==
    /\ curr' = co
    /\ status' = [status EXCEPT ![co] = IF "NEW" \in bits THEN {"READY"} ELSE bits]

EndReady == phase' = "epoll" /\ last' = Null

(* A coroutine yields to the loop that resumed it, and the loop goes on: *)
(* that of the ready queue ends after the coroutine that was last.       *)
Yield == /\ curr' = Null
         /\ IF phase = "ready" /\ curr = last THEN EndReady ELSE UNCHANGED <<phase, last>>
         /\ UNCHANGED <<events, owed>>

Crash(how) == /\ phase' = how
              /\ UNCHANGED <<last, events, owed, curr, ready, sleeping, waiting, live, coVars, fdVars>>

Loop(p) == phase = p /\ curr = Null

(* while (!nty_schedule_isdone(sched)) *)
Round == /\ Loop("round")
         /\ phase' = IF waiting = {} /\ sleeping = {} /\ ready = <<>> THEN "done" ELSE "expired"
         /\ UNCHANGED <<last, events, owed, curr, ready, sleeping, waiting, live, coVars, fdVars>>

(* nty_schedule_expired, and the coroutine is resumed wherever it is. *)
Expire == /\ Loop("expired")
          /\ \E co \in sleeping :
               /\ sleeping' = sleeping \ {co}
               /\ Resume(co, status[co])
          /\ UNCHANGED <<loopVars, ready, waiting, live, fd, at, fdVars>>

(* No sleeper is due; the ready queue is run up to what is its last now. *)
NoneExpired == /\ Loop("expired")
               /\ phase' = "ready"
               /\ last' = IF ready = <<>> THEN Null ELSE ready[Len(ready)]
               /\ owed' = {co \in Coroutines : InReady(co)}
               /\ UNCHANGED <<events, curr, ready, sleeping, waiting, live, coVars, fdVars>>

\* Wrong variants: the coroutine stays in the queue, or the last one is run.
RunNotRemoved ==
    /\ Loop("ready") /\ ready # <<>>
    /\ owed' = owed \ {Head(ready)}
    /\ Resume(Head(ready), status[Head(ready)])
    /\ UNCHANGED <<phase, last, events, ready, sleeping, waiting, live, fd, at, fdVars>>

RunLast ==
    /\ Loop("ready") /\ ready # <<>>
    /\ LET co == ready[Len(ready)] IN
       /\ ready' = SubSeq(ready, 1, Len(ready) - 1)
       /\ owed' = owed \ {co}
       /\ Resume(co, status[co])
    /\ UNCHANGED <<phase, last, events, sleeping, waiting, live, fd, at, fdVars>>

(* The first coroutine of the ready queue is resumed, or, with FDEOF, freed *)
(* wherever it is, which also ends the loop.                                *)
RunReady ==
    /\ Loop("ready") /\ ready # <<>>
    /\ LET co == Head(ready) IN
       /\ ready' = Tail(ready)
       /\ IF "FDEOF" \in status[co]
          THEN /\ live' = live \ {co}
               /\ EndReady
               /\ UNCHANGED <<owed, curr, status>>
          ELSE /\ owed' = owed \ {co}
               /\ Resume(co, status[co])
               /\ UNCHANGED <<phase, last, live>>
    /\ UNCHANGED <<events, sleeping, waiting, fd, at, fdVars>>

ReadyEmpty == /\ Loop("ready") /\ ready = <<>>
              /\ EndReady
              /\ UNCHANGED <<events, owed, curr, ready, sleeping, waiting, live, coVars, fdVars>>

(* nty_schedule_epoll does not ask epoll while a coroutine is ready, or a *)
(* sleeper due ...                                                        *)
SkipEpoll == /\ Loop("epoll") /\ (ready # <<>> \/ sleeping # {})
             /\ phase' = "round"
             /\ UNCHANGED <<last, events, owed, curr, ready, sleeping, waiting, live, coVars, fdVars>>

\* Wrong variant: every registered descriptor is taken to have an event.
AllFired == /\ Loop("epoll") /\ ready = <<>>
            /\ phase' = "events"
            /\ events' = epoll
            /\ UNCHANGED <<last, owed, curr, ready, sleeping, waiting, live, coVars, fdVars>>

(* ... otherwise it waits for events, three seconds at most. *)
WaitEpoll == /\ Loop("epoll") /\ ready = <<>>
             /\ phase' = "events"
             /\ events' = epoll \cap fired
             /\ UNCHANGED <<last, owed, curr, ready, sleeping, waiting, live, coVars, fdVars>>

WaitsFor(f) == {co \in waiting : fd[co] = f}

\* Wrong variants: num_new_events is not decremented, or is reset to 0.
HandleAgain ==
    /\ Loop("events")
    /\ \E f \in events :
         IF WaitsFor(f) = {} THEN Crash("null_pointer")
         ELSE /\ \E co \in WaitsFor(f), bits \in {{}, {"FDEOF"}} : Resume(co, bits)
              /\ UNCHANGED <<loopVars, ready, sleeping, waiting, live, fd, at, fdVars>>

HandleOne ==
    /\ Loop("events")
    /\ \E f \in events :
         IF WaitsFor(f) = {} THEN Crash("null_pointer")
         ELSE /\ events' = {}
              /\ \E co \in WaitsFor(f), bits \in {{}, {"FDEOF"}} : Resume(co, bits)
              /\ UNCHANGED <<phase, last, owed, ready, sleeping, waiting, live, fd, at, fdVars>>

(* One event, the last in the array: nty_schedule_search_wait, FDEOF if *)
(* the event has EPOLLHUP, and the coroutine is resumed.                *)
HandleEvent ==
    /\ Loop("events")
    /\ \E f \in events :
         IF WaitsFor(f) = {} THEN Crash("null_pointer")
         ELSE /\ events' = events \ {f}
              /\ \E co \in WaitsFor(f), bits \in {{}, {"FDEOF"}} : Resume(co, bits)
              /\ UNCHANGED <<phase, last, owed, ready, sleeping, waiting, live, fd, at, fdVars>>

EventsDone == /\ Loop("events") /\ events = {}
              /\ phase' = "round"
              /\ UNCHANGED <<last, events, owed, curr, ready, sleeping, waiting, live, coVars, fdVars>>
-----------------------------------------------------------------------------
Running(co) == curr = co /\ phase \notin Crashes

InOwnCode(co) == Running(co) /\ at[co] = "own"

(* A coroutine passes the descriptors to the library that are its own.       *)
MayUse(co, f) == owner[f] = co

(* nty_coroutine_create.  The new coroutine may be given a descriptor: a *)
(* server creates a coroutine for the connection it accepted.            *)
Create(co) ==
    /\ InOwnCode(co)
    /\ \E new \in Coroutines \ live :
         /\ live' = live \cup {new}
         /\ status' = [status EXCEPT ![new] = {"NEW"}]
         /\ fd' = [fd EXCEPT ![new] = Null]
         /\ at' = [at EXCEPT ![new] = "own"]
         /\ ready' = Append(ready, new)
         /\ \/ UNCHANGED owner
            \/ \E f \in Fds : MayUse(co, f) /\ owner' = [owner EXCEPT ![f] = new]
    /\ UNCHANGED <<loopVars, curr, sleeping, waiting, epoll, fired>>

(* socket, or the new descriptor of an accept *)
Open(co) == /\ InOwnCode(co)
            /\ \E f \in Fds : owner[f] = Null /\ owner' = [owner EXCEPT ![f] = co]
            /\ UNCHANGED <<loopVars, curr, ready, sleeping, waiting, live, coVars, epoll, fired>>

(* close, which also takes the descriptor off the poller *)
Close(co, f) == /\ InOwnCode(co) /\ MayUse(co, f)
                /\ owner' = [owner EXCEPT ![f] = Null]
                /\ epoll' = epoll \ {f}
                /\ fired' = fired \ {f}
                /\ UNCHANGED <<loopVars, curr, ready, sleeping, waiting, live, coVars>>

(* nty_coroutine_sleep(0) *)
SleepZero(co) ==
    /\ InOwnCode(co)
    /\ IF InReady(co) THEN Crash("queued_twice")
       ELSE /\ ready' = Append(ready, co)
            /\ Yield
            /\ UNCHANGED <<sleeping, waiting, live, coVars, fdVars>>

(* nty_coroutine_sleep(msecs): nty_schedule_sched_sleepdown, which returns. *)
Sleep(co) == /\ InOwnCode(co)
             /\ sleeping' = sleeping \cup {co}
             /\ status' = [status EXCEPT ![co] = @ \cup {"SLEEPING"}]
             /\ UNCHANGED <<loopVars, curr, ready, waiting, live, fd, at, fdVars>>

(* nty_poll_inner, to its yield: the descriptor is registered and           *)
(* nty_schedule_sched_wait puts the coroutine into the tree of waiting ones *)
(* (to wait for POLLOUT sets bit 0 of status, the bit of WAIT_READ).        *)
Poll(co, f) ==
    /\ InOwnCode(co) /\ MayUse(co, f)
    /\ IF "WAIT_READ" \in status[co] \/ WaitsFor(f) # {} THEN Crash("assert")
       ELSE /\ epoll' = epoll \cup {f}
            /\ \E bits \in {{}, {"WAIT_READ"}} :
                 status' = [status EXCEPT ![co] = @ \cup bits]
            /\ fd' = [fd EXCEPT ![co] = f]
            /\ waiting' = waiting \cup {co}
            /\ at' = [at EXCEPT ![co] = "poll"]
            /\ Yield
            /\ UNCHANGED <<ready, sleeping, live, owner, fired>>

\* Wrong variant: nty_schedule_desched_wait leaves status as it is.
ReturnKeepsStatus(co) ==
    /\ Running(co) /\ at[co] = "poll"
    /\ IF WaitsFor(fd[co]) = {} THEN Crash("null_pointer")
       ELSE /\ epoll' = epoll \ {fd[co]}
            /\ \E it \in WaitsFor(fd[co]) : waiting' = waiting \ {it}
            /\ at' = [at EXCEPT ![co] = "own"]
            /\ \/ UNCHANGED fired
               \/ fired' = fired \ {fd[co]}
            /\ UNCHANGED <<loopVars, curr, ready, sleeping, live, status, fd, owner>>

\* Wrong variant: nty_schedule_desched_wait does not remove.
ReturnStaysInTree(co) ==
    /\ Running(co) /\ at[co] = "poll"
    /\ IF WaitsFor(fd[co]) = {} THEN Crash("null_pointer")
       ELSE /\ epoll' = epoll \ {fd[co]}
            /\ \E it \in WaitsFor(fd[co]) : status' = [status EXCEPT ![it] = {}]
            /\ at' = [at EXCEPT ![co] = "own"]
            /\ UNCHANGED <<loopVars, curr, ready, sleeping, waiting, live, fd, owner, fired>>

(* nty_poll_inner, from its yield: the descriptor is taken off the poller,  *)
(* nty_schedule_desched_wait takes out whoever waits for it, and the call   *)
(* that waited reads or writes, which may leave nothing for another event.  *)
PollReturn(co) ==
    /\ Running(co) /\ at[co] = "poll"
    /\ IF WaitsFor(fd[co]) = {} THEN Crash("null_pointer")
       ELSE /\ epoll' = epoll \ {fd[co]}
            /\ \E it \in WaitsFor(fd[co]) :
                 /\ waiting' = waiting \ {it}
                 /\ status' = [status EXCEPT ![it] = {}]
            /\ at' = [at EXCEPT ![co] = "own"]
            /\ \/ UNCHANGED fired
               \/ fired' = fired \ {fd[co]}
            /\ UNCHANGED <<loopVars, curr, ready, sleeping, live, fd, owner>>

(* The coroutine's function returns to _exec, which yields for good, and    *)
(* nty_coroutine_resume frees the coroutine.  Nothing takes it out of the   *)
(* trees and queues it is still in.                                         *)
Return(co) ==
    /\ InOwnCode(co)
    /\ IF co \in sleeping \/ InReady(co) THEN Crash("dangling")
       ELSE /\ status' = [status EXCEPT ![co] = @ \cup {"EXITED", "FDEOF", "DETACH"}]
            /\ live' = live \ {co}
            /\ Yield
            /\ UNCHANGED <<ready, sleeping, waiting, fd, at, fdVars>>

(* The kernel: something arrives on, or can be sent to, an open descriptor. *)
Fire(f) == /\ owner[f] # Null /\ phase \notin Crashes
           /\ fired' = fired \cup {f}
           /\ UNCHANGED <<loopVars, curr, ready, sleeping, waiting, live, coVars, epoll, owner>>
-----------------------------------------------------------------------------
RunLoop == \/ Round \/ NoneExpired
           \/ RunReady \/ ReadyEmpty
           \/ SkipEpoll \/ WaitEpoll \/ HandleEvent \/ EventsDone

(* How a coroutine that runs stops running, in the end. *)
Stop == \E co \in Coroutines : \/ PollReturn(co) \/ Return(co) \/ SleepZero(co)
                               \/ \E f \in Fds : Poll(co, f)

Call == \E co \in Coroutines : \/ Create(co) \/ Open(co)
                               \/ \E f \in Fds : Close(co, f)

(* Coroutines that wait for descriptors and for their turn. *)
Next == RunLoop \/ Stop \/ Call \/ \E f \in Fds : Fire(f)

(* Coroutines that also call nty_coroutine_sleep with msecs > 0. *)
TimedNext == Next \/ Expire \/ \E co \in Coroutines : Sleep(co)

Spec == Init /\ [][Next]_vars

TimedSpec == Init /\ [][TimedNext]_vars

(* The thread runs, and no coroutine keeps it for ever. *)
FairSpec == Spec /\ WF_vars(RunLoop) /\ WF_vars(Stop)
-----------------------------------------------------------------------------
(* Every coroutine that exists is in one place: once in the ready queue, in *)
(* the tree of waiting ones because it is inside nty_poll_inner, or running. *)
(* Nobody else can be reached: none is lost, and none can be resumed twice. *)
OnePlace ==
    /\ TypeOK
    /\ \A i, j \in 1..Len(ready) : ready[i] = ready[j] => i = j
    /\ \A co \in Coroutines :
         /\ co \in live <=> InReady(co) \/ co \in waiting \/ curr = co
         /\ InReady(co) => co \notin waiting /\ curr # co
         /\ co \in waiting <=> co \in live /\ at[co] = "poll"

(* Whoever has an event left in the array of epoll_wait still waits for it, *)
(* whatever the coroutines resumed for the events before it did: the lookup *)
(* that nty_schedule_search_wait does not check never fails.                *)
EventsHaveWaiters ==
    /\ phase = "events" => \A f \in events : WaitsFor(f) # {}
    /\ phase # "null_pointer"

(* The call that a coroutine waited in finds its descriptor ready: recv and *)
(* accept, which are called once, behave like calls that block.             *)
WokenInTime == \A co \in Coroutines : curr = co /\ at[co] = "poll" => fd[co] \in fired

(* The asserts of nty_schedule_sched_wait hold: a coroutine that begins to *)
(* wait has no wait bit in its status, and no other coroutine waits for    *)
(* its descriptor.                                                         *)
AssertsHold == phase # "assert"

(* A coroutine is freed only when it runs, which is when its function has  *)
(* returned: FDEOF, which an EPOLLHUP sets in a coroutine that goes on, is *)
(* gone before the ready queue is looked at.                               *)
FreedWhenReturned == [][\A co \in live \ live' : curr = co]_vars

(* One round of the ready queue resumes every coroutine it found there, and *)
(* ends although each may queue itself, or others, again.                   *)
RoundIsComplete == phase \in {"epoll", "events", "round", "expired"} => owed = {}

(* Who is in the ready queue runs. *)
ReadyRuns == \A co \in Coroutines : InReady(co) ~> curr = co

(* If the ready queue runs empty again and again, an event on a registered *)
(* descriptor is handled.                                                  *)
EventsAreServed ==
    []<>(phase = "epoll" /\ ready = <<>>)
       => \A f \in Fds : f \in epoll /\ f \in fired ~> f \notin epoll
=============================================================================
