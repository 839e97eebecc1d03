-------------------------------- MODULE Wlnet --------------------------------
(***************************************************************************)
(* cppNetwork/wlnet: an epoll reactor, edge triggered, that reads a        *)
(* message and answers it with a fixed text, in turns.  In server_TCP.cc   *)
(* the loop calls the callback of an event itself; in                      *)
(* server_TCP_threadpool.cc it makes a job of it, and workers call the     *)
(* callbacks (WorkQueue has their queue in detail).                        *)
(*                                                                         *)
(* A callback is a step for each of its system calls and of its accesses   *)
(* to the entry of the connection, which no lock protects: m_mutex is held *)
(* for the lookup of the entry alone.  Connections block.                  *)
(*                                                                         *)
(* Not here: a malloc for a block of the table that fails.  wl_connect_idx *)
(* then returns NULL, which its callers follow, with m_mutex locked.       *)
(***************************************************************************)
EXTENDS Sockets

CONSTANTS EVENTS_LENGTH,
          Workers, Loop,  \* the worker threads, and the one with the event loop
          MaxJobs         \* bound: how many jobs wait

VARIABLES pool,      \* whether the server is the one with the worker threads
          blk,       \* reactor->blk
          entry,     \* fd and cb of each descriptor's wl_connect_t
          interest,  \* what epoll watches a descriptor for
          edge,      \* the descriptors that epoll has something new of
          events,    \* what is left of the batch from epoll_wait
          jobs,      \* waiting_jobs, the latest first
          at,        \* what each thread does, and for which descriptor
          answered   \* history: how much of a peer's bytes was answered

reactorVars == <<blk, entry, interest, edge>>
threadVars  == <<pool, events, jobs, at>>
serverVars  == <<reactorVars, threadVars, answered>>
vars        == <<serverVars, socketVars>>

Threads == Workers \cup {Loop}
Free    == [do |-> "free", fd |-> Listener]
Steps   == {"free", "accept_cb", "open", "add", "recv_cb", "got", "out", "close", "close_again",
            "send_cb", "answered", "in"}

TypeOK == /\ SocketsTypeOK
          /\ pool \in BOOLEAN /\ blk \in Nat \ {0}
          /\ entry \in [Fds -> [fd : Fds \cup {-1}, cb : {"none", "accept_cb", "recv_cb", "send_cb"}]]
          /\ interest \in [Fds -> {"none", "in", "out"}]
          /\ edge \subseteq Fds /\ events \subseteq Fds /\ jobs \in Seq(Fds)
          /\ at \in [Threads -> [do : Steps, fd : Fds]]
          /\ answered \in [Peers -> Nat]

(* wl_init_reactor and set_listener *)
Init == /\ SocketsInit
        /\ pool \in {FALSE, Workers # {}}
        /\ blk = 1
        /\ entry = [f \in Fds |-> IF f = Listener THEN [fd |-> f, cb |-> "accept_cb"]
                                  ELSE [fd |-> -1, cb |-> "none"]]
        /\ interest = [f \in Fds |-> IF f = Listener THEN "in" ELSE "none"]
        /\ edge = {} /\ events = {} /\ jobs = <<>>
        /\ at = [t \in Threads |-> Free]
        /\ answered = [p \in Peers |-> 0]
-----------------------------------------------------------------------------
Ready(f) == \/ interest[f] = "in" /\ Readable(f)
            \/ interest[f] = "out" /\ Writable(f)

(* What a peer does is an edge for the descriptor that it concerns, if     *)
(* that is watched for it and ready then.                                  *)
Concerned(p) == IF phase[p] = "accepted" THEN {f \in Clients : peer[f] = p} ELSE {Listener}

PeerActs(p) == /\ PeerStep(p)
               /\ UNCHANGED <<blk, entry, interest, threadVars, answered>>
               /\ edge' = edge \cup {f \in Concerned(p) :
                       \/ interest[f] = "in" /\ Readable(f)' /\ full' = full
                       \/ interest[f] = "out" /\ Writable(f)' /\ sent' = sent}

Closed(f) == f # Listener /\ peer[f] = Nobody

\* Wrong variant: without epoll_ctl.
WatchNot(f, what) == UNCHANGED <<interest, edge>>

(* EPOLL_CTL_ADD and EPOLL_CTL_MOD look at the descriptor at once. *)
Watch(f, what) ==
    IF Closed(f) THEN UNCHANGED <<interest, edge>>
    ELSE /\ interest' = [interest EXCEPT ![f] = what]
         /\ edge' = IF (what = "in" /\ Readable(f)) \/ (what = "out" /\ Writable(f))
                    THEN edge \cup {f} ELSE edge \ {f}

(* What is closed is in no epoll set. *)
Close(S) == /\ Closes(S)
            /\ interest' = [f \in Fds |-> IF f \in S \ {Listener} THEN "none" ELSE interest[f]]
            /\ edge' = edge \ S
-----------------------------------------------------------------------------
(* wl_run_reactor.  An edge is reported once, if it is still of interest.  *)
EpollWait == /\ alive /\ events = {} /\ at[Loop] = Free
             /\ edge # {}
             /\ events' = {f \in edge : Ready(f)} /\ edge' = {}
             /\ UNCHANGED <<blk, entry, interest, pool, jobs, at, answered, socketVars>>

(* wl_connect_idx, which adds blocks up to the one that the entry is in.   *)
BlocksFor(f) == Max({blk, f \div EVENTS_LENGTH + 1})

Enter(t, f) == at' = [at EXCEPT ![t] = [do |-> entry[f].cb, fd |-> f]]

(* conn->cb(connfd, events[i].events, reactor), here ... *)
CallBack(f) == /\ alive /\ ~pool /\ f \in events /\ at[Loop] = Free
               /\ Enter(Loop, f)
               /\ events' = events \ {f}
               /\ UNCHANGED <<pool, jobs, reactorVars, answered, socketVars>>

(* ... or by a worker. *)
AddJob(f) == /\ alive /\ pool /\ f \in events
             /\ Len(jobs) < MaxJobs
             /\ events' = events \ {f}
             /\ jobs' = <<f>> \o jobs
             /\ UNCHANGED <<pool, at, reactorVars, answered, socketVars>>

TakeJob(t) == /\ alive /\ t \in Workers /\ at[t] = Free /\ jobs # <<>>
              /\ Enter(t, Head(jobs))
              /\ jobs' = Tail(jobs)
              /\ UNCHANGED <<pool, events, reactorVars, answered, socketVars>>
-----------------------------------------------------------------------------
(* The callbacks. *)
Does(t, step, f) == alive /\ at[t] = [do |-> step, fd |-> f]

Then(t, step) == /\ at' = [at EXCEPT ![t].do = step]
                 /\ UNCHANGED <<pool, events, jobs>>

Leave(t) == /\ at' = [at EXCEPT ![t] = Free]
            /\ UNCHANGED <<pool, events, jobs>>

(* accept_cb.  The listener does not block. *)
Accept(t, p, f) == /\ Does(t, "accept_cb", Listener) /\ Accepts(p, f)
                   /\ at' = [at EXCEPT ![t] = [do |-> "open", fd |-> f]]
                   /\ UNCHANGED <<reactorVars, pool, events, jobs, answered>>

AcceptFails(t) == /\ Does(t, "accept_cb", Listener)
                  /\ Leave(t) /\ UNCHANGED <<reactorVars, answered, socketVars>>

OpenEntry(t, f) == /\ Does(t, "open", f)
                   /\ blk' = BlocksFor(f)
                   /\ entry' = [entry EXCEPT ![f] = [fd |-> f, cb |-> "recv_cb"]]
                   /\ Then(t, "add") /\ UNCHANGED <<interest, edge, answered, socketVars>>

AddToEpoll(t, f) == /\ Does(t, "add", f)
                    /\ Watch(f, "in")
                    /\ Leave(t) /\ UNCHANGED <<blk, entry, answered, socketVars>>

(* recv_cb *)
Recv(t, f) == /\ Does(t, "recv_cb", f) /\ Receives(f, BUFFER_LENGTH)
              /\ Then(t, "got") /\ UNCHANGED <<reactorVars, answered>>

Received(t, f) == /\ Does(t, "got", f)
                  /\ entry' = [entry EXCEPT ![f].cb = "send_cb"]
                  /\ Then(t, "out") /\ UNCHANGED <<blk, interest, edge, answered, socketVars>>

WaitToSend(t, f) == /\ Does(t, "out", f)
                    /\ Watch(f, "out")
                    /\ Leave(t) /\ UNCHANGED <<blk, entry, answered, socketVars>>

(* recv fails, because of a reset or since the descriptor is closed: the   *)
(* callback returns, and no edge of the connection will come again.        *)
RecvFails(t, f) == /\ Does(t, "recv_cb", f)
                   /\ \/ ReceiveFails(f)
                      \/ peer[f] = Nobody /\ UNCHANGED socketVars
                   /\ Leave(t) /\ UNCHANGED <<reactorVars, answered>>

(* recv returns 0: close(conn->fd), and close(fd) after an epoll_ctl that  *)
(* has fd for the epoll descriptor and fails.                              *)
RecvEnd(t, f) == /\ Does(t, "recv_cb", f) /\ ReceivesEnd(f)
                 /\ Then(t, "close") /\ UNCHANGED <<reactorVars, answered, socketVars>>

CloseEntry(t, f) == /\ Does(t, "close", f)
                    /\ Close({entry[f].fd})
                    /\ entry' = [entry EXCEPT ![f].fd = -1]
                    /\ Then(t, "close_again") /\ UNCHANGED <<blk, answered>>

CloseAgain(t, f) == /\ Does(t, "close_again", f)
                    /\ Close({f})
                    /\ Leave(t) /\ UNCHANGED <<blk, entry, answered>>

(* send_cb: the text is no echo, and goes where peers do not compare it.   *)
Send(t, f) == /\ Does(t, "send_cb", f) /\ Delivers(f, <<>>)
              /\ answered' = [answered EXCEPT ![peer[f]] = got[peer[f]]]
              /\ Then(t, "answered") /\ UNCHANGED reactorVars

Answered(t, f) == /\ Does(t, "answered", f)
                  /\ entry' = [entry EXCEPT ![f].cb = "recv_cb"]
                  /\ Then(t, "in") /\ UNCHANGED <<blk, interest, edge, answered, socketVars>>

WaitToRecv(t, f) == /\ Does(t, "in", f)
                    /\ Watch(f, "in")
                    /\ Leave(t) /\ UNCHANGED <<blk, entry, answered, socketVars>>

SendFails(t, f) == /\ Does(t, "send_cb", f)
                   /\ \/ DeliveryFails(f)
                      \/ peer[f] = Nobody /\ UNCHANGED socketVars
                   /\ Leave(t) /\ UNCHANGED <<reactorVars, answered>>
-----------------------------------------------------------------------------
Callback(t, f) == \/ OpenEntry(t, f) \/ AddToEpoll(t, f)
                  \/ Recv(t, f) \/ Received(t, f) \/ WaitToSend(t, f) \/ RecvFails(t, f)
                  \/ RecvEnd(t, f) \/ CloseEntry(t, f) \/ CloseAgain(t, f)
                  \/ Send(t, f) \/ Answered(t, f) \/ WaitToRecv(t, f) \/ SendFails(t, f)

Running(t) == \/ AcceptFails(t) \/ \E p \in Peers, f \in Clients : Accept(t, p, f)
              \/ \E f \in Clients : Callback(t, f)

Server == \/ EpollWait \/ \E f \in events : CallBack(f) \/ AddJob(f)
          \/ \E t \in Workers : TakeJob(t)
          \/ \E t \in Threads : Running(t)

Next == Server \/ \E p \in Peers : PeerActs(p)

Spec == Init /\ [][Next]_vars

(* The server of one thread runs, and peers read what they are sent. *)
Fairness == WF_vars(Server) /\ \A p \in Peers : WF_vars(Drain(p) /\ PeerActs(p))

FairSpec == Spec /\ Fairness
-----------------------------------------------------------------------------
(* No thread waits in recv or send: the callback is called when there is   *)
(* something for it, although edges are reported once and callbacks change *)
(* what is waited for.                                                     *)
CallbacksNeverWait ==
    alive => \A t \in Threads, f \in Clients :
        /\ at[t] = [do |-> "recv_cb", fd |-> f] /\ peer[f] # Nobody => Readable(f)
        /\ at[t] = [do |-> "send_cb", fd |-> f] /\ peer[f] # Nobody => Writable(f)

(* No callback is called of an entry that was not set (TypeOK has no step  *)
(* for that) or in a block that does not exist, by no thread.  With one    *)
(* thread no callback waits, and close is called the second time of a      *)
(* descriptor that nobody has.                                             *)
EventsHold ==
    /\ TypeOK
    /\ alive => \A f \in events \cup ToSet(jobs) : entry[f].cb # "none" /\ f \div EVENTS_LENGTH < blk
    /\ alive /\ ~pool =>
         /\ CallbacksNeverWait
         /\ \A f \in Clients : at[Loop] = [do |-> "close_again", fd |-> f] => peer[f] = Nobody
=============================================================================
