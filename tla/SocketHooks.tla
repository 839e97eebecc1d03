---------------------------- MODULE SocketHooks ------------------------------
(***************************************************************************)
(* wlyCo/src/nty_socket.c: socket calls that a coroutine makes as if they  *)
(* blocked.  Each polls its descriptor, which yields to the scheduler, and *)
(* makes the system call when it is resumed; the file has every call twice *)
(* over, as nty_<call> and, hooked, under the name of the system call.     *)
(*                                                                         *)
(* One coroutine runs at a time (Scheduler has who, and what the scheduler *)
(* keeps of the others); a system call is one step, and between two of     *)
(* them the peers and the network do what they like.  A descriptor is used *)
(* by one call at a time, as nty_schedule_sched_wait asserts.              *)
(***************************************************************************)
EXTENDS Integers, SequencesExt, FiniteSetsExt

CONSTANTS Coroutines, Nobody,
          Fds,      \* the descriptors the process may have, positive numbers
          Room,     \* bytes that a connection takes before its peer reads
          Lengths   \* of the buffers that are sent

VARIABLES alive,    \* FALSE after SIGPIPE or a failed assertion
          curr,     \* sched->curr_thread
          co,       \* where each coroutine is in its call
          sock,     \* the kernel's sockets
          interest  \* what epoll watches a descriptor for

vars == <<alive, curr, co, sock, interest>>

(* took is history: which bytes of its buffer the kernel took, in order.   *)
Idle == [at |-> "idle", op |-> "none", fd |-> 0, len |-> 0, sent |-> 0,
         took |-> <<>>, ret |-> 0, errno |-> "none"]
Free == [state |-> "free", nonblock |-> FALSE, unread |-> 0, avail |-> FALSE,
         fin |-> FALSE, rst |-> "none"]

Init == /\ alive = TRUE /\ curr = Nobody
        /\ co = [c \in Coroutines |-> Idle]
        /\ sock = [f \in Fds |-> Free]
        /\ interest = [f \in Fds |-> {}]

(* The process ends, and the kernel closes what it had. *)
Die == /\ alive' = FALSE /\ curr' = Nobody
       /\ co' = [c \in Coroutines |-> Idle]
       /\ sock' = [f \in Fds |-> Free]
       /\ interest' = [f \in Fds |-> {}]

Unused   == {f \in Fds : sock[f].state = "free"}
Lowest   == Min(Unused)
InCall(c) == co[c].at \in {"poll", "wait", "try", "call"}
Busy(f)  == \E c \in Coroutines : InCall(c) /\ co[c].fd = f
Usable(f, states) == sock[f].state \in states /\ ~Busy(f)

Broken(f) == sock[f].rst # "none"

(* What poll and epoll report of a socket.  An unconnected one is hung up. *)
HangUp(f)   == sock[f].state \in {"new", "refused"} \/ Broken(f)
Readable(f) == sock[f].avail \/ sock[f].fin \/ HangUp(f)
Writable(f) == \/ HangUp(f) \/ sock[f].state \in {"answered", "dgram"}
               \/ sock[f].state = "connected" /\ sock[f].unread < Room
Reported(f) == \/ interest[f] # {} /\ HangUp(f)
               \/ "in" \in interest[f] /\ Readable(f)
               \/ "out" \in interest[f] /\ Writable(f)
-----------------------------------------------------------------------------
(* The peers and the network. *)
Peer(f, new) == sock' = [sock EXCEPT ![f] = new] /\ UNCHANGED <<alive, curr, co, interest>>

Arrives(f) ==   \* a connection to be accepted, bytes or a datagram
    /\ sock[f].state \in {"listening", "connected", "dgram"} /\ ~sock[f].avail
    /\ ~sock[f].fin /\ ~Broken(f)
    /\ Peer(f, [sock[f] EXCEPT !.avail = TRUE])

GoesAway(f) ==  \* a connection was given up, or a datagram's checksum is wrong
    /\ sock[f].state \in {"listening", "dgram"} /\ sock[f].avail
    /\ Peer(f, [sock[f] EXCEPT !.avail = FALSE])

Drains(f) == sock[f].unread > 0 /\ Peer(f, [sock[f] EXCEPT !.unread = 0])

Ends(f) == /\ sock[f].state = "connected" /\ ~sock[f].fin
           /\ ~Broken(f)
           /\ Peer(f, [sock[f] EXCEPT !.fin = TRUE])

Resets(f) == /\ sock[f].state = "connected" /\ sock[f].rst = "none"
             /\ Peer(f, [sock[f] EXCEPT !.rst = "pending", !.fin = FALSE, !.unread = 0])

Answers(f) == /\ sock[f].state = "connecting"
              /\ \E s \in {"answered", "refused"} : Peer(f, [sock[f] EXCEPT !.state = s])
-----------------------------------------------------------------------------
(* The running coroutine. *)
Running(c, at) == alive /\ curr = c /\ co[c].at = at

Return(c, ret, errno) ==
    co' = [co EXCEPT ![c].at = "idle", ![c].ret = ret, ![c].errno = errno]

Descriptor(kind) == [Free EXCEPT !.state = kind, !.nonblock = TRUE]

(* nty_socket: the descriptor does not block; when fcntl fails it is       *)
(* close(-1) that is called, and the descriptor stays.                     *)
Socket(c) ==
    /\ Running(c, "idle")
    /\ Unused # {}
    /\ \/ \E kind \in {"new", "dgram"} : sock' = [sock EXCEPT ![Lowest] = Descriptor(kind)]
       \/ sock' = [sock EXCEPT ![Lowest].state = "leaked"]
    /\ UNCHANGED <<alive, curr, co, interest>>

(* bind and listen, which are not hooked *)
Listen(c, f) == /\ Running(c, "idle") /\ Usable(f, {"new"})
                /\ sock' = [sock EXCEPT ![f].state = "listening"]
                /\ UNCHANGED <<alive, curr, co, interest>>

(* nty_close *)
Close(c, f) == /\ Running(c, "idle")
               /\ Usable(f, {"new", "listening", "connected", "dgram"})
               /\ sock' = [sock EXCEPT ![f] = Free]
               /\ UNCHANGED <<alive, curr, co, interest>>

(* Every call polls before anything else, but a send tries first. *)
Call(c, op, f, len, states) ==
    /\ Running(c, "idle") /\ Usable(f, states)
    /\ co' = [co EXCEPT ![c] = [Idle EXCEPT !.at = IF op = "send" THEN "try" ELSE "poll",
                                            !.op = op, !.fd = f, !.len = len]]
    /\ UNCHANGED <<alive, curr, sock, interest>>

AcceptCall(c, f)    == Call(c, "accept", f, 0, {"listening"})
ConnectCall(c, f)   == Call(c, "connect", f, 0, {"new"})
RecvCall(c, f)      == Call(c, "recv", f, 0, {"connected"})      \* and read
RecvfromCall(c, f)  == Call(c, "recvfrom", f, 0, {"dgram"})
SendCall(c, f, len) == Call(c, "send", f, len, {"connected"})    \* and write

(* nty_sendto, which makes no system call when there is nothing to send    *)
NtySendtoCall(c, f, len) == len > 0 /\ Call(c, "nty_sendto", f, len, {"dgram"})
SendtoCall(c, f, len)    == Call(c, "sendto", f, len, {"dgram"})

(* The coroutine goes to the ready queue: nty_coroutine_sleep(0).  What    *)
(* its last call returned is forgotten.                                    *)
YieldReady(c) == /\ Running(c, "idle")
                 /\ curr' = Nobody
                 /\ co' = [co EXCEPT ![c] = Idle]
                 /\ UNCHANGED <<alive, sock, interest>>

\* Wrong variant: fds.events has POLLIN everywhere.
WantedInput(op) == {"in"}

Wanted(op) == IF op \in {"connect", "send", "sendto", "nty_sendto"} THEN {"out"} ELSE {"in"}

(* nty_poll_inner up to the yield.  EPOLL_CTL_ADD fails, and is not looked *)
(* at, when the descriptor is there already.                               *)
PollInner(c) ==
    LET f == co[c].fd IN
    /\ Running(c, "poll")
    /\ interest' = [interest EXCEPT ![f] = IF @ = {} THEN Wanted(co[c].op) ELSE @]
    /\ co' = [co EXCEPT ![c].at = "wait"]
    /\ curr' = Nobody
    /\ UNCHANGED <<alive, sock>>

(* The scheduler has an event and resumes the coroutine, which goes on in  *)
(* nty_poll_inner with EPOLL_CTL_DEL.                                      *)
ResumeWaiting(c) ==
    LET f == co[c].fd IN
    /\ alive /\ curr = Nobody /\ co[c].at = "wait" /\ Reported(f)
    /\ curr' = c
    /\ co' = [co EXCEPT ![c].at = "call"]
    /\ interest' = [interest EXCEPT ![f] = {}]
    /\ UNCHANGED <<alive, sock>>

(* ... or takes it from the ready queue.                                   *)
ResumeReady(c) == /\ alive /\ curr = Nobody /\ co[c].at = "idle"
                  /\ curr' = c
                  /\ UNCHANGED <<alive, co, sock, interest>>
-----------------------------------------------------------------------------
(* The system calls.  One that has to wait fails with EAGAIN on a socket   *)
(* that does not block, and does not return, with the thread and all its   *)
(* coroutines, on another.                                                 *)
Calling(c, op, at) == Running(c, at) /\ co[c].op = op

PollAgain(c) == co' = [co EXCEPT ![c].at = "poll"]

AcceptAgain(c) ==
    LET f == co[c].fd IN
    /\ Calling(c, "accept", "call") /\ ~sock[f].avail /\ sock[f].nonblock
    /\ PollAgain(c)
    /\ UNCHANGED <<alive, curr, sock, interest>>

(* nty_accept, then fcntl: when that fails the connection is closed.       *)
Accept(c) ==
    LET f == co[c].fd IN
    /\ Calling(c, "accept", "call") /\ sock[f].avail
    /\ \/ /\ Unused # {}
          /\ sock' = [sock EXCEPT ![f].avail = FALSE, ![Lowest] = Descriptor("connected")]
          /\ Return(c, Lowest, "none")
       \/ /\ Unused # {}
          /\ sock' = [sock EXCEPT ![f].avail = FALSE]
          /\ Return(c, -1, "fcntl")
       \/ Unused = {} /\ Return(c, -1, "EMFILE") /\ UNCHANGED sock
    /\ UNCHANGED <<alive, curr, interest>>

\* Wrong variant: EINPROGRESS polls no more.
ConnectTwice(c) ==
    LET f == co[c].fd IN
    /\ Calling(c, "connect", "call")
    /\ sock[f].state = "new"
    /\ sock' = [sock EXCEPT ![f].state = "connecting"]
    /\ UNCHANGED <<alive, curr, co, interest>>

(* nty_connect: the first connect starts, ...                              *)
ConnectStarts(c) ==
    LET f == co[c].fd IN
    /\ Calling(c, "connect", "call")
    /\ sock[f].state = "new"
    /\ \/ sock' = [sock EXCEPT ![f].state = "connecting"] /\ PollAgain(c)   \* EINPROGRESS
       \/ Return(c, -1, "ENETUNREACH") /\ UNCHANGED sock
    /\ UNCHANGED <<alive, curr, interest>>

(* ... the one after the poll says how it went.                            *)
ConnectEnds(c) ==
    LET f == co[c].fd IN
    /\ Calling(c, "connect", "call")
    /\ \/ /\ sock[f].state = "connecting"
          /\ Return(c, -1, "EALREADY") /\ UNCHANGED sock
       \/ /\ sock[f].state = "answered"
          /\ sock' = [sock EXCEPT ![f].state = "connected"]
          /\ Return(c, 0, "none")
       \/ /\ sock[f].state = "refused"
          /\ sock' = [sock EXCEPT ![f].state = "new"]
          /\ Return(c, -1, "ECONNREFUSED")
    /\ UNCHANGED <<alive, curr, interest>>

(* nty_recv takes what there is, and reports a reset once.                 *)
Recv(c) ==
    LET f == co[c].fd  s == sock[f] IN
    /\ Calling(c, "recv", "call")
    /\ \/ /\ s.avail
          /\ Return(c, 1, "none") /\ sock' = [sock EXCEPT ![f].avail = FALSE]
       \/ /\ ~s.avail /\ s.rst = "pending"
          /\ Return(c, -1, "ECONNRESET") /\ sock' = [sock EXCEPT ![f].rst = "reported"]
       \/ /\ ~s.avail /\ s.rst # "pending" /\ (s.fin \/ s.rst = "reported")
          /\ Return(c, 0, "none") /\ UNCHANGED sock
       \/ /\ ~Readable(f) /\ s.nonblock
          /\ Return(c, -1, "EAGAIN") /\ UNCHANGED sock
    /\ UNCHANGED <<alive, curr, interest>>

\* Wrong variant: send(fd, buf, len - sent, flags)
FromTheStart(c, n) == [i \in 1..n |-> i]

(* n bytes from buf + sent *)
Bytes(c, n) == [i \in 1..n |-> co[c].sent + i]

Sending(c) == \E at \in {"try", "call"} : Calling(c, "send", at)

(* nty_send returns 0 at once for an empty buffer.                         *)
SendNothing(c) == /\ Calling(c, "send", "try") /\ co[c].len = 0
                  /\ Return(c, 0, "none")
                  /\ UNCHANGED <<alive, curr, sock, interest>>

(* The kernel takes n bytes: while there is more it polls and sends again. *)
SendTakes(c, n) ==
    LET f == co[c].fd  sent == co[c].sent + n  more == sent < co[c].len IN
    /\ Sending(c) /\ sock[f].rst = "none"
    /\ n <= co[c].len - co[c].sent /\ n <= Room - sock[f].unread
    /\ sock' = [sock EXCEPT ![f].unread = @ + n]
    /\ co' = [co EXCEPT ![c].sent = sent, ![c].took = @ \o Bytes(c, n),
                        ![c].at = IF more THEN "poll" ELSE "idle",
                        ![c].ret = IF more THEN @ ELSE sent]
    /\ UNCHANGED <<alive, curr, interest>>

SendError(f) == IF sock[f].rst = "none" THEN "EAGAIN" ELSE "ECONNRESET"

Refuses(f) == \/ sock[f].rst = "pending" /\ sock' = [sock EXCEPT ![f].rst = "reported"]
              \/ /\ sock[f].rst = "none" /\ sock[f].unread = Room /\ sock[f].nonblock
                 /\ UNCHANGED sock

(* It fails: after a poll the call returns what was sent before.           *)
SendFails(c) == /\ Calling(c, "send", "call") /\ Refuses(co[c].fd)
                /\ Return(c, IF co[c].sent = 0 THEN -1 ELSE co[c].sent, SendError(co[c].fd))
                /\ UNCHANGED <<alive, curr, interest>>

(* ... whatever the error, the first time it goes on to poll.              *)
TryFails(c) == /\ Calling(c, "send", "try") /\ co[c].len > 0 /\ Refuses(co[c].fd)
               /\ PollAgain(c)
               /\ UNCHANGED <<alive, curr, interest>>

(* The reset was reported: SIGPIPE. *)
SendDies(c) == /\ Sending(c) /\ co[c].len > 0 /\ sock[co[c].fd].rst = "reported"
               /\ Die

(* Datagrams go and come as a whole. *)
Datagram(c, ret, new) ==
    /\ Return(c, ret, "none")
    /\ sock' = [sock EXCEPT ![co[c].fd] = new]
    /\ UNCHANGED <<alive, curr, interest>>

Sendto(c) == /\ \E op \in {"sendto", "nty_sendto"} : Calling(c, op, "call")
             /\ Datagram(c, co[c].len, sock[co[c].fd])

Recvfrom(c) == /\ Calling(c, "recvfrom", "call") /\ sock[co[c].fd].avail
               /\ Datagram(c, 1, [sock[co[c].fd] EXCEPT !.avail = FALSE])

(* There is none any more, or no memory for one after all: EAGAIN. *)
NoDatagram(c, op) == /\ Calling(c, op, "call")
                     /\ op = "recvfrom" => ~sock[co[c].fd].avail
                     /\ UNCHANGED <<alive, curr, sock, interest>>

DatagramAgain(c) == NoDatagram(c, "nty_sendto") /\ PollAgain(c)
DatagramNone(c)  == \E op \in {"sendto", "recvfrom"} : NoDatagram(c, op) /\ Return(c, -1, "EAGAIN")

(* ECONNRESET, and any other error: assert(0). *)
DatagramReset(c, op) == /\ Calling(c, op, "call")
                        /\ Return(c, IF op = "nty_sendto" THEN -1 ELSE 0, "ECONNRESET")
                        /\ UNCHANGED <<alive, curr, sock, interest>>

DatagramDies(c, op) == Calling(c, op, "call") /\ Die
-----------------------------------------------------------------------------
SystemCall(c) ==
    \/ AcceptAgain(c) \/ Accept(c) \/ ConnectStarts(c) \/ ConnectEnds(c) \/ Recv(c)
    \/ SendNothing(c) \/ SendFails(c) \/ TryFails(c) \/ SendDies(c)
    \/ \E n \in 1..Room : SendTakes(c, n)
    \/ Sendto(c) \/ Recvfrom(c) \/ DatagramAgain(c) \/ DatagramNone(c)
    \/ \E op \in {"sendto", "nty_sendto", "recvfrom"} : DatagramReset(c, op) \/ DatagramDies(c, op)

Begin(c, f) == \/ Listen(c, f) \/ Close(c, f) \/ AcceptCall(c, f) \/ ConnectCall(c, f)
               \/ RecvCall(c, f) \/ RecvfromCall(c, f)
               \/ \E len \in Lengths : \/ SendCall(c, f, len)
                                       \/ SendtoCall(c, f, len) \/ NtySendtoCall(c, f, len)

Environment(f) == Arrives(f) \/ GoesAway(f) \/ Drains(f) \/ Ends(f) \/ Resets(f) \/ Answers(f)

Next == \/ \E f \in Fds : Environment(f)
        \/ \E c \in Coroutines : \/ Socket(c) \/ YieldReady(c) \/ PollInner(c)
                                 \/ ResumeWaiting(c) \/ ResumeReady(c) \/ SystemCall(c)
                                 \/ \E f \in Fds : Begin(c, f)

Spec == Init /\ [][Next]_vars

(* The ready queue is empty: only then does the scheduler ask epoll       *)
(* (nty_schedule.c:289).                                                   *)
NobodyReady == curr = Nobody /\ \A c \in Coroutines : co[c].at # "idle"

(* Coroutines do not run for ever without waiting, the scheduler comes to  *)
(* the events that are there when the ready queue is empty (EventsAreServed *)
(* of Scheduler), peers read what they are sent, and the network answers.  *)
Fairness == /\ \A c \in Coroutines : /\ WF_vars(PollInner(c) \/ SystemCall(c))
                                     /\ SF_vars(YieldReady(c))
                                     /\ SF_vars(NobodyReady /\ ResumeWaiting(c))
            /\ \A f \in Fds : WF_vars(Drains(f)) /\ WF_vars(Answers(f))

FairSpec == Spec /\ Fairness
-----------------------------------------------------------------------------
(* However the kernel cuts it up, and whatever fails on the way, what went *)
(* out of a buffer is its beginning, in order, each byte once, and the     *)
(* call says how long that is.                                             *)
SendsAPrefix ==
    \A c \in Coroutines : LET s == co[c] IN
        s.op = "send" =>
            /\ s.took = [i \in 1..s.sent |-> i]
            /\ s.at = "idle" /\ s.ret >= 0 => s.ret = s.sent

(* A call on a connection looks to its coroutine as if it had blocked: it  *)
(* does not return for want of data, of room or of an answer, a send has   *)
(* sent everything unless the peer has reset the connection.               *)
LooksBlocking ==
    [][\A c \in Coroutines :
          alive' /\ co[c].at \in {"try", "call"} /\ co'[c].at = "idle" =>
              /\ co[c].op \in {"accept", "connect", "recv", "send"} =>
                    co'[c].errno \notin {"EAGAIN", "EALREADY"}
              /\ co[c].op = "send" =>
                    co'[c].ret = co[c].len \/ Broken(co[c].fd)]_vars

CanReturn(c) == \/ InCall(c) /\ co[c].op \in {"send", "connect"}
                \/ co[c].at = "wait" /\ co[c].op = "recv" /\ Readable(co[c].fd)

(* ... and it returns once it can, if the ready queue runs empty again and *)
(* again: a send and a connect always, a recv when the peer sends, ends or *)
(* resets.  No event is lost between the polls of a call, and none that    *)
(* another call asked for is waited for.  Beside a coroutine that yields   *)
(* in a loop nothing is promised.                                          *)
CallsReturn ==
    []<>NobodyReady => \A c \in Coroutines : CanReturn(c) ~> ~InCall(c) \/ ~alive
=============================================================================
