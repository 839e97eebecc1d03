----------------------------- MODULE HookServer ------------------------------
(***************************************************************************)
(* wlyCo/test/hook_tcpserver.c: a coroutine accepts connections and        *)
(* creates another for each, to which it gives the address of its own      *)
(* variable with the descriptor.  SharedStack has the stack, and every     *)
(* step here that runs a coroutine is one of its steps; this module adds   *)
(* whose turn it is, and what the two functions do.                        *)
(***************************************************************************)
EXTENDS SharedStack, FiniteSets

CONSTANTS Server,    \* the coroutine of main, all others are readers
          Fds,       \* descriptors for connections
          Listener, NoFd,  \* server's fd, and -1
          Data,      \* what else a word may hold
          OneStack   \* the build with _USE_UCONTEXT: no coroutine has its own

VARIABLES at,        \* where a coroutine is in its function
          fd,        \* its variable of that name
          given,     \* history: the descriptor that accept returned for it
          open,      \* the descriptors of connections that are open
          ready,     \* sched->ready
          batch,     \* whose event epoll_wait returned and was not handled yet
          alive      \* no assert failed

hookVars  == <<at, fd, given, open, ready, batch, alive>>
stackVars == <<mem, depth, curr, status, size, saved, room>>

Readers == Coroutines \ {Server}

(* Below the word of _exec server has clientfd, where server_reader has a  *)
(* part of buf; the calls that they make need another word.                *)
Clientfd == 2
ASSUME FramesAssumption == /\ Server \in Coroutines /\ Size = 3
                           /\ Values = Fds \cup {NoFd, Data}

HookInit == /\ mem = [i \in 1..Size |-> Data]
            /\ depth = 0 /\ curr = Null
            /\ status = [co \in Coroutines |-> IF co = Server THEN "NEW" ELSE "none"]
            /\ size = [co \in Coroutines |-> 0]
            /\ saved = [co \in Coroutines |-> <<>>]
            /\ room = [co \in Coroutines |-> 0]
            /\ at = [co \in Coroutines |-> "start"]
            /\ fd = [co \in Coroutines |-> IF co = Server THEN Listener ELSE NoFd]
            /\ given = [co \in Coroutines |-> NoFd]
            /\ open = {} /\ ready = <<Server>> /\ batch = {} /\ alive = TRUE

Goto(co, place) == at' = [at EXCEPT ![co] = place]
Running(co, place) == alive /\ curr = co /\ at[co] = place

Set(word, v) == mem' = [mem EXCEPT ![word] = v]
-----------------------------------------------------------------------------
(* nty_schedule_run: the ready queue, all of which are new, ...            *)
RunReady(co) == /\ alive /\ batch = {} /\ ready # <<>> /\ co = Head(ready)
                /\ Start(co) /\ Set(1, Data)
                /\ ready' = Tail(ready)
                /\ UNCHANGED <<at, fd, given, open, batch, alive>>

(* The peers are left open: whoever waits for a descriptor that is open    *)
(* may have an event.                                                      *)
Waiting == {co \in Coroutines : at[co] = "wait" /\ fd[co] \in open \cup {Listener}}

\* Wrong variant: epoll is asked before the ready queue is run.
EpollWaitFirst == /\ alive /\ curr = Null /\ batch = {}
                  /\ batch' \in SUBSET Waiting \ {{}}
                  /\ UNCHANGED <<stackVars, at, fd, given, open, ready, alive>>

(* ... epoll once that is empty, ...                                       *)
EpollWait == /\ alive /\ curr = Null /\ batch = {} /\ ready = <<>>
             /\ batch' \in SUBSET Waiting \ {{}}
             /\ UNCHANGED <<stackVars, at, fd, given, open, ready, alive>>

(* ... and whoever has an event, in the order of the array.                *)
ResumeForEvent(co) == /\ alive /\ co \in batch
                      /\ Resume(co)
                      /\ batch' = batch \ {co}
                      /\ Goto(co, "woken")
                      /\ UNCHANGED <<fd, given, open, ready, alive>>
-----------------------------------------------------------------------------
(* Both functions: entered from _exec, ...                                 *)
Enter(co) == /\ Running(co, "start")
             /\ Call /\ UNCHANGED mem
             /\ Goto(co, IF co = Server THEN "call" ELSE "argument")
             /\ UNCHANGED <<fd, given, open, ready, batch, alive>>

(* ... accept, recv or send, down to nty_poll_inner, ...                   *)
PollInner(co) == /\ Running(co, "call")
                 /\ Call /\ Set(3, Data)
                 /\ Goto(co, "poll")
                 /\ UNCHANGED <<fd, given, open, ready, batch, alive>>

(* ... which yields, unless the assert fails that nobody else waits for    *)
(* the descriptor, ...                                                     *)
Waited(co) == \E other \in Coroutines : at[other] = "wait" /\ fd[other] = fd[co]

YieldInPoll(co) == /\ Running(co, "poll") /\ ~Waited(co)
                   /\ Yield
                   /\ Goto(co, "wait")
                   /\ UNCHANGED <<fd, given, open, ready, batch, alive>>

AssertFails(co) == /\ Running(co, "poll") /\ Waited(co)
                   /\ alive' = FALSE
                   /\ UNCHANGED <<stackVars, at, fd, given, open, ready, batch>>

(* ... and back to the function after the event.                           *)
ReturnFromPoll(co) == /\ Running(co, "woken") /\ depth = 3
                      /\ Return
                      /\ UNCHANGED hookVars

InFunction(co, place) == Running(co, place) /\ depth = 2
-----------------------------------------------------------------------------
(* server: clientfd = accept(...), which may fail; the descriptor is one   *)
(* that is not open.                                                       *)
Accepted == /\ InFunction(Server, "woken")
            /\ \E f \in (Fds \ open) \cup {NoFd} :
                  /\ Assign /\ Set(Clientfd, f)
                  /\ open' = open \cup ({f} \ {NoFd})
            /\ Goto(Server, "create")
            /\ UNCHANGED <<fd, given, ready, batch, alive>>

CreateReader(co) == /\ InFunction(Server, "create")
                    /\ co \in Readers /\ Create(co)
                    /\ ready' = Append(ready, co)
                    /\ given' = [given EXCEPT ![co] = mem[Clientfd]]
                    /\ at' = [at EXCEPT ![Server] = "call", ![co] = "start"]
                    /\ UNCHANGED <<fd, open, batch, alive>>

(* There is no memory, and nobody is to serve the connection.              *)
CreateFails == /\ InFunction(Server, "create")
               /\ Goto(Server, "call")
               /\ UNCHANGED <<stackVars, fd, given, open, ready, batch, alive>>

(* server_reader: fd = *(int * )arg.  What is at the address of clientfd    *)
(* depends on whose stack it is in.                                        *)
Pointee == IF OneStack THEN mem[Clientfd] ELSE saved[Server][Clientfd]

ReadArgument(co) == /\ InFunction(co, "argument")
                    /\ fd' = [fd EXCEPT ![co] = Pointee]
                    /\ Goto(co, "clear")
                    /\ UNCHANGED <<stackVars, given, open, ready, batch, alive>>

(* char buf[1024] = {0}, and recv                                          *)
ClearBuffer(co) == /\ InFunction(co, "clear")
                   /\ Assign /\ Set(Clientfd, Data)
                   /\ Goto(co, "call")
                   /\ UNCHANGED <<fd, given, open, ready, batch, alive>>

(* The bytes are sent back, at once or after another wait, or recv failed. *)
Received(co) == /\ InFunction(co, "woken") /\ co \in Readers
                /\ \E place \in {"clear", "call"} : Goto(co, place)
                /\ UNCHANGED <<stackVars, fd, given, open, ready, batch, alive>>

(* recv returned 0, or send -1: close(fd), and the function returns.       *)
Leave(co) == /\ InFunction(co, "woken") /\ co \in Readers
             /\ Exit
             /\ open' = open \ {fd[co]}
             /\ at' = [at EXCEPT ![co] = "start"]
             /\ fd' = [fd EXCEPT ![co] = NoFd] /\ given' = [given EXCEPT ![co] = NoFd]
             /\ UNCHANGED <<ready, batch, alive>>

HookNext == \/ Accepted \/ CreateFails \/ EpollWait
            \/ \E co \in Coroutines :
                  \/ RunReady(co) \/ ResumeForEvent(co)
                  \/ Enter(co) \/ PollInner(co) \/ YieldInPoll(co) \/ AssertFails(co)
                  \/ ReturnFromPoll(co)
                  \/ CreateReader(co) \/ ReadArgument(co) \/ ClearBuffer(co)
                  \/ Received(co) \/ Leave(co)

HookSpec == HookInit /\ [][HookNext]_<<stackVars, hookVars>>
-----------------------------------------------------------------------------
(* Every reader serves the connection that it was created for: what its    *)
(* argument points to is read before server accepts the next.  For that    *)
(* clientfd must stay where it is meanwhile, as it does with "独立栈"       *)
(* (wlyCo/README.md:65), stacks of their own.                              *)
ReadersGetTheirClients ==
    \A co \in Readers : at[co] \notin {"start", "argument"} => fd[co] = given[co]
=============================================================================
