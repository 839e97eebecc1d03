------------------------ MODULE CoroutineCallProofs ------------------------
(***************************************************************************)
(* Of coroutines and what they call.                                       *)
(*   - For any number of coroutines and any size of the shared stack,      *)
(*     copies stay within their memory, and each coroutine sees a stack of *)
(*     its own.                                                            *)
(*   - For any number of readers and of descriptors, and whether or not    *)
(*     coroutines share their stack: a reader of hook_tcpserver.c has read *)
(*     its argument before server is resumed, whose clientfd is still what *)
(*     accept returned.  So the descriptor is lost only where that word is *)
(*     looked for on the wrong stack.                                      *)
(*   - For any number of callers, of descriptors and of bytes, a hooked    *)
(*     send sends a prefix of its buffer, and the calls on connections     *)
(*     look as if they blocked.                                            *)
(*   - For any number of tail queues and of elements, the macros keep each *)
(*     queue's links in its order.                                         *)
(***************************************************************************)
EXTENDS MCCoroutineCalls, SequenceTheorems, WellFoundedInduction, TLAPS

(* What relates a coroutine's state to the copy of its frames. *)
CopyOf(co) == /\ Len(saved[co]) = size[co]
              /\ status[co] # "READY" => size[co] = 0 /\ co # curr
              /\ status[co] = "READY" /\ co # curr => size[co] > 0

StackInv == /\ TypeOK /\ CopiesFit
            /\ \A co \in Coroutines : CopyOf(co)
            /\ curr # Null => depth > 0

LEMMA StackInvStep == StackInv /\ [Next]_vars => StackInv'
<1> SUFFICES ASSUME StackInv, [Next]_vars PROVE StackInv'
  OBVIOUS
<1> USE StackAssumption DEF StackInv, TypeOK, CopiesFit, CopyOf
<1>1. CASE UNCHANGED vars
  BY <1>1 DEF vars
<1>2. ASSUME NEW co \in Coroutines, Create(co) PROVE StackInv'
  BY <1>2 DEF Create
<1>3. ASSUME NEW co \in Coroutines, Start(co) PROVE StackInv'
  BY <1>3 DEF Start
<1>4. ASSUME NEW co \in Coroutines, Resume(co) PROVE StackInv'
  BY <1>4 DEF Resume
<1>5. CASE Call
  BY <1>5 DEF Call
<1>6. CASE Return
  BY <1>6 DEF Return
<1>7. CASE Assign
  BY <1>7 DEF Assign
<1>8. CASE Yield
  <2>1. [i \in 1..depth |-> mem[i]] \in Seq(Values)
    OBVIOUS
  <2>2. Len([i \in 1..depth |-> mem[i]]) = depth
    OBVIOUS
  <2> QED
    BY <1>8, <2>1, <2>2 DEF Yield
<1>9. CASE Exit
  BY <1>9 DEF Exit
<1> QED
  BY <1>1, <1>2, <1>3, <1>4, <1>5, <1>6, <1>7, <1>8, <1>9 DEF Next

(* The inductive invariant of the shared stack. *)
THEOREM StackInvariant == Spec => []StackInv
<1>1. Init => StackInv
  BY StackAssumption DEF Init, StackInv, TypeOK, CopiesFit, CopyOf
<1> QED
  BY <1>1, StackInvStep, PTL DEF Spec

(* The state of the shared stack is of its type. *)
COROLLARY TypeCorrect == Spec => []TypeOK
<1>1. StackInv => TypeOK
  BY DEF StackInv
<1> QED
  BY <1>1, StackInvariant, PTL

(* _save_stack and _load_stack copy within the memory of the copy, though    *)
(* stack_size forgets how much was allocated.                                *)
THEOREM CopiesStayInside == Spec => []CopiesFit
<1>1. StackInv => CopiesFit
  BY DEF StackInv
<1> QED
  BY <1>1, StackInvariant, PTL
-----------------------------------------------------------------------------
(* The frames of the running coroutine, as the stack it would have. *)
Frames == [i \in 1..depth |-> mem[i]]

LEMMA FramesAre ==
    ASSUME StackInv
    PROVE  Frames \in Seq(Values) /\ Len(Frames) = depth
BY StackAssumption DEF Frames, StackInv, TypeOK

(* Every step of the shared stack is a step of private ones, or none. *)
LEMMA PrivateStep ==
    StackInv /\ StackInv' /\ [Next]_vars => [Private!StacksNext]_(Private!stackVars)
<1> SUFFICES ASSUME StackInv, StackInv', [Next]_vars
             PROVE  \/ Private!StacksNext
                    \/ UNCHANGED <<StackOf, curr>>
  BY DEF Private!stackVars
<1> USE StackAssumption
<1>0. /\ Frames \in Seq(Values) /\ Len(Frames) = depth
      /\ curr # Null => depth > 0 /\ StackOf[curr] = Frames /\ curr \in Coroutines
      /\ \A co \in Coroutines : co # curr => StackOf[co] = saved[co]
  BY FramesAre DEF StackInv, TypeOK, StackOf, Frames
<1>1. CASE UNCHANGED vars
  BY <1>1 DEF vars, StackOf
<1>2. ASSUME NEW co \in Coroutines, Create(co) PROVE UNCHANGED <<StackOf, curr>>
  BY <1>2 DEF Create, StackOf
<1>3. ASSUME NEW co \in Coroutines, Start(co) PROVE Private!StacksNext
  <2>1. PICK v \in Values : mem' = [mem EXCEPT ![1] = v]
    BY <1>3 DEF Start
  <2>2. StackOf[co] = <<>>
    <3>1. saved[co] \in Seq(Values) /\ Len(saved[co]) = 0 /\ co # curr
      BY <1>3 DEF Start, StackInv, CopyOf, TypeOK
    <3> QED
      BY <1>0, <3>1
  <2>3. StackOf' = [StackOf EXCEPT ![co] = <<v>>]
    <3>1. [i \in 1..1 |-> mem'[i]] = <<v>>
      BY <2>1 DEF StackInv, TypeOK
    <3> QED
      BY <1>3, <3>1 DEF Start, StackOf, StackInv, TypeOK
  <2> QED
    BY <1>3, <2>2, <2>3 DEF Start, Private!StacksNext, Private!StartsWith
<1>4. ASSUME NEW co \in Coroutines, Resume(co) PROVE Private!StacksNext
  <2>1. size[co] > 0 /\ Len(saved[co]) = size[co] /\ saved[co] \in Seq(Values)
    BY <1>4 DEF Resume, StackInv, CopyOf, TypeOK
  <2>2. StackOf[co] = saved[co] /\ StackOf[co] # <<>>
    BY <1>0, <1>4, <2>1 DEF Resume
  <2>3. [i \in 1..size[co] |-> mem'[i]] = saved[co]
    BY <1>4, <2>1 DEF Resume, StackInv, TypeOK
  <2>4. UNCHANGED StackOf
    BY <1>4, <2>3 DEF Resume, StackOf, StackInv, TypeOK
  <2> QED
    BY <1>4, <2>2, <2>4 DEF Resume, Private!StacksNext, Private!Continues
<1>5. CASE Call
  <2>1. PICK v \in Values : mem' = [mem EXCEPT ![depth + 1] = v]
    BY <1>5 DEF Call
  <2>2. Frames' = Append(Frames, v)
    BY <1>0, <1>5, <2>1 DEF Call, Frames, StackInv, TypeOK
  <2>3. StackOf' = [StackOf EXCEPT ![curr] = Append(StackOf[curr], v)]
    BY <1>0, <1>5, <2>2 DEF Call, StackOf, Frames
  <2> QED
    BY <1>5, <2>3 DEF Call, Private!StacksNext, Private!Works, Private!Calls, Private!SetStack
<1>6. CASE Return
  <2>1. Frames' = SubSeq(Frames, 1, Len(Frames) - 1)
    BY <1>0, <1>6 DEF Return, Frames, StackInv, TypeOK
  <2>2. StackOf' = [StackOf EXCEPT ![curr] = SubSeq(StackOf[curr], 1, Len(StackOf[curr]) - 1)]
    BY <1>0, <1>6, <2>1 DEF Return, StackOf, Frames
  <2> QED
    BY <1>0, <1>6, <2>2 DEF Return, Private!StacksNext, Private!Works, Private!Returns,
                            Private!SetStack
<1>7. CASE Assign
  <2>1. PICK i \in 1..depth, v \in Values : mem' = [mem EXCEPT ![i] = v]
    BY <1>7 DEF Assign
  <2>2. Frames' = [Frames EXCEPT ![i] = v]
    <3>1. \A j \in 1..depth : mem'[j] = IF j = i THEN v ELSE mem[j]
      BY <2>1 DEF StackInv, TypeOK
    <3>2. Frames' = [j \in 1..depth |-> mem'[j]]
      BY <1>7 DEF Assign, Frames
    <3> QED
      BY <3>1, <3>2 DEF Frames
  <2>3. StackOf' = [StackOf EXCEPT ![curr] = [StackOf[curr] EXCEPT ![i] = v]]
    BY <1>0, <1>7, <2>2 DEF Assign, StackOf, Frames
  <2>4. i \in 1..Len(StackOf[curr])
    BY <1>0, <1>7 DEF Assign
  <2> QED
    BY <1>7, <2>3, <2>4 DEF Assign, Private!StacksNext, Private!Works, Private!Assigns,
                            Private!SetStack
<1>8. CASE Yield
  <2>1. UNCHANGED StackOf
    BY <1>0, <1>8 DEF Yield, StackOf, Frames, StackInv, TypeOK
  <2> QED
    BY <1>8, <2>1 DEF Yield, Private!StacksNext, Private!Suspends
<1>9. CASE Exit
  <2>1. StackOf' = [StackOf EXCEPT ![curr] = <<>>]
    BY <1>0, <1>9 DEF Exit, StackOf, StackInv, TypeOK
  <2> QED
    BY <1>9, <2>1 DEF Exit, Private!StacksNext, Private!Ends, Private!SetStack
<1> QED
  BY <1>1, <1>2, <1>3, <1>4, <1>5, <1>6, <1>7, <1>8, <1>9 DEF Next

(* The shared stack implements private stacks: copying out and in loses no   *)
(* word of any coroutine, however deep the others went in the meantime.      *)
THEOREM SharedImplementsPrivate == Spec => ImplementsPrivateStacks
<1>1. Init => Private!StacksInit
  BY StackAssumption DEF Init, Private!StacksInit, StackOf
<1> QED
  BY <1>1, StackInvariant, PrivateStep, PTL
     DEF Spec, ImplementsPrivateStacks, Private!StacksSpec
-----------------------------------------------------------------------------
(* Where a coroutine is in its function: a reader or server, and how deep  *)
(* its frames are there.                                                   *)
Places(co) == {"start", "call", "poll", "wait", "woken"}
                 \cup (IF co = Server THEN {"create"} ELSE {"argument", "clear"})

Depths(place) == IF place = "start" THEN {1}
                 ELSE IF place = "poll" THEN {3}
                 ELSE IF place = "woken" THEN {2, 3} ELSE {2}

HookTyped == /\ at \in [Coroutines -> {"start", "call", "poll", "wait", "woken",
                                       "create", "argument", "clear"}]
             /\ \A co \in Coroutines : at[co] \in Places(co)
             /\ fd \in [Coroutines -> Fds \cup {NoFd, Data, Listener}]
             /\ given \in [Coroutines -> Fds \cup {NoFd, Data, Listener}]
             /\ batch \subseteq Coroutines

(* Who runs is where its frames say, who was run and does not waits, and   *)
(* all others are at their start.                                          *)
Placed == \A co \in Coroutines :
            /\ co = curr => at[co] # "wait" /\ depth \in Depths(at[co])
            /\ co # curr => at[co] = IF status[co] = "READY" THEN "wait" ELSE "start"
            /\ co # curr /\ status[co] = "READY" => size[co] = 3
            /\ co \in batch => at[co] = "wait"

(* server creates one reader each time it is resumed, so there is at most  *)
(* one in the ready queue.                                                 *)
OneReady == /\ ready \in Seq(Coroutines)
            /\ ready # <<>> => Len(ready) = 1 /\ status[ready[1]] = "NEW" /\ ready[1] # curr

(* A reader that was created and has not read its argument *)
Fresh(co) == /\ co \in Readers
             /\ \/ ready # <<>> /\ ready[1] = co
                \/ curr = co /\ at[co] \in {"start", "argument"}

(* Until it has, server is not resumed, and clientfd is what accept        *)
(* returned for it.                                                        *)
ArgumentStays ==
    /\ Server \in batch \/ at[Server] \in {"woken", "create"} => \A co \in Coroutines : ~Fresh(co)
    /\ \A co \in Coroutines : Fresh(co) =>
         /\ at[Server] \in {"call", "poll", "wait"}
         /\ given[co] = IF curr = Server THEN mem[Clientfd] ELSE saved[Server][Clientfd]

(* With stacks of their own readers serve their clients. *)
OwnStacksServe == OneStack = FALSE => ReadersGetTheirClients

HookInv == StackInv /\ HookTyped /\ Placed /\ OneReady /\ ArgumentStays /\ OwnStacksServe

hvars == <<stackVars, hookVars>>

(* Every step of the server and its readers is a step of the shared stack. *)
LEMMA HookStepIsStackStep ==
  ASSUME [HookNext]_hvars
  PROVE  [Next]_vars
<1> USE DEF vars, stackVars
<1>1. CASE UNCHANGED hvars
  BY <1>1 DEF hvars
<1>2. CASE Accepted
  BY <1>2 DEF Accepted, Next
<1>3. CASE CreateFails \/ EpollWait
  BY <1>3 DEF CreateFails, EpollWait
<1>4. ASSUME NEW co \in Coroutines, RunReady(co) \/ ResumeForEvent(co) \/ CreateReader(co)
      PROVE  Next
  BY <1>4 DEF RunReady, ResumeForEvent, CreateReader, Next
<1>5. ASSUME NEW co \in Coroutines,
             \/ Enter(co) \/ PollInner(co) \/ YieldInPoll(co) \/ ReturnFromPoll(co)
             \/ ClearBuffer(co) \/ Leave(co)
      PROVE  Next
  BY <1>5 DEF Enter, PollInner, YieldInPoll, ReturnFromPoll, ClearBuffer, Leave, Next
<1>6. ASSUME NEW co \in Coroutines, AssertFails(co) \/ ReadArgument(co) \/ Received(co)
      PROVE  UNCHANGED vars
  BY <1>6 DEF AssertFails, ReadArgument, Received
<1> QED
  BY <1>1, <1>2, <1>3, <1>4, <1>5, <1>6 DEF HookNext

(* The scheduler's steps *)
LEMMA RunReadyKeeps ==
  ASSUME HookInv, StackInv', NEW co \in Coroutines, RunReady(co)
  PROVE  HookInv'
<1> USE FramesAssumption, StackAssumption
<1>1. /\ ready = <<co>> /\ ready' = <<>> /\ batch = {} /\ curr = Null /\ curr' = co /\ depth' = 1
      /\ status[co] = "NEW" /\ status' = [status EXCEPT ![co] = "READY"]
      /\ UNCHANGED <<at, fd, given, batch, size, saved>>
  BY DEF HookInv, OneReady, RunReady, Start
<1>2. HookTyped'
  BY <1>1 DEF HookInv, HookTyped, Places
<1>3. Placed'
  BY <1>1 DEF HookInv, Placed, StackInv, TypeOK, Depths
<1>4. OneReady'
  BY <1>1 DEF HookInv, OneReady
<1>5. ArgumentStays'
  BY <1>1 DEF HookInv, ArgumentStays, Fresh, HookTyped, Placed, StackInv, TypeOK
<1>6. OwnStacksServe'
  BY <1>1 DEF HookInv, OwnStacksServe, ReadersGetTheirClients
<1> QED
  BY <1>2, <1>3, <1>4, <1>5, <1>6 DEF HookInv

LEMMA EpollWaitKeeps ==
  ASSUME HookInv, StackInv', EpollWait
  PROVE  HookInv'
<1> USE FramesAssumption, StackAssumption
<1>1. /\ curr = Null /\ ready = <<>> /\ ready' = <<>> /\ batch' \subseteq Waiting
      /\ UNCHANGED <<stackVars, at, fd, given>>
  BY DEF EpollWait
<1>2. HookTyped' /\ Placed'
  BY <1>1 DEF HookInv, HookTyped, Placed, Places, Depths, Waiting, stackVars
<1>3. OneReady' /\ ArgumentStays' /\ OwnStacksServe'
  BY <1>1 DEF HookInv, OneReady, ArgumentStays, Fresh, OwnStacksServe, ReadersGetTheirClients, Readers, stackVars
<1> QED
  BY <1>2, <1>3 DEF HookInv

LEMMA ResumeKeeps ==
  ASSUME HookInv, StackInv', NEW co \in Coroutines, ResumeForEvent(co)
  PROVE  HookInv'
<1> USE FramesAssumption, StackAssumption
<1>1. /\ curr = Null /\ curr' = co /\ depth' = size[co] /\ status[co] = "READY"
      /\ co \in batch /\ batch' = batch \ {co} /\ at' = [at EXCEPT ![co] = "woken"]
      /\ UNCHANGED <<fd, given, ready, status, size, saved>>
  BY DEF ResumeForEvent, Resume, Goto
<1>2. HookTyped'
  BY <1>1 DEF HookInv, HookTyped, Places
<1>3. Placed'
  BY <1>1 DEF HookInv, Placed, StackInv, TypeOK, Depths, HookTyped
<1>4. OneReady'
  BY <1>1 DEF HookInv, OneReady
<1>5. ArgumentStays'
  BY <1>1 DEF HookInv, ArgumentStays, Fresh, HookTyped, Placed, Readers
<1>6. OwnStacksServe'
  BY <1>1 DEF HookInv, OwnStacksServe, ReadersGetTheirClients, Placed, HookTyped, Readers
<1> QED
  BY <1>2, <1>3, <1>4, <1>5, <1>6 DEF HookInv

LEMMA EnterKeeps ==
  ASSUME HookInv, StackInv', NEW co \in Coroutines, Enter(co)
  PROVE  HookInv'
<1> USE FramesAssumption, StackAssumption
<1>1. /\ curr = co /\ at[co] = "start" /\ depth' = depth + 1
      /\ at' = [at EXCEPT ![co] = IF co = Server THEN "call" ELSE "argument"]
      /\ UNCHANGED <<mem, fd, given, batch, ready, curr, status, size, saved>>
  BY DEF Enter, Running, Goto, Call
<1>2. HookTyped'
  BY <1>1 DEF HookInv, HookTyped, Places
<1>3. Placed'
  BY <1>1 DEF HookInv, Placed, Depths, HookTyped
<1>4. OneReady'
  BY <1>1 DEF HookInv, OneReady
<1>5. ArgumentStays'
  BY <1>1 DEF HookInv, ArgumentStays, Fresh, HookTyped, Readers
<1>6. OwnStacksServe'
  BY <1>1 DEF HookInv, OwnStacksServe, ReadersGetTheirClients, HookTyped, Readers
<1> QED
  BY <1>2, <1>3, <1>4, <1>5, <1>6 DEF HookInv

LEMMA PollInnerKeeps ==
  ASSUME HookInv, StackInv', NEW co \in Coroutines, PollInner(co)
  PROVE  HookInv'
<1> USE FramesAssumption, StackAssumption
<1>1. /\ curr = co /\ at[co] = "call" /\ depth' = depth + 1 /\ mem' = [mem EXCEPT ![3] = Data]
      /\ at' = [at EXCEPT ![co] = "poll"]
      /\ UNCHANGED <<fd, given, batch, ready, curr, status, size, saved>>
  BY DEF PollInner, Running, Goto, Call, Set
<1>2. HookTyped'
  BY <1>1 DEF HookInv, HookTyped, Places
<1>3. Placed'
  BY <1>1 DEF HookInv, Placed, Depths, HookTyped
<1>4. OneReady'
  BY <1>1 DEF HookInv, OneReady
<1>5. ArgumentStays'
  <2>1. mem'[Clientfd] = mem[Clientfd]
    BY <1>1 DEF HookInv, StackInv, TypeOK, Clientfd
  <2> QED
    BY <1>1, <2>1 DEF HookInv, ArgumentStays, Fresh, HookTyped, Readers
<1>6. OwnStacksServe'
  BY <1>1 DEF HookInv, OwnStacksServe, ReadersGetTheirClients, HookTyped, Readers
<1> QED
  BY <1>2, <1>3, <1>4, <1>5, <1>6 DEF HookInv

LEMMA YieldKeeps ==
  ASSUME HookInv, StackInv', NEW co \in Coroutines, YieldInPoll(co)
  PROVE  HookInv'
<1> USE FramesAssumption, StackAssumption
<1>1. /\ curr = co /\ at[co] = "poll" /\ curr' = Null /\ depth' = 0 /\ depth = 3
      /\ at' = [at EXCEPT ![co] = "wait"] /\ size' = [size EXCEPT ![co] = 3]
      /\ saved' = [saved EXCEPT ![co] = [i \in 1..depth |-> mem[i]]]
      /\ UNCHANGED <<fd, given, batch, ready, status>>
  BY DEF YieldInPoll, Running, Goto, Yield, HookInv, Placed, Depths
<1>2. HookTyped'
  BY <1>1 DEF HookInv, HookTyped, Places
<1>3. Placed'
  BY <1>1 DEF HookInv, Placed, Depths, HookTyped, StackInv, CopyOf, TypeOK
<1>4. OneReady'
  BY <1>1 DEF HookInv, OneReady, StackInv, CopyOf
<1>5. ArgumentStays'
  <2>1. co = Server => saved'[Server][Clientfd] = mem[Clientfd]
    BY <1>1 DEF HookInv, StackInv, TypeOK, Clientfd
  <2>2. co # Server => saved'[Server] = saved[Server]
    BY <1>1 DEF HookInv, StackInv, TypeOK
  <2> QED
    BY <1>1, <2>1, <2>2 DEF HookInv, ArgumentStays, Fresh, HookTyped, Readers
<1>6. OwnStacksServe'
  BY <1>1 DEF HookInv, OwnStacksServe, ReadersGetTheirClients, HookTyped, Readers
<1> QED
  BY <1>2, <1>3, <1>4, <1>5, <1>6 DEF HookInv

LEMMA ReturnKeeps ==
  ASSUME HookInv, StackInv', NEW co \in Coroutines, ReturnFromPoll(co)
  PROVE  HookInv'
<1> USE FramesAssumption, StackAssumption
<1>1. /\ curr = co /\ at[co] = "woken" /\ depth = 3 /\ depth' = 2
      /\ UNCHANGED <<at, mem, fd, given, batch, ready, curr, status, size, saved>>
  BY DEF ReturnFromPoll, Running, Return, hookVars
<1> QED
  BY <1>1 DEF HookInv, HookTyped, Placed, OneReady, ArgumentStays, OwnStacksServe, ReadersGetTheirClients,
              Places, Depths, Fresh, Readers
-----------------------------------------------------------------------------
(* The server's and the readers' steps *)
LEMMA AcceptedKeeps ==
  ASSUME HookInv, StackInv', Accepted
  PROVE  HookInv'
<1> USE FramesAssumption, StackAssumption
<1>1. /\ curr = Server /\ at[Server] = "woken" /\ depth = 2
      /\ at' = [at EXCEPT ![Server] = "create"]
      /\ UNCHANGED <<depth, fd, given, batch, ready, curr, status, size, saved>>
  BY DEF Accepted, InFunction, Running, Goto, Assign
<1>2. HookTyped'
  BY <1>1 DEF HookInv, HookTyped, Places
<1>3. Placed'
  BY <1>1 DEF HookInv, Placed, Depths, HookTyped
<1>4. OneReady'
  BY <1>1 DEF HookInv, OneReady
<1>5. ArgumentStays'
  BY <1>1 DEF HookInv, ArgumentStays, Fresh, HookTyped, Readers
<1>6. OwnStacksServe'
  BY <1>1 DEF HookInv, OwnStacksServe, ReadersGetTheirClients, HookTyped, Readers
<1> QED
  BY <1>2, <1>3, <1>4, <1>5, <1>6 DEF HookInv

LEMMA CreateReaderKeeps ==
  ASSUME HookInv, StackInv', NEW co \in Coroutines, CreateReader(co)
  PROVE  HookInv'
<1> USE FramesAssumption, StackAssumption
<1>1. /\ curr = Server /\ at[Server] = "create" /\ depth = 2 /\ co \in Readers
      /\ status[co] = "none" /\ status' = [status EXCEPT ![co] = "NEW"]
      /\ ready' = Append(ready, co) /\ given' = [given EXCEPT ![co] = mem[Clientfd]]
      /\ at' = [at EXCEPT ![Server] = "call", ![co] = "start"]
      /\ UNCHANGED <<mem, depth, fd, batch, curr, size, saved>>
  BY DEF CreateReader, InFunction, Running, Create
<1>2. ready' = <<co>> /\ ready = <<>> /\ co # Server
  <2>1. ready = <<>>
    BY <1>1 DEF HookInv, ArgumentStays, OneReady, Fresh, Readers
  <2> QED
    BY <1>1, <2>1 DEF Readers
<1>3. mem[Clientfd] \in Values
  BY DEF HookInv, StackInv, TypeOK, Clientfd
<1>4. HookTyped'
  BY <1>1, <1>2, <1>3 DEF HookInv, HookTyped, Places
<1>5. Placed'
  BY <1>1, <1>2 DEF HookInv, Placed, Depths, HookTyped, StackInv, TypeOK
<1>6. OneReady'
  BY <1>1, <1>2 DEF HookInv, OneReady, StackInv, TypeOK
<1>7. ArgumentStays'
  BY <1>1, <1>2 DEF HookInv, ArgumentStays, Fresh, HookTyped, Readers, Placed
<1>8. OwnStacksServe'
  BY <1>1, <1>2 DEF HookInv, OwnStacksServe, ReadersGetTheirClients, HookTyped, Readers
<1> QED
  BY <1>4, <1>5, <1>6, <1>7, <1>8 DEF HookInv

LEMMA CreateFailsKeeps ==
  ASSUME HookInv, StackInv', CreateFails
  PROVE  HookInv'
<1> USE FramesAssumption, StackAssumption
<1>1. /\ curr = Server /\ at[Server] = "create" /\ depth = 2
      /\ at' = [at EXCEPT ![Server] = "call"]
      /\ UNCHANGED <<mem, depth, fd, given, ready, batch, curr, status, size, saved>>
  BY DEF CreateFails, InFunction, Running, Goto, stackVars
<1> QED
  BY <1>1 DEF HookInv, HookTyped, Placed, OneReady, ArgumentStays, OwnStacksServe, ReadersGetTheirClients,
              Places, Depths, Fresh, Readers

(* A reader reads its argument, with stacks of their own from the copy of   *)
(* the server's, and else from the one stack.                              *)
LEMMA ReadArgumentKeeps ==
  ASSUME HookInv, StackInv', NEW co \in Coroutines, ReadArgument(co)
  PROVE  HookInv'
<1> USE FramesAssumption, StackAssumption
<1>1. /\ curr = co /\ at[co] = "argument" /\ depth = 2 /\ co \in Readers
      /\ fd' = [fd EXCEPT ![co] = Pointee]
      /\ at' = [at EXCEPT ![co] = "clear"]
      /\ UNCHANGED <<mem, depth, given, ready, batch, curr, status, size, saved>>
  BY DEF ReadArgument, InFunction, Running, Goto, stackVars, HookInv, HookTyped,
         Places, Readers
<1>2. /\ given[co] = saved[Server][Clientfd] /\ given[co] \in Fds \cup {NoFd, Data, Listener}
      /\ mem[Clientfd] \in Values
  BY <1>1 DEF HookInv, ArgumentStays, Fresh, Readers, HookTyped, StackInv, TypeOK, Clientfd
<1>0. Pointee \in Fds \cup {NoFd, Data, Listener} /\ (OneStack = FALSE => Pointee = given[co])
  BY <1>2 DEF Pointee
<1>3. HookTyped'
  BY <1>0, <1>1, <1>2 DEF HookInv, HookTyped, Places, Readers
<1>4. Placed'
  BY <1>1 DEF HookInv, Placed, Depths, HookTyped
<1>5. OneReady'
  BY <1>1 DEF HookInv, OneReady
<1>6. ArgumentStays'
  BY <1>1 DEF HookInv, ArgumentStays, Fresh, HookTyped, Readers
<1>7. OwnStacksServe'
  BY <1>0, <1>1, <1>2 DEF HookInv, OwnStacksServe, ReadersGetTheirClients, HookTyped, Readers
<1> QED
  BY <1>3, <1>4, <1>5, <1>6, <1>7 DEF HookInv

LEMMA ReaderKeeps ==
  ASSUME HookInv, StackInv', NEW co \in Coroutines, ClearBuffer(co) \/ Received(co)
  PROVE  HookInv'
<1> USE FramesAssumption, StackAssumption
<1>1. PICK place \in {"clear", "call"} : at' = [at EXCEPT ![co] = place]
  BY DEF ClearBuffer, Received, Goto
<1>2. /\ curr = co /\ at[co] \in {"clear", "woken"} /\ depth = 2 /\ co \in Readers
      /\ UNCHANGED <<depth, fd, given, ready, batch, curr, status, size, saved>>
  BY DEF ClearBuffer, Received, InFunction, Running, Assign, stackVars, HookInv, HookTyped,
         Places, Readers
<1>3. HookTyped'
  BY <1>1, <1>2 DEF HookInv, HookTyped, Places, Readers
<1>4. Placed'
  BY <1>1, <1>2 DEF HookInv, Placed, Depths, HookTyped
<1>5. OneReady'
  BY <1>2 DEF HookInv, OneReady
<1>6. ArgumentStays'
  BY <1>1, <1>2 DEF HookInv, ArgumentStays, Fresh, HookTyped, Readers
<1>7. OwnStacksServe'
  BY <1>1, <1>2 DEF HookInv, OwnStacksServe, ReadersGetTheirClients, HookTyped, Readers
<1> QED
  BY <1>3, <1>4, <1>5, <1>6, <1>7 DEF HookInv

LEMMA LeaveKeeps ==
  ASSUME HookInv, StackInv', NEW co \in Coroutines, Leave(co)
  PROVE  HookInv'
<1> USE FramesAssumption, StackAssumption
<1>1. /\ curr = co /\ curr' = Null /\ depth' = 0 /\ at[co] = "woken" /\ co \in Readers
      /\ status' = [status EXCEPT ![co] = "none"] /\ size' = [size EXCEPT ![co] = 0]
      /\ saved' = [saved EXCEPT ![co] = <<>>]
      /\ at' = [at EXCEPT ![co] = "start"]
      /\ fd' = [fd EXCEPT ![co] = NoFd] /\ given' = [given EXCEPT ![co] = NoFd]
      /\ UNCHANGED <<ready, batch>>
  BY DEF Leave, InFunction, Running, Exit
<1>2. HookTyped'
  BY <1>1 DEF HookInv, HookTyped, Places
<1>3. Placed'
  BY <1>1 DEF HookInv, Placed, Depths, HookTyped, StackInv, TypeOK
<1>4. OneReady'
  BY <1>1 DEF HookInv, OneReady, StackInv, TypeOK
<1>5. ArgumentStays'
  BY <1>1 DEF HookInv, ArgumentStays, Fresh, HookTyped, Readers, StackInv, TypeOK, OneReady
<1>6. OwnStacksServe'
  BY <1>1 DEF HookInv, OwnStacksServe, ReadersGetTheirClients, HookTyped, Readers
<1> QED
  BY <1>2, <1>3, <1>4, <1>5, <1>6 DEF HookInv
-----------------------------------------------------------------------------
LEMMA HookInvStep ==
  ASSUME HookInv, [HookNext]_hvars
  PROVE  HookInv'
<1>1. StackInv'
  BY HookStepIsStackStep, StackInvStep DEF HookInv
<1>2. CASE UNCHANGED hvars
  BY <1>1, <1>2 DEF HookInv, HookTyped, Placed, OneReady, ArgumentStays, OwnStacksServe, ReadersGetTheirClients,
              Places, Depths, Fresh, hvars, stackVars, hookVars
<1>3. ASSUME NEW co \in Coroutines, AssertFails(co) PROVE HookInv'
  BY <1>1, <1>3 DEF AssertFails, HookInv, HookTyped, Placed, OneReady, ArgumentStays,
              OwnStacksServe, ReadersGetTheirClients, Places, Depths, Fresh, stackVars
<1> QED
  BY <1>1, <1>2, <1>3, RunReadyKeeps, EpollWaitKeeps, ResumeKeeps, EnterKeeps, PollInnerKeeps,
     YieldKeeps, ReturnKeeps, AcceptedKeeps, CreateReaderKeeps, CreateFailsKeeps,
     ReadArgumentKeeps, ReaderKeeps, LeaveKeeps DEF HookNext

LEMMA HookInvInit == HookInit => HookInv
<1> SUFFICES ASSUME HookInit PROVE HookInv
  OBVIOUS
<1> USE FramesAssumption, StackAssumption
<1>1. StackInv
  BY DEF HookInit, StackInv, TypeOK, CopiesFit, CopyOf
<1>2. ready \in Seq(Coroutines) /\ Len(ready) = 1 /\ ready[1] = Server
  BY DEF HookInit
<1>3. HookTyped /\ Placed
  BY DEF HookInit, HookTyped, Placed, Places
<1>4. OneReady
  BY <1>2 DEF HookInit, OneReady
<1>5. ArgumentStays /\ OwnStacksServe
  BY <1>2 DEF HookInit, ArgumentStays, OwnStacksServe, ReadersGetTheirClients, Fresh, Readers
<1> QED
  BY <1>1, <1>3, <1>4, <1>5 DEF HookInv

(* The inductive invariant of the server and its readers, in either build:  *)
(* until a reader has read its argument server is not resumed, and its      *)
(* variable clientfd has, in its own frames or in their copy, the reader's  *)
(* descriptor.  With stacks of their own readers get it; on the one stack   *)
(* the address is another's by then, as a run shows.                       *)
THEOREM HookInvariant == HookSpec => []HookInv
<1>1. HookInv /\ [HookNext]_hvars => HookInv'
  BY HookInvStep
<1> QED
  BY <1>1, HookInvInit, PTL DEF HookSpec, hvars
-----------------------------------------------------------------------------
Ops    == {"none", "accept", "connect", "recv", "recvfrom", "send", "sendto", "nty_sendto"}
States == {"free", "new", "leaked", "listening", "connecting", "answered", "refused",
           "connected", "dgram"}

Errnos == {"none", "fcntl", "EMFILE", "EAGAIN", "EALREADY", "ENETUNREACH", "ECONNREFUSED",
           "ECONNRESET"}

Records == [at : {"idle", "poll", "wait", "try", "call"}, op : Ops, fd : CallFds \cup {0},
            len : Nat, sent : Nat, took : Seq(Nat), ret : Int, errno : Errnos]
Sockets == {s \in [state : States, nonblock : BOOLEAN, unread : 0..Room, avail : BOOLEAN,
                   fin : BOOLEAN, rst : {"none", "pending", "reported"}] :
               s.rst # "none" => s.state = "connected"}

CallsTyped    == calls \in [Callers -> Records]
SocketsTyped  == sock \in [CallFds -> Sockets]
InterestTyped == interest \in [CallFds -> {{}, {"in"}, {"out"}}]

(* A call that goes on has no error yet, and a send has a prefix of its    *)
(* buffer behind it, none of it while it tries.                            *)
SendsInv == /\ \A c \in Callers : calls[c].at # "idle" => calls[c].errno = "none"
            /\ \A c \in Callers : calls[c].at = "try" => calls[c].op = "send" /\ calls[c].sent = 0
            /\ SendsAPrefix

(* The states that a descriptor may be in during a call. *)
During(op) == IF op = "accept" THEN {"listening"}
              ELSE IF op = "connect" THEN {"new", "connecting", "answered", "refused"}
              ELSE IF op \in {"recv", "send"} THEN {"connected"}
              ELSE IF op = "none" THEN {} ELSE {"dgram"}

InItsState == \A c \in Callers : Hooks!InCall(c) =>
                 calls[c].fd \in CallFds /\ sock[calls[c].fd].state \in During(calls[c].op)

(* A descriptor has one call, and epoll watches it while that waits, for   *)
(* what it waits for.                                                      *)
OneCallEach ==
    /\ \A c, d \in Callers :
          Hooks!InCall(c) /\ Hooks!InCall(d) /\ calls[c].fd = calls[d].fd => c = d
    /\ \A c \in Callers : calls[c].at = "wait" =>
          interest[calls[c].fd] = Hooks!Wanted(calls[c].op)
    /\ \A f \in CallFds : interest[f] # {} =>
          \E c \in Callers : calls[c].at = "wait" /\ calls[c].fd = f

(* What the event that resumed a call reported is still so. *)
EventIsTrue ==
    \A c \in Callers : calls[c].at = "call" =>
        LET f == calls[c].fd IN
        /\ calls[c].op = "connect" => sock[f].state # "connecting"
        /\ calls[c].op = "recv" => Hooks!Readable(f)
        /\ calls[c].op = "send" => sock[f].unread < Room \/ Hooks!Broken(f)

CallsInv == /\ CallsTyped /\ SocketsTyped /\ InterestTyped
            /\ SendsInv /\ InItsState /\ OneCallEach /\ EventIsTrue

(* The natural numbers are well-founded, so a set of them has a least. *)
LEMMA LeastNatural ==
  ASSUME NEW T, T \subseteq Nat, T # {}
  PROVE  \E x \in T : \A y \in T : x =< y
<1>1. PICK x \in T : \A y \in T : ~(<<y, x>> \in OpToRel(<, Nat))
  BY NatLessThanWellFounded, WFMin, Zenon
<1>2. ASSUME NEW y \in T, y < x
      PROVE  <<y, x>> \in OpToRel(<, Nat)
  BY <1>2, Zenon DEF OpToRel
<1>3. \A y \in T : ~(y < x)
  BY <1>1, <1>2
<1> QED
  BY <1>3

(* A new descriptor is one that was not in use. *)
LEMMA LowestIsUnused ==
  ASSUME Hooks!Unused # {}
  PROVE  Hooks!Lowest \in CallFds /\ sock[Hooks!Lowest].state = "free"
<1>1. Hooks!Unused \subseteq Nat
  BY CallsAssumption DEF Hooks!Unused
<1>2. \E x \in Hooks!Unused : \A y \in Hooks!Unused : x =< y
  BY <1>1, LeastNatural
<1>3. Hooks!Lowest \in Hooks!Unused
  BY <1>2 DEF Hooks!Lowest, Hooks!Min
<1> QED
  BY <1>3 DEF Hooks!Unused

(* The peers and the network change nothing that a call relies on. *)
LEMMA EnvironmentKeeps ==
  ASSUME CallsInv, NEW f \in CallFds, Hooks!Environment(f)
  PROVE  CallsInv'
<1> USE CallsAssumption
<1> DEFINE s == sock[f]
<1>0. s \in Sockets
  BY DEF CallsInv, SocketsTyped
<1> USE <1>0 DEF Sockets, States
<1>1. PICK new \in Sockets :
         /\ Hooks!Peer(f, new)
         /\ \/ new.state = s.state
            \/ s.state = "connecting" /\ new.state \in {"answered", "refused"}
         /\ s.avail \/ s.fin \/ s.rst # "none" =>
               s.state # "connected" \/ new.avail \/ new.fin \/ new.rst # "none"
         /\ new.unread <= s.unread
         /\ s.rst # "none" => new.rst # "none"
  <2>1. CASE Hooks!Arrives(f)
    <3> WITNESS [s EXCEPT !.avail = TRUE] \in Sockets
    <3> QED
      BY <2>1 DEF Hooks!Arrives, Sockets
  <2>2. CASE Hooks!GoesAway(f)
    <3> WITNESS [s EXCEPT !.avail = FALSE] \in Sockets
    <3> QED
      BY <2>2 DEF Hooks!GoesAway, Sockets
  <2>3. CASE Hooks!Drains(f)
    <3> WITNESS [s EXCEPT !.unread = 0] \in Sockets
    <3> QED
      BY <2>3 DEF Hooks!Drains, Sockets
  <2>4. CASE Hooks!Ends(f)
    <3> WITNESS [s EXCEPT !.fin = TRUE] \in Sockets
    <3> QED
      BY <2>4 DEF Hooks!Ends, Sockets
  <2>5. CASE Hooks!Resets(f)
    <3> DEFINE broken == [s EXCEPT !.rst = "pending"]
               ended  == [broken EXCEPT !.fin = FALSE]
    <3>1. broken \in Sockets /\ broken.rst = "pending" /\ broken.state = s.state
          /\ broken.unread = s.unread
      BY <2>5 DEF Hooks!Resets
    <3> HIDE DEF broken
    <3>2. ended \in Sockets /\ ended.rst = "pending" /\ ended.state = s.state
          /\ ended.unread = s.unread
      BY <3>1
    <3> HIDE DEF ended
    <3>3. [ended EXCEPT !.unread = 0] \in Sockets
      BY <3>2
    <3>4. [ended EXCEPT !.unread = 0]
             = [s EXCEPT !.rst = "pending", !.fin = FALSE, !.unread = 0]
      BY DEF ended, broken
    <3> WITNESS [ended EXCEPT !.unread = 0] \in Sockets
    <3> QED
      BY <2>5, <3>2, <3>4 DEF Hooks!Resets
  <2>6. CASE Hooks!Answers(f)
    <3>1. PICK answer \in {"answered", "refused"} :
             Hooks!Peer(f, [sock[f] EXCEPT !.state = answer])
      BY <2>6 DEF Hooks!Answers
    <3> WITNESS [s EXCEPT !.state = answer] \in Sockets
    <3> QED
      BY <2>6, <3>1 DEF Hooks!Answers
  <2> QED
    BY <2>1, <2>2, <2>3, <2>4, <2>5, <2>6 DEF Hooks!Environment
<1> USE DEF CallsInv
<1>2. UNCHANGED <<calls, interest>> /\ sock' = [sock EXCEPT ![f] = new]
  BY <1>1 DEF Hooks!Peer
<1>3. CallsTyped' /\ SocketsTyped' /\ InterestTyped'
  BY <1>2 DEF CallsTyped, SocketsTyped, InterestTyped
<1>4. SendsInv' /\ OneCallEach'
  BY <1>2 DEF SendsInv, SendsAPrefix, Hooks!SendsAPrefix, OneCallEach, Hooks!InCall
<1>5. InItsState'
  BY <1>1, <1>2 DEF InItsState, SocketsTyped, During, Hooks!InCall
<1>6. EventIsTrue'
  BY <1>1, <1>2 DEF EventIsTrue, InItsState, SocketsTyped, During, Hooks!InCall,
     Hooks!Readable, Hooks!HangUp, Hooks!Broken
<1> QED
  BY <1>3, <1>4, <1>5, <1>6

(* A coroutine's step leaves the other calls alone, and what they rely on,  *)
(* when it changes a socket in no call but its own, or one that was free.   *)
LEMMA OwnStep ==
  ASSUME CallsInv, SocketsTyped', UNCHANGED interest,
         NEW c \in Callers, NEW s \in Records, calls' = [calls EXCEPT ![c] = s],
         calls[c].at # "wait", s.at \in {"idle", "poll", "try"},
         s.at # "idle" => s.errno = "none",
         s.at # "idle" => /\ s.fd \in CallFds /\ sock'[s.fd].state \in During(s.op)
                          /\ \/ Hooks!InCall(c) /\ s.fd = calls[c].fd
                             \/ ~Hooks!Busy(s.fd),
         s.at = "try" => s.op = "send" /\ s.sent = 0,
         s.op = "send" => /\ s.took = [i \in 1..s.sent |-> i]
                          /\ s.at = "idle" /\ s.ret >= 0 => s.ret = s.sent,
         \A g \in CallFds : \/ sock[g].state = "free" \/ sock'[g] = sock[g]
                            \/ g = calls[c].fd /\ Hooks!InCall(c)
                            \/ ~Hooks!Busy(g)
  PROVE  CallsInv'
<1> USE CallsAssumption DEF CallsInv
<1>1. CallsTyped' /\ InterestTyped'
  BY DEF CallsTyped, InterestTyped
<1>2. \A d \in Callers : calls'[d] = IF d = c THEN s ELSE calls[d]
  BY DEF CallsTyped
<1>3. SendsInv'
  <2> SUFFICES ASSUME NEW d \in Callers
               PROVE  /\ calls'[d].at # "idle" => calls'[d].errno = "none"
                      /\ calls'[d].at = "try" => calls'[d].op = "send" /\ calls'[d].sent = 0
                      /\ calls'[d].op = "send" =>
                           /\ calls'[d].took = [i \in 1..calls'[d].sent |-> i]
                           /\ calls'[d].at = "idle" /\ calls'[d].ret >= 0 =>
                                calls'[d].ret = calls'[d].sent
    BY DEF SendsInv, SendsAPrefix, Hooks!SendsAPrefix
  <2>1. CASE d = c
    BY <1>2, <2>1
  <2>2. CASE d # c
    BY <1>2, <2>2 DEF SendsInv, SendsAPrefix, Hooks!SendsAPrefix
  <2> QED
    BY <2>1, <2>2
<1>4. \A d \in Callers : d # c /\ Hooks!InCall(d) =>
         calls[d].fd \in CallFds /\ sock'[calls[d].fd] = sock[calls[d].fd]
  <2> SUFFICES ASSUME NEW d \in Callers, d # c, Hooks!InCall(d)
               PROVE  calls[d].fd \in CallFds /\ sock'[calls[d].fd] = sock[calls[d].fd]
    OBVIOUS
  <2>1. calls[d].fd \in CallFds /\ sock[calls[d].fd].state # "free"
    BY DEF InItsState, During
  <2>2. Hooks!Busy(calls[d].fd)
    BY DEF Hooks!Busy
  <2>3. ~(Hooks!InCall(c) /\ calls[d].fd = calls[c].fd)
    BY DEF OneCallEach
  <2> QED
    BY <2>1, <2>2, <2>3
<1>5. InItsState'
  BY <1>2, <1>4 DEF InItsState, Hooks!InCall
<1>6. OneCallEach'
  BY <1>2, <1>4 DEF OneCallEach, Hooks!InCall, Hooks!Busy
<1>7. EventIsTrue'
  BY <1>2, <1>4 DEF EventIsTrue, Hooks!InCall, Hooks!Readable, Hooks!HangUp, Hooks!Broken
<1> QED
  BY <1>1, <1>3, <1>5, <1>6, <1>7

LEMMA FreeTyped == Hooks!Free \in Sockets
BY CallsAssumption DEF Hooks!Free, Sockets, States

LEMMA DescriptorTyped ==
  ASSUME NEW kind \in States
  PROVE  Hooks!Descriptor(kind) \in Sockets
BY FreeTyped DEF Hooks!Descriptor, Hooks!Free, Sockets

(* Outside a call *)
LEMMA OutsideKeeps ==
  ASSUME CallsInv, NEW c \in Callers,
         \/ Hooks!Socket(c) \/ Hooks!YieldReady(c)
         \/ \E f \in CallFds : Hooks!Listen(c, f) \/ Hooks!Close(c, f)
  PROVE  CallsInv'
<1> USE CallsAssumption DEF CallsInv
<1>0. calls[c] \in Records /\ Hooks!Idle \in Records
  BY DEF CallsTyped, Records, Ops, Errnos, Hooks!Idle
<1>1. calls[c].op = "send" =>
         /\ calls[c].took = [i \in 1..calls[c].sent |-> i]
         /\ calls[c].at = "idle" /\ calls[c].ret >= 0 => calls[c].ret = calls[c].sent
  BY DEF SendsInv, SendsAPrefix, Hooks!SendsAPrefix
<1>2. CASE Hooks!Socket(c)
  <2>1. /\ calls[c].at = "idle" /\ calls' = [calls EXCEPT ![c] = calls[c]]
        /\ UNCHANGED interest /\ Hooks!Unused # {}
    BY <1>2 DEF Hooks!Socket, Hooks!Running, CallsTyped
  <2> DEFINE low == Hooks!Lowest
  <2>2. low \in CallFds /\ sock[low].state = "free"
    BY <2>1, LowestIsUnused
  <2>3. PICK new \in Sockets : sock' = [sock EXCEPT ![low] = new]
    <3>1. \A kind \in {"new", "dgram"} : Hooks!Descriptor(kind) \in Sockets
      BY DescriptorTyped DEF States
    <3>2. [sock[low] EXCEPT !.state = "leaked"] \in Sockets
      BY <2>2 DEF SocketsTyped, Sockets, States
    <3> QED
      BY <1>2, <3>1, <3>2 DEF Hooks!Socket
  <2>4. SocketsTyped'
    BY <2>2, <2>3 DEF SocketsTyped
  <2>5. \A g \in CallFds : sock[g].state = "free" \/ sock'[g] = sock[g]
    BY <2>2, <2>3 DEF SocketsTyped
  <2> QED
    BY <1>0, <1>1, <2>1, <2>4, <2>5, OwnStep
<1>3. CASE Hooks!YieldReady(c)
  <2>1. /\ calls[c].at = "idle" /\ calls' = [calls EXCEPT ![c] = Hooks!Idle]
        /\ UNCHANGED <<sock, interest>>
    BY <1>3 DEF Hooks!YieldReady, Hooks!Running
  <2>2. Hooks!Idle.at = "idle" /\ Hooks!Idle.op # "send"
    BY DEF Hooks!Idle
  <2>3. SocketsTyped'
    BY <2>1 DEF SocketsTyped
  <2> QED
    BY <1>0, <2>1, <2>2, <2>3, OwnStep
<1>4. ASSUME NEW f \in CallFds, Hooks!Listen(c, f) \/ Hooks!Close(c, f)
      PROVE  CallsInv'
  <2>1. /\ calls[c].at = "idle" /\ calls' = [calls EXCEPT ![c] = calls[c]]
        /\ UNCHANGED interest /\ ~Hooks!Busy(f)
    BY <1>4 DEF Hooks!Listen, Hooks!Close, Hooks!Running, Hooks!Usable, CallsTyped
  <2>2. PICK new \in Sockets : sock' = [sock EXCEPT ![f] = new]
    <3>1. Hooks!Free \in Sockets
      BY FreeTyped
    <3>2. Hooks!Listen(c, f) => [sock[f] EXCEPT !.state = "listening"] \in Sockets
      BY DEF Hooks!Listen, Hooks!Usable, SocketsTyped, Sockets, States
    <3> QED
      BY <1>4, <3>1, <3>2 DEF Hooks!Listen, Hooks!Close
  <2>3. SocketsTyped'
    BY <2>2 DEF SocketsTyped
  <2>4. \A g \in CallFds : sock'[g] = sock[g] \/ ~Hooks!Busy(g)
    BY <2>1, <2>2 DEF SocketsTyped
  <2> QED
    BY <1>0, <1>1, <2>1, <2>3, <2>4, OwnStep
<1> QED
  BY <1>2, <1>3, <1>4

(* A call begins. *)
LEMMA BeginKeeps ==
  ASSUME CallsInv, NEW c \in Callers, NEW f \in CallFds, NEW op \in Ops, NEW len \in Nat,
         NEW states, Hooks!Call(c, op, f, len, states), states \subseteq During(op)
  PROVE  CallsInv'
<1> USE CallsAssumption DEF CallsInv
<1> DEFINE s == [Hooks!Idle EXCEPT !.at = IF op = "send" THEN "try" ELSE "poll",
                                   !.op = op, !.fd = f, !.len = len]
<1>1. /\ calls[c].at = "idle" /\ calls' = [calls EXCEPT ![c] = s]
      /\ UNCHANGED <<sock, interest>> /\ sock[f].state \in During(op) /\ ~Hooks!Busy(f)
  BY DEF Hooks!Call, Hooks!Running, Hooks!Usable
<1>2. Hooks!Idle \in Records
  BY DEF Hooks!Idle, Records, Ops, Errnos
<1>3. s \in Records /\ s.at = (IF op = "send" THEN "try" ELSE "poll") /\ s.op = op /\ s.fd = f
      /\ s.sent = 0 /\ s.took = <<>> /\ s.errno = "none"
  BY <1>2 DEF Records, Hooks!Idle
<1> HIDE DEF s
<1>4. s.took = [i \in 1..s.sent |-> i]
  <2>1. [i \in 1..0 |-> i] = <<>>
    OBVIOUS
  <2> QED
    BY <1>3, <2>1
<1>5. SocketsTyped'
  BY <1>1 DEF SocketsTyped
<1> QED
  BY <1>1, <1>3, <1>4, <1>5, OwnStep

(* A call that goes on elsewhere *)
LEMMA CallMoves ==
  ASSUME CallsTyped, NEW c \in Callers, NEW place \in {"idle", "poll", "wait", "try", "call"},
         calls' = [calls EXCEPT ![c].at = place]
  PROVE  /\ CallsTyped'
         /\ \A d \in Callers : calls'[d].at = IF d = c THEN place ELSE calls[d].at
         /\ \A d \in Callers : /\ calls'[d].op = calls[d].op /\ calls'[d].fd = calls[d].fd
                               /\ calls'[d].sent = calls[d].sent
                               /\ calls'[d].took = calls[d].took /\ calls'[d].ret = calls[d].ret
                               /\ calls'[d].errno = calls[d].errno
<1>1. /\ calls[c] \in Records /\ calls'[c] = [calls[c] EXCEPT !.at = place]
      /\ \A d \in Callers : d # c => calls'[d] = calls[d]
  BY DEF CallsTyped
<1>2. /\ calls'[c] \in Records /\ calls'[c].at = place
      /\ calls'[c].op = calls[c].op /\ calls'[c].fd = calls[c].fd
      /\ calls'[c].sent = calls[c].sent /\ calls'[c].took = calls[c].took
      /\ calls'[c].ret = calls[c].ret /\ calls'[c].errno = calls[c].errno
  BY <1>1 DEF Records
<1>3. CallsTyped'
  BY <1>2 DEF CallsTyped
<1> QED
  BY <1>1, <1>2, <1>3

LEMMA PollKeeps ==
  ASSUME CallsInv, NEW c \in Callers, Hooks!PollInner(c)
  PROVE  CallsInv'
<1> USE CallsAssumption DEF CallsInv
<1> DEFINE f == calls[c].fd
           wanted == Hooks!Wanted(calls[c].op)
<1>1. /\ calls[c].at = "poll" /\ calls' = [calls EXCEPT ![c].at = "wait"] /\ UNCHANGED sock
      /\ Hooks!InCall(c) /\ f \in CallFds /\ wanted \in {{"in"}, {"out"}}
  BY DEF Hooks!PollInner, Hooks!Running, Hooks!InCall, InItsState, Hooks!Wanted
<1>2. interest[f] = {}
  BY <1>1 DEF OneCallEach, Hooks!InCall
<1>3. interest' = [interest EXCEPT ![f] = wanted]
  BY <1>1, <1>2 DEF Hooks!PollInner, InterestTyped
<1>5. /\ CallsTyped'
      /\ \A d \in Callers : calls'[d].at = IF d = c THEN "wait" ELSE calls[d].at
      /\ \A d \in Callers : /\ calls'[d].op = calls[d].op /\ calls'[d].fd = calls[d].fd
                            /\ calls'[d].sent = calls[d].sent /\ calls'[d].took = calls[d].took
                            /\ calls'[d].ret = calls[d].ret /\ calls'[d].errno = calls[d].errno
  BY <1>1, CallMoves
<1>6. SocketsTyped' /\ InterestTyped'
  BY <1>1, <1>3 DEF SocketsTyped, InterestTyped
<1>7. SendsInv'
  BY <1>1, <1>5 DEF SendsInv, SendsAPrefix, Hooks!SendsAPrefix
<1>8. InItsState' /\ EventIsTrue'
  BY <1>1, <1>5 DEF InItsState, EventIsTrue, Hooks!InCall, Hooks!Readable, Hooks!HangUp,
                    Hooks!Broken
<1>9. OneCallEach'
  <2>1. \A d, e \in Callers :
           Hooks!InCall(d)' /\ Hooks!InCall(e)' /\ calls'[d].fd = calls'[e].fd => d = e
    BY <1>1, <1>5 DEF OneCallEach, Hooks!InCall
  <2>2. \A d \in Callers : calls'[d].at = "wait" =>
           interest'[calls'[d].fd] = Hooks!Wanted(calls'[d].op)
    BY <1>1, <1>3, <1>5 DEF OneCallEach, Hooks!InCall, InterestTyped, InItsState
  <2>3. \A g \in CallFds : interest'[g] # {} =>
           \E d \in Callers : calls'[d].at = "wait" /\ calls'[d].fd = g
    BY <1>1, <1>3, <1>5 DEF OneCallEach, InterestTyped
  <2> QED
    BY <2>1, <2>2, <2>3 DEF OneCallEach, Hooks!Wanted
<1> QED
  BY <1>6, <1>5, <1>7, <1>8, <1>9

(* epoll reports what was asked for, and the descriptor is not watched     *)
(* any more.                                                               *)
LEMMA ResumeWaitingKeeps ==
  ASSUME CallsInv, NEW c \in Callers, Hooks!ResumeWaiting(c)
  PROVE  CallsInv'
<1> USE CallsAssumption DEF CallsInv
<1> DEFINE f == calls[c].fd
<1>1. /\ calls[c].at = "wait" /\ calls' = [calls EXCEPT ![c].at = "call"] /\ UNCHANGED sock
      /\ interest' = [interest EXCEPT ![f] = {}] /\ Hooks!Reported(f)
      /\ Hooks!InCall(c) /\ f \in CallFds /\ sock[f].state \in During(calls[c].op)
      /\ interest[f] = Hooks!Wanted(calls[c].op)
  BY DEF Hooks!ResumeWaiting, Hooks!InCall, InItsState, OneCallEach
<1>3. /\ CallsTyped'
      /\ \A d \in Callers : calls'[d].at = IF d = c THEN "call" ELSE calls[d].at
      /\ \A d \in Callers : /\ calls'[d].op = calls[d].op /\ calls'[d].fd = calls[d].fd
                            /\ calls'[d].sent = calls[d].sent /\ calls'[d].took = calls[d].took
                            /\ calls'[d].ret = calls[d].ret /\ calls'[d].errno = calls[d].errno
  BY <1>1, CallMoves
<1>4. SocketsTyped' /\ InterestTyped'
  BY <1>1 DEF SocketsTyped, InterestTyped
<1>5. SendsInv'
  BY <1>1, <1>3 DEF SendsInv, SendsAPrefix, Hooks!SendsAPrefix
<1>6. InItsState'
  BY <1>1, <1>3 DEF InItsState, Hooks!InCall
<1>7. OneCallEach'
  BY <1>1, <1>3 DEF OneCallEach, Hooks!InCall, InterestTyped, InItsState, Hooks!Wanted
<1>8. EventIsTrue'
  <2>1. calls[c].op = "connect" => sock[f].state # "connecting"
    BY <1>1 DEF Hooks!Reported, Hooks!Wanted, Hooks!HangUp, Hooks!Writable, EventIsTrue, InItsState,
                SocketsTyped, Sockets, Hooks!Broken, OneCallEach
  <2>2. calls[c].op = "recv" => Hooks!Readable(f)
    BY <1>1 DEF Hooks!Reported, Hooks!Wanted, Hooks!Readable
  <2>3. calls[c].op = "send" => sock[f].unread < Room \/ Hooks!Broken(f)
    BY <1>1 DEF During, Hooks!Reported, Hooks!Wanted, Hooks!HangUp, Hooks!Writable
  <2> QED
    BY <1>1, <1>3, <2>1, <2>2, <2>3 DEF EventIsTrue, Hooks!Readable, Hooks!HangUp, Hooks!Broken
<1> QED
  BY <1>4, <1>3, <1>5, <1>6, <1>7, <1>8

(* When the process ends there are no calls. *)
LEMMA DieKeeps ==
  ASSUME CallsInv, Hooks!Die
  PROVE  CallsInv'
<1> USE CallsAssumption DEF CallsInv
<1>1. Hooks!Idle \in Records /\ Hooks!Idle.at = "idle" /\ Hooks!Idle.op = "none"
  BY DEF Hooks!Idle, Records, Ops, Errnos
<1>2. \A c \in Callers : calls'[c].at = "idle" /\ calls'[c].op = "none"
  BY <1>1 DEF Hooks!Die
<1>3. CallsTyped' /\ SocketsTyped' /\ InterestTyped'
  BY <1>1, FreeTyped DEF Hooks!Die, CallsTyped, SocketsTyped, InterestTyped
<1>4. SendsInv' /\ InItsState' /\ EventIsTrue'
  BY <1>2 DEF SendsInv, SendsAPrefix, Hooks!SendsAPrefix, InItsState, EventIsTrue, Hooks!InCall
<1>5. OneCallEach'
  BY <1>2 DEF OneCallEach, Hooks!InCall, Hooks!Die
<1> QED
  BY <1>3, <1>4, <1>5

(* What a system call may do to the sockets *)
SocketsFor(c) == /\ SocketsTyped' /\ UNCHANGED interest
                 /\ \A g \in CallFds :
                       sock[g].state = "free" \/ sock'[g] = sock[g] \/ g = calls[c].fd

LEMMA SocketChanges ==
  ASSUME CallsInv, NEW c \in Callers, Hooks!InCall(c), UNCHANGED interest,
         \/ UNCHANGED sock
         \/ \E new \in Sockets : sock' = [sock EXCEPT ![calls[c].fd] = new]
  PROVE  SocketsFor(c)
BY DEF SocketsFor, CallsInv, SocketsTyped, InItsState

LEMMA CallReturnKeeps ==
  ASSUME CallsInv, NEW c \in Callers, calls[c].at \in {"try", "call"},
         NEW ret \in Int, NEW errno \in Errnos, Hooks!Return(c, ret, errno), SocketsFor(c),
         calls[c].op = "send" /\ ret >= 0 => ret = calls[c].sent
  PROVE  CallsInv'
<1> USE DEF CallsInv
<1> DEFINE s == [calls[c] EXCEPT !.at = "idle", !.ret = ret, !.errno = errno]
<1>1. calls[c] \in Records /\ calls' = [calls EXCEPT ![c] = s]
  BY DEF CallsTyped, Hooks!Return
<1>2. /\ s \in Records /\ s.at = "idle" /\ s.op = calls[c].op /\ s.sent = calls[c].sent
      /\ s.took = calls[c].took /\ s.ret = ret
  BY <1>1 DEF Records
<1> HIDE DEF s
<1>3. s.op = "send" => s.took = [i \in 1..s.sent |-> i]
  BY <1>2 DEF SendsInv, SendsAPrefix, Hooks!SendsAPrefix
<1> QED
  BY <1>1, <1>2, <1>3, OwnStep DEF SocketsFor, Hooks!InCall

LEMMA CallPollsAgainKeeps ==
  ASSUME CallsInv, NEW c \in Callers, calls[c].at \in {"try", "call"},
         Hooks!PollAgain(c), SocketsFor(c), sock'[calls[c].fd].state \in During(calls[c].op)
  PROVE  CallsInv'
<1> USE DEF CallsInv
<1> DEFINE s == [calls[c] EXCEPT !.at = "poll"]
<1>1. calls[c] \in Records /\ calls' = [calls EXCEPT ![c] = s]
  BY DEF CallsTyped, Hooks!PollAgain
<1>2. /\ s \in Records /\ s.at = "poll" /\ s.op = calls[c].op /\ s.sent = calls[c].sent
      /\ s.took = calls[c].took /\ s.fd = calls[c].fd /\ s.errno = "none"
  BY <1>1 DEF Records, SendsInv
<1> HIDE DEF s
<1>3. s.op = "send" => s.took = [i \in 1..s.sent |-> i]
  BY <1>2 DEF SendsInv, SendsAPrefix, Hooks!SendsAPrefix
<1>4. s.fd \in CallFds
  BY <1>2 DEF InItsState, Hooks!InCall
<1> QED
  BY <1>1, <1>2, <1>3, <1>4, OwnStep DEF SocketsFor, Hooks!InCall

LEMMA AcceptKeeps ==
  ASSUME CallsInv, NEW c \in Callers, Hooks!Accept(c) \/ Hooks!AcceptAgain(c)
  PROVE  CallsInv'
<1> USE CallsAssumption
<1> DEFINE f == calls[c].fd  low == Hooks!Lowest
           taken == [sock[f] EXCEPT !.avail = FALSE]
<1>1. /\ calls[c].at = "call" /\ calls[c].op = "accept" /\ UNCHANGED interest
      /\ Hooks!InCall(c) /\ f \in CallFds /\ sock[f].state \in During(calls[c].op)
      /\ sock[f].state = "listening" /\ sock[f] \in Sockets
  BY DEF Hooks!Accept, Hooks!AcceptAgain, Hooks!Calling, Hooks!Running, Hooks!InCall, CallsInv,
         InItsState, During, SocketsTyped
<1>2. CASE Hooks!AcceptAgain(c)
  BY <1>1, <1>2, SocketChanges, CallPollsAgainKeeps DEF Hooks!AcceptAgain
<1>3. taken \in Sockets
  BY <1>1 DEF Sockets
<1> HIDE DEF taken
<1>4. ASSUME Hooks!Unused # {}, Hooks!Return(c, low, "none"),
             sock' = [sock EXCEPT ![f] = taken, ![low] = Hooks!Descriptor("connected")]
      PROVE  CallsInv'
  <2>1. low \in CallFds /\ sock[low].state = "free"
    BY <1>4, LowestIsUnused
  <2>2. SocketsFor(c)
    BY <1>1, <1>3, <1>4, <2>1, DescriptorTyped DEF SocketsFor, CallsInv, SocketsTyped, States
  <2>3. low \in Int
    BY <2>1
  <2> HIDE DEF low
  <2> QED
    BY <1>1, <1>4, <2>2, <2>3, CallReturnKeeps DEF Errnos
<1>5. ASSUME Hooks!Return(c, -1, "fcntl"), sock' = [sock EXCEPT ![f] = taken]
      PROVE  CallsInv'
  <2>1. SocketsFor(c)
    BY <1>1, <1>3, <1>5, SocketChanges
  <2> QED
    BY <1>1, <1>5, <2>1, CallReturnKeeps DEF Errnos
<1>6. ASSUME Hooks!Return(c, -1, "EMFILE"), UNCHANGED sock
      PROVE  CallsInv'
  BY <1>1, <1>6, SocketChanges, CallReturnKeeps DEF Errnos
<1> QED
  BY <1>2, <1>4, <1>5, <1>6 DEF Hooks!Accept, taken

LEMMA ConnectKeeps ==
  ASSUME CallsInv, NEW c \in Callers, Hooks!ConnectStarts(c) \/ Hooks!ConnectEnds(c)
  PROVE  CallsInv'
<1> USE CallsAssumption
<1> DEFINE f == calls[c].fd
<1>1. /\ calls[c].at = "call" /\ calls[c].op = "connect" /\ UNCHANGED interest
      /\ Hooks!InCall(c) /\ f \in CallFds /\ sock[f] \in Sockets
  BY DEF Hooks!ConnectStarts, Hooks!ConnectEnds, Hooks!Calling, Hooks!Running, Hooks!InCall,
         CallsInv, InItsState, SocketsTyped
<1>2. ASSUME NEW errno \in Errnos, Hooks!Return(c, -1, errno), UNCHANGED sock
      PROVE  CallsInv'
  BY <1>1, <1>2, SocketChanges, CallReturnKeeps
<1>3. ASSUME NEW state \in {"connecting", "connected", "new"}, sock[f].state # "connected",
             sock' = [sock EXCEPT ![f].state = state]
      PROVE  SocketsFor(c) /\ sock'[f].state = state
  <2>1. [sock[f] EXCEPT !.state = state] \in Sockets
    BY <1>1, <1>3 DEF Sockets, States
  <2> QED
    BY <1>1, <1>3, <2>1, SocketChanges DEF CallsInv, SocketsTyped, Sockets
<1>4. CASE Hooks!ConnectStarts(c)
  <2>1. ASSUME sock' = [sock EXCEPT ![f].state = "connecting"], Hooks!PollAgain(c)
        PROVE  CallsInv'
    BY <1>1, <1>3, <1>4, <2>1, CallPollsAgainKeeps DEF Hooks!ConnectStarts, During
  <2> QED
    BY <1>2, <1>4, <2>1 DEF Hooks!ConnectStarts, Errnos
<1>5. CASE Hooks!ConnectEnds(c)
  <2>1. ASSUME sock[f].state = "answered", sock' = [sock EXCEPT ![f].state = "connected"],
               Hooks!Return(c, 0, "none")
        PROVE  CallsInv'
    BY <1>1, <1>3, <2>1, CallReturnKeeps DEF Errnos
  <2>2. ASSUME sock[f].state = "refused", sock' = [sock EXCEPT ![f].state = "new"],
               Hooks!Return(c, -1, "ECONNREFUSED")
        PROVE  CallsInv'
    BY <1>1, <1>3, <2>2, CallReturnKeeps DEF Errnos
  <2> QED
    BY <1>2, <1>5, <2>1, <2>2 DEF Hooks!ConnectEnds, Errnos
<1> QED
  BY <1>4, <1>5

LEMMA RecvKeeps ==
  ASSUME CallsInv, NEW c \in Callers, Hooks!Recv(c)
  PROVE  CallsInv'
<1> USE CallsAssumption
<1> DEFINE f == calls[c].fd
<1>1. /\ calls[c].at = "call" /\ calls[c].op = "recv" /\ UNCHANGED interest
      /\ Hooks!InCall(c) /\ f \in CallFds /\ sock[f] \in Sockets
  BY DEF Hooks!Recv, Hooks!Calling, Hooks!Running, Hooks!InCall, CallsInv, InItsState, SocketsTyped
<1>2. /\ [sock[f] EXCEPT !.avail = FALSE] \in Sockets
      /\ sock[f].rst = "pending" => [sock[f] EXCEPT !.rst = "reported"] \in Sockets
  BY <1>1 DEF Sockets
<1>3. SocketsFor(c)
  <2>1. \/ UNCHANGED sock
        \/ sock' = [sock EXCEPT ![f] = [sock[f] EXCEPT !.avail = FALSE]]
        \/ /\ sock[f].rst = "pending"
           /\ sock' = [sock EXCEPT ![f] = [sock[f] EXCEPT !.rst = "reported"]]
    BY DEF Hooks!Recv
  <2> QED
    BY <1>1, <1>2, <2>1, SocketChanges
<1>4. PICK ret \in {0, 1, -1}, errno \in Errnos : Hooks!Return(c, ret, errno)
  BY DEF Hooks!Recv, Errnos
<1> QED
  BY <1>1, <1>3, <1>4, CallReturnKeeps

(* The next bytes go behind those that went before. *)
LEMMA NextBytes ==
  ASSUME NEW sent \in Nat, NEW n \in Nat, NEW took \in Seq(Nat), took = [i \in 1..sent |-> i],
         NEW more, more = [i \in 1..n |-> sent + i], NEW total, total = sent + n
  PROVE  took \o more = [i \in 1..total |-> i] /\ took \o more \in Seq(Nat)
<1>1. more \in Seq(Nat) /\ Len(more) = n /\ Len(took) = sent
  OBVIOUS
<1>2. took \o more = [i \in 1..total |-> IF i <= sent THEN took[i] ELSE more[i - sent]]
  BY <1>1
<1>3. \A i \in 1..total : (IF i <= sent THEN took[i] ELSE more[i - sent]) = i
  OBVIOUS
<1>4. took \o more = [i \in 1..total |-> i]
  BY <1>2, <1>3
<1> QED
  BY <1>1, <1>4

LEMMA SendTakesKeeps ==
  ASSUME CallsInv, NEW c \in Callers, NEW n \in 1..Room, Hooks!SendTakes(c, n)
  PROVE  CallsInv'
<1> USE CallsAssumption DEF CallsInv
<1> DEFINE f == calls[c].fd  sent == calls[c].sent + n  more == sent < calls[c].len
           s == [calls[c] EXCEPT !.sent = sent, !.took = @ \o Hooks!Bytes(c, n),
                                 !.at = IF more THEN "poll" ELSE "idle",
                                 !.ret = IF more THEN @ ELSE sent]
<1>1. /\ calls[c].at \in {"try", "call"} /\ calls[c].op = "send" /\ UNCHANGED interest
      /\ Hooks!InCall(c) /\ f \in CallFds /\ sock[f] \in Sockets
      /\ sock[f].state \in During("send") /\ calls[c] \in Records
      /\ n <= Room - sock[f].unread
      /\ sock' = [sock EXCEPT ![f].unread = @ + n]
      /\ calls' = [calls EXCEPT ![c] = s]
  BY DEF Hooks!SendTakes, Hooks!Sending, Hooks!Calling, Hooks!Running, Hooks!InCall,
         InItsState, SocketsTyped, CallsTyped
<1>2. Hooks!Bytes(c, n) = [i \in 1..n |-> calls[c].sent + i] /\ Hooks!Bytes(c, n) \in Seq(Nat)
  <2>k. PICK k : k = calls[c].sent
    OBVIOUS
  <2>b. PICK b : b = [i \in 1..n |-> k + i]
    OBVIOUS
  <2>1. k \in Nat /\ n \in Nat
    BY <1>1, <2>k DEF Records
  <2>2. b \in Seq(Nat)
    BY <2>1, <2>b
  <2>3. Hooks!Bytes(c, n) = b
    BY <2>k, <2>b DEF Hooks!Bytes
  <2> QED
    BY <2>k, <2>b, <2>2, <2>3
<1>3. /\ calls[c].took \o Hooks!Bytes(c, n) = [i \in 1..sent |-> i]
      /\ calls[c].took \o Hooks!Bytes(c, n) \in Seq(Nat)
  <2> DEFINE before == calls[c].sent  took == calls[c].took  bytes == Hooks!Bytes(c, n)
  <2>1. before \in Nat /\ took \in Seq(Nat) /\ n \in Nat
    BY <1>1 DEF Records
  <2>2. took = [i \in 1..before |-> i]
    BY <1>1 DEF SendsInv, SendsAPrefix, Hooks!SendsAPrefix
  <2>3. bytes = [i \in 1..n |-> before + i] /\ sent = before + n
    BY <1>2
  <2> HIDE DEF CallsInv, f, sent, more, s, before, took, bytes
  <2>4. took \o bytes = [i \in 1..sent |-> i] /\ took \o bytes \in Seq(Nat)
    BY <2>1, <2>2, <2>3, NextBytes
  <2> QED
    BY <2>4 DEF took, bytes
<1>4. /\ s \in Records /\ s.at = (IF more THEN "poll" ELSE "idle") /\ s.op = "send"
      /\ s.fd = f /\ s.sent = sent /\ s.took = [i \in 1..sent |-> i]
      /\ s.at = "idle" => s.ret = sent
      /\ s.errno = "none"
  <2> DEFINE took  == calls[c].took \o Hooks!Bytes(c, n)
             place == IF more THEN "poll" ELSE "idle"
             ret   == IF more THEN calls[c].ret ELSE sent
  <2>0. took \in Seq(Nat) /\ took = [i \in 1..sent |-> i]
    BY <1>3, Zenon
  <2>1. sent \in Nat /\ place \in {"idle", "poll"} /\ ret \in Int
    <3>1. calls[c].sent \in Nat /\ calls[c].ret \in Int
      BY <1>1 DEF Records
    <3> HIDE DEF more
    <3> QED
      BY <3>1
  <2>2. place = "idle" => ret = sent
    OBVIOUS
  <2> HIDE DEF took, place, ret, sent
  <2>3. s = [calls[c] EXCEPT !.sent = sent, !.took = took, !.at = place, !.ret = ret]
    BY DEF took, place, ret
  <2> HIDE DEF s
  <2>4. /\ s \in Records /\ s.at = place /\ s.op = calls[c].op /\ s.fd = f /\ s.sent = sent
        /\ s.took = took /\ s.ret = ret /\ s.errno = calls[c].errno
    BY <1>1, <2>0, <2>1, <2>3 DEF Records
  <2> QED
    BY <1>1, <2>0, <2>1, <2>2, <2>4 DEF place, SendsInv
<1>5. [sock[f] EXCEPT !.unread = @ + n] \in Sockets
      /\ [sock[f] EXCEPT !.unread = @ + n].state = sock[f].state
  BY <1>1 DEF Sockets
<1>6. SocketsFor(c) /\ sock'[f].state = sock[f].state
  BY <1>1, <1>5, SocketChanges DEF SocketsTyped
<1> HIDE DEF s
<1> QED
  BY <1>1, <1>4, <1>6, OwnStep DEF SocketsFor

LEMMA SendKeeps ==
  ASSUME CallsInv, NEW c \in Callers,
         Hooks!SendNothing(c) \/ Hooks!SendFails(c) \/ Hooks!TryFails(c)
  PROVE  CallsInv'
<1> USE CallsAssumption
<1> DEFINE f == calls[c].fd
<1>1. /\ calls[c].at \in {"try", "call"} /\ calls[c].op = "send" /\ UNCHANGED interest
      /\ Hooks!InCall(c) /\ f \in CallFds /\ sock[f] \in Sockets
      /\ sock[f].state \in During("send") /\ calls[c] \in Records
  BY DEF Hooks!SendNothing, Hooks!SendFails, Hooks!TryFails, Hooks!Calling, Hooks!Running,
         Hooks!InCall, CallsInv, InItsState, SocketsTyped, CallsTyped
<1>2. CASE Hooks!SendNothing(c)
  <2>1. UNCHANGED sock /\ Hooks!Return(c, 0, "none") /\ calls[c].sent = 0
    BY <1>2 DEF Hooks!SendNothing, Hooks!Calling, Hooks!Running, CallsInv, SendsInv
  <2> QED
    BY <1>1, <2>1, SocketChanges, CallReturnKeeps DEF Errnos
<1>3. ASSUME Hooks!Refuses(f)
      PROVE  SocketsFor(c) /\ sock'[f].state = sock[f].state
  <2>1. CASE sock[f].rst = "pending" /\ sock' = [sock EXCEPT ![f].rst = "reported"]
    <3>1. /\ [sock[f] EXCEPT !.rst = "reported"] \in Sockets
          /\ [sock[f] EXCEPT !.rst = "reported"].state = sock[f].state
      BY <1>1, <2>1 DEF Sockets
    <3> QED
      BY <1>1, <2>1, <3>1, SocketChanges DEF CallsInv, SocketsTyped
  <2>2. CASE UNCHANGED sock
    BY <1>1, <2>2, SocketChanges
  <2> QED
    BY <1>3, <2>1, <2>2 DEF Hooks!Refuses
<1>4. CASE Hooks!SendFails(c)
  <2>1. PICK errno \in Errnos :
           Hooks!Return(c, IF calls[c].sent = 0 THEN -1 ELSE calls[c].sent, errno)
    BY <1>4 DEF Hooks!SendFails, Hooks!SendError, Errnos
  <2> DEFINE ret == IF calls[c].sent = 0 THEN -1 ELSE calls[c].sent
  <2>2. ret \in Int /\ (ret >= 0 => ret = calls[c].sent)
    <3>1. calls[c].sent \in Nat
      BY <1>1 DEF Records
    <3> QED
      BY <3>1
  <2>3. Hooks!Refuses(f)
    BY <1>4 DEF Hooks!SendFails
  <2>4. SocketsFor(c) /\ Hooks!Return(c, ret, errno)
    BY <1>3, <2>1, <2>3
  <2> HIDE DEF ret
  <2> QED
    BY <1>1, <2>2, <2>4, CallReturnKeeps
<1>5. CASE Hooks!TryFails(c)
  BY <1>1, <1>3, <1>5, CallPollsAgainKeeps DEF Hooks!TryFails
<1> QED
  BY <1>2, <1>4, <1>5

LEMMA DatagramKeeps ==
  ASSUME CallsInv, NEW c \in Callers,
         \/ Hooks!Sendto(c) \/ Hooks!Recvfrom(c)
         \/ Hooks!DatagramAgain(c) \/ Hooks!DatagramNone(c)
         \/ \E op \in {"sendto", "nty_sendto", "recvfrom"} : Hooks!DatagramReset(c, op)
  PROVE  CallsInv'
<1> USE CallsAssumption
<1> DEFINE f == calls[c].fd
<1>1. /\ calls[c].at = "call" /\ calls[c].op \in {"sendto", "nty_sendto", "recvfrom"}
      /\ UNCHANGED interest
      /\ Hooks!InCall(c) /\ f \in CallFds /\ sock[f] \in Sockets
      /\ sock[f].state \in During(calls[c].op) /\ calls[c] \in Records
  BY DEF Hooks!Sendto, Hooks!Recvfrom, Hooks!DatagramAgain, Hooks!DatagramNone,
         Hooks!DatagramReset, Hooks!NoDatagram, Hooks!Datagram, Hooks!Calling, Hooks!Running,
         Hooks!InCall, CallsInv, InItsState, SocketsTyped, CallsTyped
<1>2. CASE Hooks!Sendto(c)
  <2>1. sock' = [sock EXCEPT ![f] = sock[f]] /\ Hooks!Return(c, calls[c].len, "none")
    BY <1>2 DEF Hooks!Sendto, Hooks!Datagram
  <2>2. SocketsFor(c)
    BY <1>1, <2>1, SocketChanges
  <2>3. calls[c].len \in Int
    BY <1>1 DEF Records
  <2> QED
    BY <1>1, <2>1, <2>2, <2>3, CallReturnKeeps DEF Errnos
<1>3. CASE Hooks!Recvfrom(c)
  <2>1. /\ sock' = [sock EXCEPT ![f] = [sock[f] EXCEPT !.avail = FALSE]]
        /\ Hooks!Return(c, 1, "none")
    BY <1>3 DEF Hooks!Recvfrom, Hooks!Datagram
  <2>2. [sock[f] EXCEPT !.avail = FALSE] \in Sockets
    BY <1>1 DEF Sockets
  <2>3. SocketsFor(c)
    BY <1>1, <2>1, <2>2, SocketChanges
  <2> QED
    BY <1>1, <2>1, <2>3, CallReturnKeeps DEF Errnos
<1>4. CASE Hooks!DatagramAgain(c)
  BY <1>1, <1>4, SocketChanges, CallPollsAgainKeeps DEF Hooks!DatagramAgain, Hooks!NoDatagram
<1>5. CASE Hooks!DatagramNone(c)
  BY <1>1, <1>5, SocketChanges, CallReturnKeeps DEF Hooks!DatagramNone, Hooks!NoDatagram, Errnos
<1>6. ASSUME NEW op \in {"sendto", "nty_sendto", "recvfrom"}, Hooks!DatagramReset(c, op)
      PROVE  CallsInv'
  BY <1>1, <1>6, SocketChanges, CallReturnKeeps DEF Hooks!DatagramReset, Errnos
<1> QED
  BY <1>2, <1>3, <1>4, <1>5, <1>6

LEMMA SystemCallKeeps ==
  ASSUME CallsInv, NEW c \in Callers, Hooks!SystemCall(c)
  PROVE  CallsInv'
<1>1. CASE Hooks!Die
  BY <1>1, DieKeeps
<1>2. CASE Hooks!AcceptAgain(c) \/ Hooks!Accept(c)
  BY <1>2, AcceptKeeps
<1>3. CASE Hooks!ConnectStarts(c) \/ Hooks!ConnectEnds(c)
  BY <1>3, ConnectKeeps
<1>4. CASE Hooks!Recv(c)
  BY <1>4, RecvKeeps
<1>5. CASE Hooks!SendNothing(c) \/ Hooks!SendFails(c) \/ Hooks!TryFails(c)
  BY <1>5, SendKeeps
<1>6. ASSUME NEW n \in 1..Room, Hooks!SendTakes(c, n) PROVE CallsInv'
  BY <1>6, SendTakesKeeps
<1>7. ASSUME \/ Hooks!Sendto(c) \/ Hooks!Recvfrom(c)
             \/ Hooks!DatagramAgain(c) \/ Hooks!DatagramNone(c)
             \/ \E op \in {"sendto", "nty_sendto", "recvfrom"} : Hooks!DatagramReset(c, op)
      PROVE  CallsInv'
  BY <1>7, DatagramKeeps
<1> QED
  BY <1>1, <1>2, <1>3, <1>4, <1>5, <1>6, <1>7
     DEF Hooks!SystemCall, Hooks!SendDies, Hooks!DatagramDies

LEMMA CallsInvStep ==
  ASSUME CallsInv, [Hooks!Next]_(Hooks!vars)
  PROVE  CallsInv'
<1>1. CASE UNCHANGED Hooks!vars
  BY <1>1 DEF Hooks!vars, CallsInv, CallsTyped, SocketsTyped, InterestTyped, SendsInv, SendsAPrefix,
     Hooks!SendsAPrefix, InItsState, OneCallEach, EventIsTrue, Hooks!InCall, Hooks!Readable,
     Hooks!HangUp, Hooks!Broken, Hooks!Wanted
<1>2. ASSUME NEW f \in CallFds, Hooks!Environment(f) PROVE CallsInv'
  BY <1>2, EnvironmentKeeps
<1>3. ASSUME NEW c \in Callers PROVE Hooks!Socket(c) \/ Hooks!YieldReady(c) => CallsInv'
  BY OutsideKeeps
<1>4. ASSUME NEW c \in Callers, Hooks!PollInner(c) PROVE CallsInv'
  BY <1>4, PollKeeps
<1>5. ASSUME NEW c \in Callers, Hooks!ResumeWaiting(c) PROVE CallsInv'
  BY <1>5, ResumeWaitingKeeps
<1>6. ASSUME NEW c \in Callers, Hooks!ResumeReady(c) PROVE CallsInv'
  BY <1>6 DEF Hooks!ResumeReady, CallsInv, CallsTyped, SocketsTyped, InterestTyped, SendsInv,
     SendsAPrefix, Hooks!SendsAPrefix, InItsState, OneCallEach, EventIsTrue, Hooks!InCall,
     Hooks!Readable, Hooks!HangUp, Hooks!Broken, Hooks!Wanted
<1>7. ASSUME NEW c \in Callers, Hooks!SystemCall(c) PROVE CallsInv'
  BY <1>7, SystemCallKeeps
<1>8. ASSUME NEW c \in Callers, NEW f \in CallFds, Hooks!Begin(c, f) PROVE CallsInv'
  <2>1. CASE Hooks!Listen(c, f) \/ Hooks!Close(c, f)
    BY <2>1, OutsideKeeps
  <2>2. CASE \/ Hooks!AcceptCall(c, f) \/ Hooks!ConnectCall(c, f) \/ Hooks!RecvCall(c, f)
             \/ Hooks!RecvfromCall(c, f)
    <3>1. \/ Hooks!Call(c, "accept", f, 0, {"listening"}) \/ Hooks!Call(c, "connect", f, 0, {"new"})
          \/ Hooks!Call(c, "recv", f, 0, {"connected"}) \/ Hooks!Call(c, "recvfrom", f, 0, {"dgram"})
      BY <2>2 DEF Hooks!AcceptCall, Hooks!ConnectCall, Hooks!RecvCall, Hooks!RecvfromCall
    <3> QED
      BY <3>1, BeginKeeps DEF During, Ops
  <2>3. ASSUME NEW len \in Lengths, \/ Hooks!SendCall(c, f, len) \/ Hooks!SendtoCall(c, f, len)
                                    \/ Hooks!NtySendtoCall(c, f, len)
        PROVE  CallsInv'
    <3>1. \/ Hooks!Call(c, "send", f, len, {"connected"}) \/ Hooks!Call(c, "sendto", f, len, {"dgram"})
          \/ Hooks!Call(c, "nty_sendto", f, len, {"dgram"})
      BY <2>3 DEF Hooks!SendCall, Hooks!SendtoCall, Hooks!NtySendtoCall
    <3>2. len \in Nat
      BY CallsAssumption
    <3> QED
      BY <3>1, <3>2, BeginKeeps DEF During, Ops
  <2> QED
    BY <1>8, <2>1, <2>2, <2>3 DEF Hooks!Begin
<1> QED
  BY <1>1, <1>2, <1>3, <1>4, <1>5, <1>6, <1>7, <1>8 DEF Hooks!Next

LEMMA CallsInvInit == Hooks!Init => CallsInv
<1> SUFFICES ASSUME Hooks!Init PROVE CallsInv
  OBVIOUS
<1> USE CallsAssumption
<1>1. Hooks!Idle \in Records /\ Hooks!Idle.at = "idle" /\ Hooks!Idle.op = "none"
  BY DEF Hooks!Idle, Records, Ops, Errnos
<1>2. CallsTyped /\ SocketsTyped /\ InterestTyped
  BY <1>1, FreeTyped DEF Hooks!Init, CallsTyped, SocketsTyped, InterestTyped
<1>3. \A c \in Callers : calls[c].at = "idle" /\ calls[c].op = "none"
  BY <1>1 DEF Hooks!Init
<1>4. SendsInv /\ InItsState /\ EventIsTrue
  BY <1>3 DEF SendsInv, SendsAPrefix, Hooks!SendsAPrefix, InItsState, EventIsTrue, Hooks!InCall
<1>5. OneCallEach
  BY <1>3 DEF OneCallEach, Hooks!InCall, Hooks!Init
<1> QED
  BY <1>2, <1>4, <1>5 DEF CallsInv

(* The inductive invariant of the hooked calls. *)
THEOREM CallsInvariant == Hooks!Spec => []CallsInv
BY CallsInvInit, CallsInvStep, PTL DEF Hooks!Spec

(* However a send is cut up, what went out is a prefix of its buffer, and   *)
(* it returns how long that is.                                            *)
THEOREM SendsSendAPrefix == Hooks!Spec => []SendsAPrefix
<1>1. CallsInv => SendsAPrefix
  BY DEF CallsInv, SendsInv
<1> QED
  BY <1>1, CallsInvariant, PTL
-----------------------------------------------------------------------------
(* A call ends by a step of its own, unless the process does. *)
LEMMA EndsItself ==
  ASSUME CallsInv, Hooks!Next, hooksAlive', NEW c \in Callers,
         calls[c].at \in {"try", "call"}, calls'[c].at = "idle"
  PROVE  Hooks!SystemCall(c) /\ ~Hooks!Die
<1>1. ~Hooks!Die
  BY DEF Hooks!Die
<1>2. ASSUME NEW f \in CallFds PROVE ~Hooks!Environment(f)
  BY DEF Hooks!Environment, Hooks!Arrives, Hooks!GoesAway, Hooks!Drains, Hooks!Ends, Hooks!Resets,
         Hooks!Answers, Hooks!Peer
<1>3. ASSUME NEW d \in Callers
      PROVE  /\ ~Hooks!Socket(d) /\ ~Hooks!YieldReady(d) /\ ~Hooks!PollInner(d)
             /\ ~Hooks!ResumeWaiting(d) /\ ~Hooks!ResumeReady(d)
  BY DEF Hooks!Socket, Hooks!YieldReady, Hooks!PollInner, Hooks!ResumeWaiting, Hooks!ResumeReady,
         Hooks!Running, CallsInv, CallsTyped
<1>4. ASSUME NEW d \in Callers, NEW f \in CallFds PROVE ~Hooks!Begin(d, f)
  BY DEF Hooks!Begin, Hooks!Listen, Hooks!Close, Hooks!AcceptCall, Hooks!ConnectCall,
         Hooks!RecvCall, Hooks!RecvfromCall, Hooks!SendCall, Hooks!SendtoCall,
         Hooks!NtySendtoCall, Hooks!Call, Hooks!Running, CallsInv, CallsTyped
<1>5. ASSUME NEW d \in Callers, d # c PROVE ~Hooks!SystemCall(d)
  <2>1. \A ret, errno : ~Hooks!Return(d, ret, errno)
    BY <1>5 DEF Hooks!Return, CallsInv, CallsTyped
  <2>2. ~Hooks!PollAgain(d) /\ \A n \in 1..Room : ~Hooks!SendTakes(d, n)
    BY <1>5 DEF Hooks!PollAgain, Hooks!SendTakes, CallsInv, CallsTyped
  <2> QED
    BY <1>1, <2>1, <2>2 DEF Hooks!SystemCall, Hooks!AcceptAgain, Hooks!Accept,
       Hooks!ConnectStarts, Hooks!ConnectEnds, Hooks!Recv, Hooks!SendNothing, Hooks!SendFails,
       Hooks!TryFails, Hooks!SendDies, Hooks!Sendto, Hooks!Recvfrom, Hooks!Datagram,
       Hooks!DatagramAgain, Hooks!DatagramNone, Hooks!DatagramReset, Hooks!DatagramDies
<1> QED
  BY <1>1, <1>2, <1>3, <1>4, <1>5 DEF Hooks!Next

LEMMA CallsLookBlocking ==
  ASSUME CallsInv, Hooks!Next, hooksAlive', NEW c \in Callers,
         calls[c].at \in {"try", "call"}, calls'[c].at = "idle"
  PROVE  /\ calls[c].op \in {"accept", "connect", "recv", "send"} =>
               calls'[c].errno \notin {"EAGAIN", "EALREADY"}
         /\ calls[c].op = "send" =>
               calls'[c].ret = calls[c].len \/ Hooks!Broken(calls[c].fd)
<1> USE CallsAssumption
<1> DEFINE f == calls[c].fd
<1>1. Hooks!SystemCall(c) /\ ~Hooks!Die
  BY EndsItself
<1>2. calls[c] \in Records /\ f \in CallFds /\ sock[f] \in Sockets
  BY DEF CallsInv, CallsTyped, SocketsTyped, InItsState, Hooks!InCall
<1>3. ASSUME NEW ret, NEW errno, Hooks!Return(c, ret, errno)
      PROVE  calls'[c].ret = ret /\ calls'[c].errno = errno
  BY <1>2, <1>3 DEF Hooks!Return, CallsInv, CallsTyped, Records
<1>4. ~Hooks!PollAgain(c)
  BY <1>2 DEF Hooks!PollAgain, CallsInv, CallsTyped, Records
<1>5. CASE Hooks!Accept(c)
  BY <1>3, <1>5 DEF Hooks!Accept, Hooks!Calling
<1>6. CASE Hooks!ConnectStarts(c)
  BY <1>3, <1>4, <1>6 DEF Hooks!ConnectStarts, Hooks!Calling
<1>7. CASE Hooks!ConnectEnds(c)
  BY <1>3, <1>7 DEF Hooks!ConnectEnds, Hooks!Calling, Hooks!Running, CallsInv, EventIsTrue
<1>8. CASE Hooks!Recv(c)
  BY <1>3, <1>8 DEF Hooks!Recv, Hooks!Calling, Hooks!Running, CallsInv, EventIsTrue
<1>9. CASE Hooks!SendNothing(c)
  BY <1>3, <1>9 DEF Hooks!SendNothing, Hooks!Calling
<1>10. CASE Hooks!SendFails(c)
  <2>1. /\ calls[c].op = "send" /\ Hooks!Broken(f)
        /\ sock[f].rst = "pending"
    BY <1>10 DEF Hooks!SendFails, Hooks!Calling, Hooks!Running, Hooks!Refuses, CallsInv, EventIsTrue,
               Hooks!Broken
  <2> QED
    BY <1>3, <1>10, <2>1 DEF Hooks!SendFails, Hooks!SendError
<1>11. ASSUME NEW n \in 1..Room, Hooks!SendTakes(c, n)
       PROVE  calls[c].op = "send" /\ calls'[c].ret = calls[c].len /\ calls'[c].errno = "none"
  <2> DEFINE sent == calls[c].sent + n
  <2>1. /\ calls[c].op = "send" /\ n <= calls[c].len - calls[c].sent
        /\ calls' = [calls EXCEPT ![c].sent = sent, ![c].took = @ \o Hooks!Bytes(c, n),
                                  ![c].at = IF sent < calls[c].len THEN "poll" ELSE "idle",
                                  ![c].ret = IF sent < calls[c].len THEN @ ELSE sent]
    BY <1>11 DEF Hooks!SendTakes, Hooks!Sending, Hooks!Calling
  <2>2. /\ calls'[c].at = IF sent < calls[c].len THEN "poll" ELSE "idle"
        /\ calls'[c].ret = IF sent < calls[c].len THEN calls[c].ret ELSE sent
        /\ calls'[c].errno = calls[c].errno
    BY <1>2, <2>1 DEF CallsInv, CallsTyped, Records
  <2>3. calls[c].errno = "none"
    BY DEF CallsInv, SendsInv
  <2>4. ~(sent < calls[c].len)
    BY <2>2
  <2>5. sent = calls[c].len
    <3>1. calls[c].sent \in Nat /\ calls[c].len \in Nat /\ n \in Nat
      BY <1>2 DEF Records
    <3>2. n <= calls[c].len - calls[c].sent
      BY <2>1
    <3>3. \A a, b \in Nat : n <= a - b /\ ~(b + n < a) => b + n = a
      BY <3>1
    <3> QED
      BY <2>4, <3>1, <3>2, <3>3
  <2> QED
    BY <2>1, <2>2, <2>3, <2>4, <2>5
<1>12. CASE \/ Hooks!Sendto(c) \/ Hooks!Recvfrom(c) \/ Hooks!DatagramNone(c)
            \/ \E op \in {"sendto", "nty_sendto", "recvfrom"} : Hooks!DatagramReset(c, op)
  BY <1>12 DEF Hooks!Sendto, Hooks!Recvfrom, Hooks!DatagramNone, Hooks!DatagramReset,
     Hooks!NoDatagram, Hooks!Calling
<1> QED
  BY <1>1, <1>4, <1>5, <1>6, <1>7, <1>8, <1>9, <1>10, <1>11, <1>12
     DEF Hooks!SystemCall, Hooks!AcceptAgain, Hooks!TryFails, Hooks!SendDies, Hooks!DatagramAgain,
         Hooks!DatagramDies

(* A call does not fail for want of data, of room or of an answer, and a    *)
(* send ends early only when the connection is broken.                     *)
THEOREM CallsLookAsIfBlocking == Hooks!Spec => LooksBlocking
<1> DEFINE Blocking ==
      \A c \in Callers :
         hooksAlive' /\ calls[c].at \in {"try", "call"} /\ calls'[c].at = "idle" =>
            /\ calls[c].op \in {"accept", "connect", "recv", "send"} =>
                  calls'[c].errno \notin {"EAGAIN", "EALREADY"}
            /\ calls[c].op = "send" =>
                  calls'[c].ret = calls[c].len \/ Hooks!Broken(calls[c].fd)
<1>1. CallsInv /\ [Hooks!Next]_(Hooks!vars) => [Blocking]_(Hooks!vars)
  BY CallsLookBlocking
<1> QED
  BY <1>1, CallsInvariant, PTL DEF Hooks!Spec, LooksBlocking, Hooks!LooksBlocking
-----------------------------------------------------------------------------
(* The links of a queue h of the elements s are numbered from the head's on. *)
Place(h, s, i)  == IF i = 0 THEN h ELSE s[i]
Behind(s, i)    == IF i = Len(s) THEN Null ELSE s[i + 1]
Holder(h, s, i) == IF i = Len(s) THEN h ELSE s[i + 1]

(* The i-th link points to the element behind it, which, or for the last    *)
(* one the head, points back to it.                                        *)
Chain(q, h, s) == \A i \in 0..Len(s) : /\ q.link[Place(h, s, i)] = Behind(s, i)
                                       /\ q.back[Holder(h, s, i)] = Place(h, s, i)

Distinct(s) == \A i, j \in 1..Len(s) : s[i] = s[j] => i = j
Members(s)  == {s[i] : i \in 1..Len(s)}

QueueLinks == [link : [Heads \cup Elems -> Elems \cup {Null}],
               back : [Heads \cup Elems -> Heads \cup Elems \cup {Null}]]

QueuesInv == /\ links \in QueueLinks
             /\ order \in [Heads -> Seq(Elems)]
             /\ \A h \in Heads : Distinct(order[h]) /\ Chain(links, h, order[h])
             /\ \A g, h \in Heads : g # h => Members(order[g]) \cap Members(order[h]) = {}

LEMMA LinksAreDistinct ==
  ASSUME NEW h \in Heads, NEW s \in Seq(Elems), Distinct(s), NEW i \in 0..Len(s)
  PROVE  /\ Len(s) \in Nat
         /\ Place(h, s, i) \in {h} \cup Members(s) /\ Holder(h, s, i) \in {h} \cup Members(s)
         /\ Place(h, s, i) \in Heads \cup Elems /\ Holder(h, s, i) \in Heads \cup Elems
         /\ Behind(s, i) \in Elems \cup {Null}
         /\ \A j \in 0..Len(s) \ {i} : /\ Place(h, s, i) # Place(h, s, j)
                                       /\ Holder(h, s, i) # Holder(h, s, j)
<1>1. Len(s) \in Nat /\ \A j \in 1..Len(s) : s[j] \in Elems /\ s[j] \in Members(s)
  BY LenProperties, ElementOfSeq DEF Members
<1>2. h \notin Elems
  BY CallsAssumption
<1>3. \A j \in 0..Len(s) : j # 0 => j \in 1..Len(s)
  BY <1>1
<1>4. \A j \in 0..Len(s) : j # Len(s) => j + 1 \in 1..Len(s)
  BY <1>1
<1>5. /\ Place(h, s, i) \in {h} \cup Members(s) /\ Holder(h, s, i) \in {h} \cup Members(s)
      /\ Place(h, s, i) \in Heads \cup Elems /\ Holder(h, s, i) \in Heads \cup Elems
      /\ Behind(s, i) \in Elems \cup {Null}
  BY <1>1, <1>3, <1>4 DEF Place, Holder, Behind
<1>6. ASSUME NEW j \in 0..Len(s) \ {i} PROVE Place(h, s, i) # Place(h, s, j)
  BY <1>1, <1>2, <1>3 DEF Place, Distinct
<1>7. ASSUME NEW j \in 0..Len(s) \ {i} PROVE Holder(h, s, i) # Holder(h, s, j)
  <2>1. i # Len(s) /\ j # Len(s) => s[i + 1] # s[j + 1]
    <3>1. i + 1 # j + 1
      BY <1>1
    <3> QED
      BY <1>4, <3>1 DEF Distinct
  <2> QED
    BY <1>1, <1>2, <1>4, <2>1 DEF Holder
<1> QED
  BY <1>1, <1>5, <1>6, <1>7

(* Its links in place, a queue is walked in its order both ways. *)
LEMMA ChainIsWalked ==
  ASSUME NEW h \in Heads, NEW s \in Seq(Elems), NEW q, Chain(q, h, s)
  PROVE  Queues!T!Visits(q, h, s) /\ Queues!T!VisitsBack(q, h, s)
<1>1. Len(s) \in Nat /\ (s = <<>> <=> Len(s) = 0)
  BY LenProperties, EmptySeq
<1>2. q.link[h] = IF s = <<>> THEN Null ELSE s[1]
  BY <1>1 DEF Chain, Place, Behind
<1>3. ASSUME NEW i \in 1..Len(s) PROVE q.link[s[i]] = IF i = Len(s) THEN Null ELSE s[i + 1]
  BY <1>1, <1>3 DEF Chain, Place, Behind
<1>4. q.back[h] = IF s = <<>> THEN h ELSE s[Len(s)]
  BY <1>1 DEF Chain, Place, Holder
<1>5. ASSUME NEW i \in 1..Len(s) PROVE q.back[s[i]] = IF i = 1 THEN h ELSE s[i - 1]
  <2>1. i - 1 \in 0..Len(s) /\ i - 1 # Len(s) /\ (i - 1) + 1 = i /\ (i - 1 = 0 <=> i = 1)
    BY <1>1
  <2> QED
    BY <2>1 DEF Chain, Place, Holder
<1>6. q.link[q.back[q.back[h]]] = IF s = <<>> THEN Null ELSE s[Len(s)]
  <2>1. CASE s = <<>>
    BY <1>2, <1>4, <2>1
  <2>2. CASE s # <<>>
    <3>1. Len(s) \in 1..Len(s)
      BY <1>1, <2>2
    <3>2. CASE Len(s) = 1
      BY <1>2, <1>4, <1>5, <2>2, <3>1, <3>2
    <3>3. CASE Len(s) # 1
      <4>1. \A n \in Nat : n \in 1..n /\ n # 1 => n - 1 \in 1..n /\ n - 1 # n /\ (n - 1) + 1 = n
        OBVIOUS
      <4>2. /\ Len(s) - 1 \in 1..Len(s) /\ Len(s) - 1 # Len(s) /\ (Len(s) - 1) + 1 = Len(s)
        BY <1>1, <3>1, <3>3, <4>1
      <4>3. q.back[h] = s[Len(s)] /\ q.back[s[Len(s)]] = s[Len(s) - 1]
        BY <1>4, <1>5, <2>2, <3>1, <3>3
      <4> QED
        BY <1>3, <2>2, <4>2, <4>3
    <3> QED
      BY <3>2, <3>3
  <2> QED
    BY <2>1, <2>2
<1>7. ASSUME NEW i \in 1..Len(s)
      PROVE  q.link[q.back[q.back[s[i]]]] = IF i = 1 THEN Null ELSE s[i - 1]
  <2>1. CASE i = 1
    <3>1. s # <<>> /\ Len(s) \in 1..Len(s)
      BY <1>1
    <3> QED
      BY <1>3, <1>4, <1>5, <2>1, <3>1
  <2>2. CASE i # 1
    <3>1. i - 1 \in 1..Len(s) /\ q.back[s[i]] = s[i - 1] /\ s # <<>>
      BY <1>1, <1>5, <2>2
    <3>2. CASE i - 1 = 1
      BY <1>2, <1>5, <2>2, <3>1, <3>2
    <3>3. CASE i - 1 # 1
      <4>1. /\ (i - 1) - 1 \in 1..Len(s) /\ (i - 1) - 1 # Len(s)
            /\ ((i - 1) - 1) + 1 = i - 1
        BY <1>1, <3>1, <3>3
      <4>2. q.back[s[i - 1]] = s[(i - 1) - 1]
        BY <1>5, <3>1, <3>3
      <4>3. q.link[s[(i - 1) - 1]] = s[((i - 1) - 1) + 1]
        BY <1>3, <4>1
      <4> QED
        BY <2>2, <3>1, <4>1, <4>2, <4>3
    <3> QED
      BY <3>2, <3>3
  <2> QED
    BY <2>1, <2>2
<1> QED
  BY <1>2, <1>3, <1>6, <1>7 DEF Queues!T!Visits, Queues!T!VisitsBack, Queues!T!First,
     Queues!T!NextOf, Queues!T!Last, Queues!T!PrevOf

(* A step that leaves its links alone leaves a queue as it is. *)
LEMMA ChainStays ==
  ASSUME NEW h \in Heads, NEW s \in Seq(Elems), Distinct(s), NEW q, NEW r, Chain(q, h, s),
         \A l \in {h} \cup Members(s) : r.link[l] = q.link[l] /\ r.back[l] = q.back[l]
  PROVE  Chain(r, h, s)
BY LinksAreDistinct DEF Chain
-----------------------------------------------------------------------------
InsertedAt(s, k, e, t) ==
    /\ Len(t) = Len(s) + 1
    /\ \A i \in 1..Len(t) : t[i] = IF i <= k THEN s[i] ELSE IF i = k + 1 THEN e ELSE s[i - 1]

LEMMA InsertedLinks ==
  ASSUME NEW h, NEW s, Len(s) \in Nat, NEW k \in 0..Len(s), NEW e, NEW t, InsertedAt(s, k, e, t),
         NEW i \in 0..Len(t)
  PROVE  /\ i < k => /\ i \in 0..Len(s)
                     /\ Place(h, t, i) = Place(h, s, i) /\ Holder(h, t, i) = Holder(h, s, i)
                     /\ Behind(t, i) = Behind(s, i)
         /\ i = k => Place(h, t, i) = Place(h, s, k) /\ Holder(h, t, i) = e /\ Behind(t, i) = e
         /\ i = k + 1 => /\ Place(h, t, i) = e /\ Holder(h, t, i) = Holder(h, s, k)
                         /\ Behind(t, i) = Behind(s, k)
         /\ i > k + 1 => /\ i - 1 \in 0..Len(s) /\ i - 1 # k
                         /\ Place(h, t, i) = Place(h, s, i - 1)
                         /\ Holder(h, t, i) = Holder(h, s, i - 1)
                         /\ Behind(t, i) = Behind(s, i - 1)
<1>1. /\ Len(t) = Len(s) + 1
      /\ i # 0 => t[i] = IF i <= k THEN s[i] ELSE IF i = k + 1 THEN e ELSE s[i - 1]
      /\ i # Len(t) => t[i + 1] = IF i < k THEN s[i + 1] ELSE IF i = k THEN e ELSE s[i]
  <2>1. i # Len(t) => i + 1 \in 1..Len(t) /\ (i + 1) - 1 = i
    BY DEF InsertedAt
  <2> QED
    BY <2>1 DEF InsertedAt
<1>2. CASE i < k
  BY <1>1, <1>2 DEF Place, Holder, Behind
<1>3. CASE i = k
  BY <1>1, <1>3 DEF Place, Holder, Behind
<1>4. CASE i = k + 1
  BY <1>1, <1>4 DEF Place, Holder, Behind
<1>5. CASE i > k + 1
  <2>1. i - 1 \in 0..Len(s) /\ i - 1 # k /\ i - 1 # 0 /\ (i - 1) + 1 = i /\ i # 0
        /\ (i = Len(t) <=> i - 1 = Len(s)) /\ ~(i <= k) /\ ~(i < k) /\ i # k /\ i # k + 1
    BY <1>1, <1>5
  <2> QED
    BY <1>1, <1>5, <2>1 DEF Place, Holder, Behind
<1> QED
  BY <1>1, <1>2, <1>3, <1>4, <1>5

LEMMA LaterLinks ==
  ASSUME NEW h, NEW s, Len(s) \in Nat, NEW k \in 0..Len(s), NEW e, NEW t, InsertedAt(s, k, e, t),
         NEW i \in 0..Len(s), i > k
  PROVE  /\ i + 1 \in 0..Len(t) /\ Behind(t, i + 1) = Behind(s, i)
         /\ Place(h, t, i + 1) = Place(h, s, i) /\ Holder(h, t, i + 1) = Holder(h, s, i)
<1>1. /\ Len(t) = Len(s) + 1 /\ i + 1 \in 1..Len(t) /\ i \in Nat /\ k \in Nat
      /\ i # 0 /\ i + 1 # 0 /\ (i + 1 = Len(t) <=> i = Len(s))
  BY DEF InsertedAt
<1>2. t[i + 1] = s[i]
  <2>1. ~(i + 1 <= k) /\ i + 1 # k + 1 /\ (i + 1) - 1 = i
    BY <1>1
  <2> QED
    BY <1>1, <2>1 DEF InsertedAt
<1>3. i # Len(s) => t[(i + 1) + 1] = s[i + 1]
  <2>1. i # Len(s) => /\ (i + 1) + 1 \in 1..Len(t) /\ ~((i + 1) + 1 <= k) /\ (i + 1) + 1 # k + 1
                      /\ ((i + 1) + 1) - 1 = i + 1
    BY <1>1
  <2> QED
    BY <1>1, <2>1 DEF InsertedAt
<1> QED
  BY <1>1, <1>2, <1>3 DEF Place, Holder, Behind

(* What a macro that inserts e behind the k-th link makes of the links. *)
Inserts(q, h, s, k, e, r) ==
    /\ r \in QueueLinks
    /\ r.link = [q.link EXCEPT ![e] = Behind(s, k), ![Place(h, s, k)] = e]
    /\ r.back = [q.back EXCEPT ![e] = Place(h, s, k), ![Holder(h, s, k)] = e]

LEMMA InsertionChains ==
  ASSUME NEW h \in Heads, NEW s \in Seq(Elems), Distinct(s), NEW k \in 0..Len(s),
         NEW e \in Elems \ Members(s), NEW t, InsertedAt(s, k, e, t),
         NEW q \in QueueLinks, NEW r, Chain(q, h, s), Inserts(q, h, s, k, e, r)
  PROVE  Chain(r, h, t)
<1>1. Len(s) \in Nat /\ h # e
  BY LenProperties, CallsAssumption
<1>2. SUFFICES ASSUME NEW i \in 0..Len(t)
               PROVE  r.link[Place(h, t, i)] = Behind(t, i) /\ r.back[Holder(h, t, i)] = Place(h, t, i)
  BY DEF Chain
<1>3. /\ Place(h, s, k) \in Heads \cup Elems /\ Holder(h, s, k) \in Heads \cup Elems
      /\ Place(h, s, k) # e /\ Holder(h, s, k) # e
  BY <1>1, LinksAreDistinct
<1>4. /\ DOMAIN q.link = Heads \cup Elems /\ DOMAIN q.back = Heads \cup Elems
  BY DEF QueueLinks
<1>5. /\ r.link[e] = Behind(s, k) /\ r.link[Place(h, s, k)] = e
      /\ r.back[e] = Place(h, s, k) /\ r.back[Holder(h, s, k)] = e
  BY <1>3, <1>4 DEF Inserts
<1>6. ASSUME NEW j \in 0..Len(s), j # k
      PROVE  /\ r.link[Place(h, s, j)] = Behind(s, j)
             /\ r.back[Holder(h, s, j)] = Place(h, s, j)
  <2>1. /\ Place(h, s, j) # e /\ Holder(h, s, j) # e
        /\ Place(h, s, j) \in Heads \cup Elems /\ Holder(h, s, j) \in Heads \cup Elems
        /\ Place(h, s, j) # Place(h, s, k) /\ Holder(h, s, j) # Holder(h, s, k)
    BY <1>1, <1>6, LinksAreDistinct
  <2> QED
    BY <1>4, <2>1 DEF Chain, Inserts
<1>7. CASE i < k
  <2>1. i \in 0..Len(s) /\ i # k
    BY <1>1, <1>7, InsertedLinks
  <2> QED
    BY <1>1, <1>6, <1>7, <2>1, InsertedLinks
<1>8. CASE i = k
  BY <1>1, <1>5, <1>8, InsertedLinks
<1>9. CASE i = k + 1
  BY <1>1, <1>5, <1>9, InsertedLinks
<1>10. CASE i > k + 1
  <2>1. i - 1 \in 0..Len(s) /\ i - 1 # k
    BY <1>1, <1>10, InsertedLinks
  <2> QED
    BY <1>1, <1>6, <1>10, <2>1, InsertedLinks
<1>11. i \in Nat /\ k \in Nat
  BY DEF InsertedAt
<1> QED
  BY <1>7, <1>8, <1>9, <1>10, <1>11
-----------------------------------------------------------------------------
(* An element more, at one place in the order of one queue. *)
LEMMA InsertionKeeps ==
  ASSUME QueuesInv, NEW h \in Heads, NEW e \in Elems, \A g \in Heads : e \notin Members(order[g]),
         NEW k \in 0..Len(order[h]), NEW t \in Seq(Elems), InsertedAt(order[h], k, e, t),
         Inserts(links, h, order[h], k, e, links'),
         order' = [order EXCEPT ![h] = t]
  PROVE  QueuesInv'
<1> DEFINE s == order[h]
<1>1. /\ s \in Seq(Elems) /\ Distinct(s) /\ Chain(links, h, s) /\ Len(s) \in Nat
      /\ e \in Elems \ Members(s) /\ links \in QueueLinks
  BY LenProperties DEF QueuesInv
<1> HIDE DEF s
<1>2. order' \in [Heads -> Seq(Elems)] /\ order'[h] = t /\ \A g \in Heads \ {h} : order'[g] = order[g]
  BY DEF QueuesInv
<1>3. Chain(links', h, t)
  BY <1>1, InsertionChains DEF s
<1>4. /\ \A i \in 1..Len(t) : IF i = k + 1 THEN t[i] = e
                               ELSE \E j \in 1..Len(s) : t[i] = s[j] /\ j = IF i <= k THEN i ELSE i - 1
  <2> SUFFICES ASSUME NEW i \in 1..Len(t), i # k + 1
               PROVE  \E j \in 1..Len(s) : t[i] = s[j] /\ j = IF i <= k THEN i ELSE i - 1
    BY DEF s, InsertedAt
  <2>1. (IF i <= k THEN i ELSE i - 1) \in 1..Len(s)
    BY <1>1 DEF s, InsertedAt
  <2> QED
    BY <2>1 DEF s, InsertedAt
<1>5. Distinct(t)
  <2> SUFFICES ASSUME NEW i \in 1..Len(t), NEW j \in 1..Len(t), t[i] = t[j]
               PROVE  i = j
    BY DEF Distinct
  <2>1. CASE i = k + 1 \/ j = k + 1
    BY <1>1, <1>4, <2>1 DEF Members
  <2>2. CASE i # k + 1 /\ j # k + 1
    <3>1. PICK m \in 1..Len(s) : t[i] = s[m] /\ m = IF i <= k THEN i ELSE i - 1
      BY <1>4, <2>2
    <3>2. PICK n \in 1..Len(s) : t[j] = s[n] /\ n = IF j <= k THEN j ELSE j - 1
      BY <1>4, <2>2
    <3>3. m = n
      BY <1>1, <3>1, <3>2 DEF Distinct
    <3> QED
      BY <1>1, <2>2, <3>1, <3>2, <3>3 DEF InsertedAt
  <2> QED
    BY <2>1, <2>2
<1>6. Members(t) \subseteq Members(s) \cup {e}
  BY <1>4 DEF Members
<1>7. ASSUME NEW g \in Heads \ {h} PROVE Chain(links', g, order[g])
  <2>1. /\ order[g] \in Seq(Elems) /\ Distinct(order[g]) /\ Chain(links, g, order[g])
        /\ Members(order[g]) \cap Members(s) = {} /\ e \notin Members(order[g])
    BY DEF QueuesInv, s
  <2>2. Members(order[g]) \subseteq Elems /\ Members(s) \subseteq Elems
    BY <1>1, <2>1, ElementOfSeq DEF Members
  <2>3. /\ Place(h, s, k) \in {h} \cup Members(s) /\ Holder(h, s, k) \in {h} \cup Members(s)
    BY <1>1, LinksAreDistinct DEF s
  <2>4. \A l \in {g} \cup Members(order[g]) : l # e /\ l # Place(h, s, k) /\ l # Holder(h, s, k)
    BY <2>1, <2>2, <2>3, CallsAssumption
  <2>5. \A l \in {g} \cup Members(order[g]) : links'.link[l] = links.link[l] /\ links'.back[l] = links.back[l]
    BY <1>1, <2>2, <2>4 DEF QueueLinks, Inserts, s
  <2> QED
    BY <2>1, <2>5, ChainStays
<1>8. ASSUME NEW g \in Heads, NEW f \in Heads, g # f
      PROVE  Members(order'[g]) \cap Members(order'[f]) = {}
  <2>1. \A m \in Heads \ {h} : Members(order[m]) \cap Members(s) = {} /\ e \notin Members(order[m])
    BY DEF QueuesInv, s
  <2>2. CASE g = h
    BY <1>2, <1>6, <1>8, <2>1, <2>2
  <2>3. CASE f = h
    BY <1>2, <1>6, <1>8, <2>1, <2>3
  <2>4. CASE g # h /\ f # h
    BY <1>2, <1>8, <2>4 DEF QueuesInv
  <2> QED
    BY <2>2, <2>3, <2>4
<1> QED
  BY <1>2, <1>3, <1>5, <1>7, <1>8 DEF QueuesInv, Inserts
-----------------------------------------------------------------------------
(* What is removed is what was inserted: s is t with e at a place more. *)
Removes(q, h, t, k, e, r) ==
    /\ r \in QueueLinks
    /\ r.link = [q.link EXCEPT ![Place(h, t, k)] = Behind(t, k), ![e] = Null]
    /\ r.back = [q.back EXCEPT ![Holder(h, t, k)] = Place(h, t, k), ![e] = Null]

LEMMA RemovalChains ==
  ASSUME NEW h \in Heads, NEW s \in Seq(Elems), Distinct(s), NEW t \in Seq(Elems), Distinct(t),
         NEW k \in 0..Len(t), NEW e \in Elems \ Members(t), InsertedAt(t, k, e, s),
         NEW q \in QueueLinks, NEW r, Chain(q, h, s), Removes(q, h, t, k, e, r)
  PROVE  Chain(r, h, t)
<1>1. /\ Len(t) \in Nat /\ Len(s) = Len(t) + 1 /\ h # e
      /\ DOMAIN q.link = Heads \cup Elems /\ DOMAIN q.back = Heads \cup Elems
  BY LenProperties, CallsAssumption DEF InsertedAt, QueueLinks
<1>2. SUFFICES ASSUME NEW j \in 0..Len(t)
               PROVE  r.link[Place(h, t, j)] = Behind(t, j) /\ r.back[Holder(h, t, j)] = Place(h, t, j)
  BY DEF Chain
<1>3. \A i \in 0..Len(t) : /\ Place(h, t, i) \in Heads \cup Elems /\ Place(h, t, i) # e
                           /\ Holder(h, t, i) \in Heads \cup Elems /\ Holder(h, t, i) # e
  BY <1>1, LinksAreDistinct
<1>4. CASE j = k
  BY <1>1, <1>3, <1>4 DEF Removes
<1>5. ASSUME j # k
      PROVE  q.link[Place(h, t, j)] = Behind(t, j) /\ q.back[Holder(h, t, j)] = Place(h, t, j)
  <2>1. CASE j < k
    <3>1. j \in 0..Len(s)
      BY <1>1
    <3> QED
      BY <1>1, <2>1, <3>1, InsertedLinks DEF Chain
  <2>2. CASE j > k
    <3>1. /\ j + 1 \in 0..Len(s) /\ Behind(s, j + 1) = Behind(t, j)
          /\ Place(h, s, j + 1) = Place(h, t, j) /\ Holder(h, s, j + 1) = Holder(h, t, j)
      BY <1>1, <2>2, LaterLinks
    <3> QED
      BY <3>1 DEF Chain
  <2> QED
    BY <1>1, <1>5, <2>1, <2>2
<1>6. CASE j # k
  <2>1. Place(h, t, j) # Place(h, t, k) /\ Holder(h, t, j) # Holder(h, t, k)
    BY <1>6, LinksAreDistinct
  <2> QED
    BY <1>1, <1>3, <1>5, <1>6, <2>1 DEF Removes
<1> QED
  BY <1>4, <1>6

LEMMA RemovalKeeps ==
  ASSUME QueuesInv, NEW h \in Heads, NEW e \in Elems, NEW t \in Seq(Elems), NEW k \in 0..Len(t),
         InsertedAt(t, k, e, order[h]),
         Removes(links, h, t, k, e, links'),
         order' = [order EXCEPT ![h] = t]
  PROVE  QueuesInv'
<1> DEFINE s == order[h]
<1>1. /\ s \in Seq(Elems) /\ Distinct(s) /\ Chain(links, h, s) /\ Len(s) = Len(t) + 1
      /\ Len(t) \in Nat /\ links \in QueueLinks /\ InsertedAt(t, k, e, s)
  BY LenProperties DEF QueuesInv, InsertedAt
<1> HIDE DEF s
<1>2. order' \in [Heads -> Seq(Elems)] /\ order'[h] = t /\ \A g \in Heads \ {h} : order'[g] = order[g]
  BY DEF QueuesInv
<1>3. k + 1 \in 1..Len(s) /\ s[k + 1] = e
  BY <1>1 DEF InsertedAt
<1>4. \A i \in 1..Len(t) : \E m \in 1..Len(s) :
         t[i] = s[m] /\ m # k + 1 /\ m = IF i <= k THEN i ELSE i + 1
  <2> SUFFICES ASSUME NEW i \in 1..Len(t)
               PROVE  \E m \in 1..Len(s) : t[i] = s[m] /\ m # k + 1 /\ m = IF i <= k THEN i ELSE i + 1
    OBVIOUS
  <2> DEFINE m == IF i <= k THEN i ELSE i + 1
  <2>1. m \in 1..Len(s) /\ m # k + 1 /\ (m <= k <=> i <= k) /\ (~(i <= k) => m - 1 = i)
    BY <1>1
  <2>2. t[i] = s[m]
    BY <1>1, <2>1 DEF InsertedAt
  <2> QED
    BY <2>1, <2>2
<1>5. Distinct(t) /\ e \notin Members(t) /\ Members(t) \subseteq Members(s)
  <2>1. Distinct(t)
    <3> SUFFICES ASSUME NEW i \in 1..Len(t), NEW j \in 1..Len(t), t[i] = t[j]
                 PROVE  i = j
      BY DEF Distinct
    <3>1. PICK m \in 1..Len(s) : t[i] = s[m] /\ m = IF i <= k THEN i ELSE i + 1
      BY <1>4
    <3>2. PICK n \in 1..Len(s) : t[j] = s[n] /\ n = IF j <= k THEN j ELSE j + 1
      BY <1>4
    <3>3. m = n
      BY <1>1, <3>1, <3>2 DEF Distinct
    <3> QED
      BY <1>1, <3>1, <3>2, <3>3
  <2>2. ASSUME NEW i \in 1..Len(t) PROVE t[i] # e
    <3>1. PICK m \in 1..Len(s) : t[i] = s[m] /\ m # k + 1
      BY <1>4
    <3> QED
      BY <1>1, <1>3, <3>1 DEF Distinct
  <2>3. e \notin Members(t)
    BY <2>2 DEF Members
  <2>4. Members(t) \subseteq Members(s)
    BY <1>4 DEF Members
  <2> QED
    BY <2>1, <2>3, <2>4
<1>6. Chain(links', h, t)
  BY <1>1, <1>5, RemovalChains
<1>7. ASSUME NEW g \in Heads \ {h} PROVE Chain(links', g, order[g])
  <2>1. /\ order[g] \in Seq(Elems) /\ Distinct(order[g]) /\ Chain(links, g, order[g])
        /\ Members(order[g]) \cap Members(s) = {}
    BY DEF QueuesInv, s
  <2>2. Members(order[g]) \subseteq Elems /\ Members(s) \subseteq Elems /\ e \in Members(s)
    BY <1>1, <1>3, <2>1, ElementOfSeq DEF Members
  <2>3. /\ Place(h, t, k) \in {h} \cup Members(s) /\ Holder(h, t, k) \in {h} \cup Members(s)
    BY <1>5, LinksAreDistinct
  <2>4. \A l \in {g} \cup Members(order[g]) : l # e /\ l # Place(h, t, k) /\ l # Holder(h, t, k)
    BY <2>1, <2>2, <2>3, CallsAssumption
  <2>5. \A l \in {g} \cup Members(order[g]) : links'.link[l] = links.link[l] /\ links'.back[l] = links.back[l]
    BY <1>1, <2>2, <2>4 DEF QueueLinks, Removes
  <2> QED
    BY <2>1, <2>5, ChainStays
<1>8. ASSUME NEW g \in Heads, NEW f \in Heads, g # f
      PROVE  Members(order'[g]) \cap Members(order'[f]) = {}
  <2>1. \A m \in Heads \ {h} : Members(order[m]) \cap Members(s) = {}
    BY DEF QueuesInv, s
  <2>2. CASE g = h
    BY <1>2, <1>5, <1>8, <2>1, <2>2
  <2>3. CASE f = h
    BY <1>2, <1>5, <1>8, <2>1, <2>3
  <2>4. CASE g # h /\ f # h
    BY <1>2, <1>8, <2>4 DEF QueuesInv
  <2> QED
    BY <2>2, <2>3, <2>4
<1> QED
  BY <1>2, <1>5, <1>6, <1>7, <1>8 DEF QueuesInv, Removes
-----------------------------------------------------------------------------
(* TAILQ_CONCAT *)
Joined(s, t, u) == /\ Len(u) = Len(s) + Len(t)
                   /\ \A i \in 1..Len(u) : u[i] = IF i <= Len(s) THEN s[i] ELSE t[i - Len(s)]

LEMMA JoinedLinks ==
  ASSUME NEW h, NEW g, NEW s, NEW t, NEW u, Len(s) \in Nat, Len(t) \in Nat \ {0}, Joined(s, t, u),
         NEW i \in 0..Len(u)
  PROVE  /\ i < Len(s) => /\ i \in 0..Len(s)
                          /\ Place(h, u, i) = Place(h, s, i) /\ Holder(h, u, i) = Holder(h, s, i)
                          /\ Behind(u, i) = Behind(s, i)
         /\ i = Len(s) => /\ Place(h, u, i) = Place(h, s, i) /\ Holder(h, u, i) = t[1]
                          /\ Behind(u, i) = t[1]
         /\ i > Len(s) => /\ i - Len(s) \in 1..Len(t)
                          /\ Place(h, u, i) = Place(g, t, i - Len(s))
                          /\ Behind(u, i) = Behind(t, i - Len(s))
                          /\ Holder(h, u, i) = IF i = Len(u) THEN h ELSE Holder(g, t, i - Len(s))
<1> USE DEF Joined
<1>1. /\ i # 0 => u[i] = IF i <= Len(s) THEN s[i] ELSE t[i - Len(s)]
      /\ i # Len(u) => u[i + 1] = IF i < Len(s) THEN s[i + 1] ELSE t[(i + 1) - Len(s)]
  <2>1. i # Len(u) => i + 1 \in 1..Len(u) /\ (i + 1 <= Len(s) <=> i < Len(s))
    OBVIOUS
  <2> QED
    BY <2>1
<1>2. CASE i < Len(s)
  BY <1>1, <1>2 DEF Place, Holder, Behind
<1>3. CASE i = Len(s)
  <2>1. i # Len(u) /\ (i + 1) - Len(s) = 1
    BY <1>3
  <2> QED
    BY <1>1, <1>3, <2>1 DEF Place, Holder, Behind
<1>4. CASE i > Len(s)
  <2>1. /\ i - Len(s) \in 1..Len(t) /\ (i + 1) - Len(s) = (i - Len(s)) + 1 /\ i # 0
        /\ i - Len(s) # 0 /\ (i = Len(u) <=> i - Len(s) = Len(t)) /\ ~(i <= Len(s)) /\ ~(i < Len(s))
    BY <1>4
  <2> QED
    BY <1>1, <1>4, <2>1 DEF Place, Holder, Behind
<1> QED
  BY <1>2, <1>3, <1>4

LEMMA ConcatChains ==
  ASSUME NEW h \in Heads, NEW g \in Heads \ {h}, NEW s \in Seq(Elems), Distinct(s),
         NEW t \in Seq(Elems), Distinct(t), t # <<>>, Members(s) \cap Members(t) = {},
         NEW q \in QueueLinks, NEW r, Chain(q, h, s), Chain(q, g, t),
         r.link = [q.link EXCEPT ![q.back[h]] = q.link[g], ![g] = Null],
         r.back = [q.back EXCEPT ![q.link[g]] = q.back[h], ![h] = q.back[g], ![g] = g]
  PROVE  Chain(r, h, s \o t) /\ Chain(r, g, <<>>)
<1> DEFINE u == s \o t
           m == Len(s)
<1>1. /\ m \in Nat /\ Len(t) \in Nat \ {0} /\ Len(u) = m + Len(t)
      /\ \A i \in 1..Len(u) : u[i] = IF i <= m THEN s[i] ELSE t[i - m]
      /\ DOMAIN q.link = Heads \cup Elems /\ DOMAIN q.back = Heads \cup Elems
  BY LenProperties, EmptySeq, ConcatProperties DEF QueueLinks
<1>2. Members(s) \subseteq Elems /\ Members(t) \subseteq Elems /\ h \notin Elems /\ g \notin Elems
  BY ElementOfSeq, CallsAssumption DEF Members
<1> HIDE DEF u
<1>3. /\ q.back[h] = Place(h, s, m) /\ q.link[g] = t[1] /\ q.back[g] = Place(g, t, Len(t))
      /\ t[1] = Holder(g, t, 0) /\ t[1] \in Members(t)
  <2>1. m \in 0..m /\ 0 \in 0..Len(t) /\ Len(t) \in 0..Len(t) /\ Len(t) # 0 /\ 1 \in 1..Len(t)
    BY <1>1
  <2>2. q.link[g] = Behind(t, 0) /\ q.back[h] = Place(h, s, m) /\ q.back[g] = Place(g, t, Len(t))
    BY <2>1 DEF Chain, Place, Holder
  <2> QED
    BY <2>1, <2>2 DEF Behind, Holder, Members
<1>4. Place(h, s, m) \in {h} \cup Members(s)
  BY <1>1, LinksAreDistinct
<1>5. Chain(r, g, <<>>)
  <2>1. r.link[g] = Null /\ r.back[g] = g
    BY <1>1, <1>2, <1>3, <1>4
  <2> QED
    BY <2>1 DEF Chain, Place, Holder, Behind
<1>6. ASSUME NEW l \in Elems, l \notin {t[1], Place(h, s, m)}
      PROVE  r.link[l] = q.link[l] /\ r.back[l] = q.back[l]
  BY <1>1, <1>2, <1>3, <1>6
<1>7. /\ r.link[Place(h, s, m)] = t[1] /\ r.back[t[1]] = Place(h, s, m)
      /\ r.back[h] = Place(g, t, Len(t))
  BY <1>1, <1>2, <1>3, <1>4
<1>8. SUFFICES ASSUME NEW i \in 0..Len(u)
               PROVE  r.link[Place(h, u, i)] = Behind(u, i) /\ r.back[Holder(h, u, i)] = Place(h, u, i)
  BY <1>5 DEF Chain, u
<1>12. /\ i < m => /\ i \in 0..m
                   /\ Place(h, u, i) = Place(h, s, i) /\ Holder(h, u, i) = Holder(h, s, i)
                   /\ Behind(u, i) = Behind(s, i)
       /\ i = m => Place(h, u, i) = Place(h, s, i) /\ Holder(h, u, i) = t[1] /\ Behind(u, i) = t[1]
       /\ i > m => /\ i - m \in 1..Len(t)
                   /\ Place(h, u, i) = Place(g, t, i - m) /\ Behind(u, i) = Behind(t, i - m)
                   /\ Holder(h, u, i) = IF i = Len(u) THEN h ELSE Holder(g, t, i - m)
  <2>1. Len(s) \in Nat /\ Len(t) \in Nat \ {0} /\ Joined(s, t, u)
    BY <1>1 DEF Joined
  <2> QED
    BY <2>1, JoinedLinks
<1>9. CASE i < m
  <2>1. /\ i \in 0..m /\ Place(h, u, i) = Place(h, s, i) /\ Holder(h, u, i) = Holder(h, s, i)
        /\ Behind(u, i) = Behind(s, i)
    BY <1>9, <1>12
  <2>2. q.link[Place(h, s, i)] = Behind(s, i) /\ q.back[Holder(h, s, i)] = Place(h, s, i)
    BY <2>1 DEF Chain
  <2>3. Place(h, s, i) \in {h} \cup Members(s) /\ Place(h, s, i) # Place(h, s, m)
    BY <1>1, <1>9, <2>1, LinksAreDistinct
  <2>4. r.link[Place(h, s, i)] = q.link[Place(h, s, i)]
    BY <1>1, <1>2, <1>3, <2>3
  <2>5. Holder(h, s, i) \in Members(s)
    <3>1. i + 1 \in 1..m /\ i # m
      BY <1>1, <1>9
    <3> QED
      BY <3>1 DEF Holder, Members
  <2>6. r.back[Holder(h, s, i)] = q.back[Holder(h, s, i)]
    BY <1>1, <1>2, <1>3, <2>5
  <2> QED
    BY <2>1, <2>2, <2>4, <2>6
<1>10. CASE i = m
  BY <1>7, <1>10, <1>12
<1>11. CASE i > m
  <2> DEFINE j == i - m
  <2>1. /\ j \in 1..Len(t) /\ Place(h, u, i) = Place(g, t, j) /\ Behind(u, i) = Behind(t, j)
        /\ Holder(h, u, i) = IF i = Len(u) THEN h ELSE Holder(g, t, j)
        /\ j \in 0..Len(t) /\ j # 0 /\ (i = Len(u) <=> j = Len(t))
    BY <1>1, <1>11, <1>12
  <2> HIDE DEF j
  <2>2. q.link[Place(g, t, j)] = Behind(t, j) /\ q.back[Holder(g, t, j)] = Place(g, t, j)
    BY <2>1 DEF Chain
  <2>3. Place(g, t, j) \in Members(t)
    BY <2>1 DEF Place, Members
  <2>4. r.link[Place(g, t, j)] = q.link[Place(g, t, j)]
    BY <1>1, <1>2, <1>3, <1>4, <2>3
  <2>5. CASE j = Len(t)
    BY <1>7, <2>1, <2>2, <2>4, <2>5
  <2>6. CASE j # Len(t)
    <3>1. Holder(g, t, j) \in Members(t) /\ Holder(g, t, j) # t[1]
      <4>1. j + 1 \in 1..Len(t) /\ 0 \in 0..Len(t) /\ 0 # j
        BY <1>1, <2>1, <2>6
      <4> QED
        BY <1>3, <2>1, <2>6, <4>1, LinksAreDistinct DEF Holder, Members
    <3>2. r.back[Holder(g, t, j)] = q.back[Holder(g, t, j)]
      BY <1>1, <1>2, <1>3, <3>1
    <3> QED
      BY <2>1, <2>2, <2>4, <2>6, <3>2
  <2> QED
    BY <2>5, <2>6
<1> QED
  BY <1>1, <1>8, <1>9, <1>10, <1>11

LEMMA ConcatKeeps ==
  ASSUME QueuesInv, NEW h \in Heads, NEW g \in Heads, h # g, Queues!Concat(h, g)
  PROVE  QueuesInv'
<1> DEFINE s == order[h]
           t == order[g]
<1>1. /\ s \in Seq(Elems) /\ Distinct(s) /\ Chain(links, h, s) /\ Len(s) \in Nat
      /\ t \in Seq(Elems) /\ Distinct(t) /\ Chain(links, g, t) /\ Len(t) \in Nat
      /\ Members(s) \cap Members(t) = {} /\ links \in QueueLinks
      /\ Members(s) \subseteq Elems /\ Members(t) \subseteq Elems
  <2>1. /\ s \in Seq(Elems) /\ Distinct(s) /\ Chain(links, h, s)
        /\ t \in Seq(Elems) /\ Distinct(t) /\ Chain(links, g, t)
        /\ Members(s) \cap Members(t) = {} /\ links \in QueueLinks
    BY DEF QueuesInv
  <2>2. Len(s) \in Nat /\ Len(t) \in Nat
    BY <2>1, LenProperties
  <2>3. Members(s) \subseteq Elems /\ Members(t) \subseteq Elems
    BY <2>1, ElementOfSeq DEF Members
  <2> QED
    BY <2>1, <2>2, <2>3
<1>2. /\ order' = [order EXCEPT ![h] = s \o t, ![g] = <<>>]
      /\ links' = Queues!T!Concat(links, h, g)
  BY DEF Queues!Concat
<1> HIDE DEF s, t
<1>3. links.link[g] = Behind(t, 0) /\ (t = <<>> <=> Len(t) = 0) /\ (links.link[g] = Null <=> t = <<>>)
  <2>1. links.link[g] = Behind(t, 0)
    BY <1>1 DEF Chain, Place
  <2>2. t = <<>> <=> Len(t) = 0
    BY <1>1, EmptySeq
  <2>3. t # <<>> => t[1] \in Elems
    BY <1>1, <2>2, ElementOfSeq
  <2> QED
    BY <1>1, <2>1, <2>2, <2>3, CallsAssumption DEF Behind
<1>4. CASE t = <<>>
  <2>1. links' = links
    BY <1>2, <1>3, <1>4 DEF Queues!T!Concat, Queues!T!Empty, Queues!T!First
  <2>2. order' = order
    BY <1>1, <1>2, <1>4, ConcatEmptySeq DEF s, t, QueuesInv
  <2> QED
    BY <2>1, <2>2 DEF QueuesInv
<1>5. CASE t # <<>>
  <2>1. links' = [links EXCEPT !.link[links.back[h]] = links.link[g],
                               !.back[links.link[g]] = links.back[h],
                               !.back[h] = links.back[g], !.link[g] = Null, !.back[g] = g]
    BY <1>2, <1>3, <1>5 DEF Queues!T!Concat, Queues!T!Empty, Queues!T!First
  <2>2. /\ links'.link = [links.link EXCEPT ![links.back[h]] = links.link[g], ![g] = Null]
        /\ links'.back = [links.back EXCEPT ![links.link[g]] = links.back[h],
                                            ![h] = links.back[g], ![g] = g]
    BY <1>1, <2>1 DEF QueueLinks
  <2>3. links' \in QueueLinks
    <3>1. links.link[g] \in Elems /\ links.back[h] \in Heads \cup Elems /\ links.back[g] \in Heads \cup Elems
      <4>1. /\ links.back[h] = Place(h, s, Len(s)) /\ links.back[g] = Place(g, t, Len(t))
        BY <1>1 DEF Chain, Holder
      <4>2. links.link[g] # Null
        BY <1>3, <1>5
      <4> QED
        BY <1>1, <4>1, <4>2, LinksAreDistinct DEF QueueLinks
    <3> QED
      BY <1>1, <2>1, <3>1 DEF QueueLinks
  <2>4. Chain(links', h, s \o t) /\ Chain(links', g, <<>>)
    BY <1>1, <1>5, <2>2, ConcatChains
  <2>5. /\ s \o t \in Seq(Elems) /\ Len(s \o t) = Len(s) + Len(t)
        /\ \A i \in 1..Len(s \o t) : (s \o t)[i] = IF i <= Len(s) THEN s[i] ELSE t[i - Len(s)]
    BY <1>1, ConcatProperties
  <2>6. Distinct(s \o t) /\ Members(s \o t) \subseteq Members(s) \cup Members(t)
    <3> DEFINE u == s \o t
    <3>1. \A i \in 1..Len(u) : /\ i <= Len(s) => i \in 1..Len(s) /\ u[i] = s[i]
                               /\ ~(i <= Len(s)) => i - Len(s) \in 1..Len(t) /\ u[i] = t[i - Len(s)]
      BY <1>1, <2>5
    <3> HIDE DEF u
    <3>2. Members(u) \subseteq Members(s) \cup Members(t)
      BY <3>1 DEF Members
    <3>3. ASSUME NEW i \in 1..Len(u), NEW j \in 1..Len(u), u[i] = u[j] PROVE i = j
      <4>0. /\ \A n \in 1..Len(s) : s[n] \in Members(s)
            /\ \A n \in 1..Len(t) : t[n] \in Members(t)
        BY DEF Members
      <4>1. CASE i <= Len(s) /\ j <= Len(s)
        BY <1>1, <3>1, <3>3, <4>1 DEF Distinct
      <4>2. CASE i <= Len(s) /\ ~(j <= Len(s))
        BY <1>1, <3>1, <3>3, <4>0, <4>2
      <4>3. CASE ~(i <= Len(s)) /\ j <= Len(s)
        BY <1>1, <3>1, <3>3, <4>0, <4>3
      <4>4. CASE ~(i <= Len(s)) /\ ~(j <= Len(s))
        <5>1. i - Len(s) = j - Len(s)
          BY <1>1, <3>1, <3>3, <4>4 DEF Distinct
        <5> QED
          BY <1>1, <5>1
      <4> QED
        BY <4>1, <4>2, <4>3, <4>4
    <3> QED
      BY <3>2, <3>3 DEF Distinct, u
  <2>7. /\ order' \in [Heads -> Seq(Elems)] /\ order'[h] = s \o t /\ order'[g] = <<>>
        /\ \A f \in Heads \ {h, g} : order'[f] = order[f]
    BY <1>2, <2>5, EmptySeq DEF QueuesInv
  <2>8. Distinct(<<>>) /\ Members(<<>>) = {}
    BY DEF Distinct, Members
  <2>9. ASSUME NEW f \in Heads \ {h, g} PROVE Chain(links', f, order[f])
    <3>1. /\ order[f] \in Seq(Elems) /\ Distinct(order[f]) /\ Chain(links, f, order[f])
          /\ Members(order[f]) \cap Members(s) = {} /\ Members(order[f]) \cap Members(t) = {}
          /\ Members(order[f]) \subseteq Elems
      <4>1. /\ order[f] \in Seq(Elems) /\ Distinct(order[f]) /\ Chain(links, f, order[f])
            /\ Members(order[f]) \cap Members(s) = {} /\ Members(order[f]) \cap Members(t) = {}
        BY DEF QueuesInv, s, t
      <4>2. Members(order[f]) \subseteq Elems
        BY <4>1, ElementOfSeq DEF Members
      <4> QED
        BY <4>1, <4>2
    <3>2. links.back[h] \in {h} \cup Members(s) /\ links.link[g] \in Members(t)
      <4>1. links.back[h] = Place(h, s, Len(s)) /\ links.link[g] = t[1] /\ 1 \in 1..Len(t)
        BY <1>1, <1>3, <1>5 DEF Chain, Holder, Behind
      <4> QED
        BY <1>1, <4>1, LinksAreDistinct DEF Members
    <3>3. \A l \in {f} \cup Members(order[f]) : l \notin {h, g, links.back[h], links.link[g]}
      BY <1>1, <3>1, <3>2, CallsAssumption
    <3>4. \A l \in {f} \cup Members(order[f]) : links'.link[l] = links.link[l] /\ links'.back[l] = links.back[l]
      BY <1>1, <2>2, <3>1, <3>3 DEF QueueLinks
    <3> QED
      BY <3>1, <3>4, ChainStays
  <2>10. ASSUME NEW a \in Heads, NEW b \in Heads, a # b
         PROVE  Members(order'[a]) \cap Members(order'[b]) = {}
    <3>1. \A f \in Heads \ {h, g} : Members(order[f]) \cap (Members(s) \cup Members(t)) = {}
      BY DEF QueuesInv, s, t
    <3>2. CASE a \in {h, g} \/ b \in {h, g}
      BY <2>6, <2>7, <2>8, <2>10, <3>1, <3>2
    <3>3. CASE a \notin {h, g} /\ b \notin {h, g}
      BY <2>7, <2>10, <3>3 DEF QueuesInv
    <3> QED
      BY <3>2, <3>3
  <2> QED
    BY <2>3, <2>4, <2>6, <2>7, <2>8, <2>9, <2>10 DEF QueuesInv
<1> QED
  BY <1>4, <1>5
-----------------------------------------------------------------------------
(* TAILQ_SWAP: h takes over the elements of g. *)
LEMMA SwapChains ==
  ASSUME NEW h \in Heads, NEW g \in Heads, NEW t \in Seq(Elems), Distinct(t),
         NEW q, NEW r, Chain(q, g, t),
         r.link[h] = q.link[g], Len(t) # 0 => r.back[h] = q.back[g],
         r.back[Holder(h, t, 0)] = h,
         \A l \in Members(t) : /\ r.link[l] = q.link[l]
                               /\ l # Holder(h, t, 0) => r.back[l] = q.back[l]
  PROVE  Chain(r, h, t)
<1>1. Len(t) \in Nat
  BY LenProperties
<1>2. SUFFICES ASSUME NEW i \in 0..Len(t)
               PROVE  r.link[Place(h, t, i)] = Behind(t, i) /\ r.back[Holder(h, t, i)] = Place(h, t, i)
  BY DEF Chain
<1>3. q.link[Place(g, t, i)] = Behind(t, i) /\ q.back[Holder(g, t, i)] = Place(g, t, i)
  BY DEF Chain
<1>4. CASE i = 0
  BY <1>3, <1>4 DEF Place
<1>5. CASE i # 0
  <2>1. /\ i \in 1..Len(t) /\ Place(h, t, i) = t[i] /\ Place(g, t, i) = t[i] /\ t[i] \in Members(t)
    BY <1>1, <1>5 DEF Place, Members
  <2>2. CASE i = Len(t)
    BY <1>1, <1>3, <1>5, <2>1, <2>2 DEF Holder
  <2>3. CASE i # Len(t)
    <3>1. /\ i + 1 \in 1..Len(t) /\ 0 \in 0..Len(t) /\ 0 # i
      BY <1>1, <1>5, <2>3
    <3>2. Holder(h, t, i) = t[i + 1] /\ Holder(g, t, i) = t[i + 1] /\ t[i + 1] \in Members(t)
      BY <2>3, <3>1 DEF Holder, Members
    <3>3. Holder(h, t, i) # Holder(h, t, 0)
      BY <3>1, LinksAreDistinct
    <3> QED
      BY <1>3, <2>1, <3>2, <3>3
  <2> QED
    BY <2>2, <2>3
<1> QED
  BY <1>4, <1>5

LEMMA SwapKeeps ==
  ASSUME QueuesInv, NEW h \in Heads, NEW g \in Heads, h # g, Queues!Swap(h, g)
  PROVE  QueuesInv'
<1> DEFINE s == order[h]
           t == order[g]
           hh == Holder(h, t, 0)
           hg == Holder(g, s, 0)
<1>1. /\ s \in Seq(Elems) /\ Distinct(s) /\ Chain(links, h, s) /\ Len(s) \in Nat
      /\ t \in Seq(Elems) /\ Distinct(t) /\ Chain(links, g, t) /\ Len(t) \in Nat
      /\ Members(s) \cap Members(t) = {} /\ links \in QueueLinks
      /\ Members(s) \subseteq Elems /\ Members(t) \subseteq Elems
  <2>1. /\ s \in Seq(Elems) /\ Distinct(s) /\ Chain(links, h, s)
        /\ t \in Seq(Elems) /\ Distinct(t) /\ Chain(links, g, t)
        /\ Members(s) \cap Members(t) = {} /\ links \in QueueLinks
    BY DEF QueuesInv
  <2>2. Len(s) \in Nat /\ Len(t) \in Nat
    BY <2>1, LenProperties
  <2>3. Members(s) \subseteq Elems /\ Members(t) \subseteq Elems
    BY <2>1, ElementOfSeq DEF Members
  <2> QED
    BY <2>1, <2>2, <2>3
<1>2. /\ order' = [order EXCEPT ![h] = t, ![g] = s]
      /\ links' = Queues!T!Swap(links, h, g)
  BY DEF Queues!Swap
<1> HIDE DEF s, t
<1>3. /\ hh = (IF links.link[g] = Null THEN h ELSE links.link[g]) /\ hh \in {h} \cup Members(t)
      /\ hg = (IF links.link[h] = Null THEN g ELSE links.link[h]) /\ hg \in {g} \cup Members(s)
  <2>1. links.link[g] = Behind(t, 0) /\ links.link[h] = Behind(s, 0)
    BY <1>1 DEF Chain, Place
  <2>2. (Len(t) # 0 => t[1] \in Members(t)) /\ (Len(s) # 0 => s[1] \in Members(s))
    <3>1. (Len(t) # 0 => 1 \in 1..Len(t)) /\ (Len(s) # 0 => 1 \in 1..Len(s))
      BY <1>1
    <3> QED
      BY <3>1 DEF Members
  <2> QED
    BY <1>1, <2>1, <2>2, CallsAssumption DEF Behind, Holder
<1> HIDE DEF hh, hg
<1>4. links' \in QueueLinks /\ links'.link = [links.link EXCEPT ![h] = links.link[g], ![g] = links.link[h]]
      /\ links'.back = [links.back EXCEPT ![h] = links.back[g], ![g] = links.back[h], ![hh] = h, ![hg] = g]
  <2> DEFINE q1 == [links EXCEPT !.link[h] = links.link[g], !.back[h] = links.back[g],
                                 !.link[g] = links.link[h], !.back[g] = links.back[h]]
             q2 == Queues!T!PointBack(q1, h, h, h)
  <2>1. /\ q1 \in QueueLinks
        /\ q1.link = [links.link EXCEPT ![h] = links.link[g], ![g] = links.link[h]]
        /\ q1.back = [links.back EXCEPT ![h] = links.back[g], ![g] = links.back[h]]
        /\ q1.link[h] = links.link[g] /\ q1.link[g] = links.link[h]
    BY <1>1 DEF QueueLinks
  <2>2. q2 = [q1 EXCEPT !.back[IF q1.link[h] = Null THEN h ELSE q1.link[h]] = h]
    BY DEF Queues!T!PointBack
  <2>3. links' = [q2 EXCEPT !.back[IF q2.link[g] = Null THEN g ELSE q2.link[g]] = g]
    BY <1>2 DEF Queues!T!Swap, Queues!T!PointBack
  <2> HIDE DEF q1, q2
  <2>4. q2 = [q1 EXCEPT !.back[hh] = h]
    BY <1>3, <2>1, <2>2
  <2>5. q2 \in QueueLinks /\ q2.link = q1.link /\ q2.back = [q1.back EXCEPT ![hh] = h]
    BY <2>1, <2>4 DEF QueueLinks
  <2>6. links' = [q2 EXCEPT !.back[hg] = g]
    BY <1>3, <2>1, <2>3, <2>5
  <2>7. links' \in QueueLinks /\ links'.link = q2.link /\ links'.back = [q2.back EXCEPT ![hg] = g]
    BY <2>5, <2>6 DEF QueueLinks
  <2> QED
    BY <2>1, <2>5, <2>7
<1>5. h \notin Elems /\ g \notin Elems
  BY CallsAssumption
<1>6. /\ links'.link[h] = links.link[g] /\ links'.link[g] = links.link[h]
      /\ links'.back[hh] = h /\ links'.back[hg] = g
      /\ (hh # h => links'.back[h] = links.back[g]) /\ (hg # g => links'.back[g] = links.back[h])
      /\ \A l \in Heads \cup Elems : l \notin {h, g} => links'.link[l] = links.link[l]
      /\ \A l \in Heads \cup Elems : l \notin {h, g, hh, hg} => links'.back[l] = links.back[l]
  <2>1. hh # hg /\ hh # g /\ hg # h
    BY <1>1, <1>3, <1>5
  <2> QED
    BY <1>1, <1>3, <1>4, <2>1 DEF QueueLinks
<1>7. Chain(links', h, t)
  <2>1. Len(t) # 0 => hh # h
    <3>1. Len(t) # 0 => t[1] \in Elems
      BY <1>1, ElementOfSeq
    <3> QED
      BY <1>5, <3>1 DEF hh, Holder
  <2>2. \A l \in Members(t) : l \in Heads \cup Elems /\ l # h /\ l # g /\ l # hg
    BY <1>1, <1>3, <1>5
  <2>3. \A l \in Members(t) : /\ links'.link[l] = links.link[l]
                              /\ l # Holder(h, t, 0) => links'.back[l] = links.back[l]
    BY <1>6, <2>2 DEF hh
  <2>4. Len(t) # 0 => links'.back[h] = links.back[g]
    BY <1>6, <2>1
  <2>5. links'.back[Holder(h, t, 0)] = h
    BY <1>6 DEF hh
  <2> QED
    BY <1>1, <1>6, <2>3, <2>4, <2>5, SwapChains
<1>8. Chain(links', g, s)
  <2>1. Len(s) # 0 => hg # g
    <3>1. Len(s) # 0 => s[1] \in Elems
      BY <1>1, ElementOfSeq
    <3> QED
      BY <1>5, <3>1 DEF hg, Holder
  <2>2. \A l \in Members(s) : l \in Heads \cup Elems /\ l # h /\ l # g /\ l # hh
    BY <1>1, <1>3, <1>5
  <2>3. \A l \in Members(s) : /\ links'.link[l] = links.link[l]
                              /\ l # Holder(g, s, 0) => links'.back[l] = links.back[l]
    BY <1>6, <2>2 DEF hg
  <2>4. Len(s) # 0 => links'.back[g] = links.back[h]
    BY <1>6, <2>1
  <2>5. links'.back[Holder(g, s, 0)] = g
    BY <1>6 DEF hg
  <2> QED
    BY <1>1, <1>6, <2>3, <2>4, <2>5, SwapChains
<1>9. /\ order' \in [Heads -> Seq(Elems)] /\ order'[h] = t /\ order'[g] = s
      /\ \A f \in Heads \ {h, g} : order'[f] = order[f]
  BY <1>1, <1>2 DEF QueuesInv
<1>10. ASSUME NEW f \in Heads \ {h, g} PROVE Chain(links', f, order[f])
  <2>1. /\ order[f] \in Seq(Elems) /\ Distinct(order[f]) /\ Chain(links, f, order[f])
        /\ Members(order[f]) \cap Members(s) = {} /\ Members(order[f]) \cap Members(t) = {}
    BY DEF QueuesInv, s, t
  <2>2. Members(order[f]) \subseteq Elems
    BY <2>1, ElementOfSeq DEF Members
  <2>3. \A l \in {f} \cup Members(order[f]) : l \in Heads \cup Elems /\ l \notin {h, g, hh, hg}
    BY <1>1, <1>3, <1>5, <2>1, <2>2, CallsAssumption
  <2>4. \A l \in {f} \cup Members(order[f]) : links'.link[l] = links.link[l] /\ links'.back[l] = links.back[l]
    BY <1>6, <2>3
  <2> QED
    BY <2>1, <2>4, ChainStays
<1>11. ASSUME NEW a \in Heads, NEW b \in Heads, a # b
       PROVE  Members(order'[a]) \cap Members(order'[b]) = {}
  <2>1. \A f \in Heads \ {h, g} : Members(order[f]) \cap (Members(s) \cup Members(t)) = {}
    BY DEF QueuesInv, s, t
  <2>2. CASE a \in {h, g} \/ b \in {h, g}
    BY <1>1, <1>9, <1>11, <2>1, <2>2
  <2>3. CASE a \notin {h, g} /\ b \notin {h, g}
    BY <1>9, <1>11, <2>3 DEF QueuesInv
  <2> QED
    BY <2>2, <2>3
<1> QED
  BY <1>1, <1>4, <1>7, <1>8, <1>9, <1>10, <1>11 DEF QueuesInv
-----------------------------------------------------------------------------
(* The macros that insert and remove have the effects above. *)
LEMMA LinkSet ==
  ASSUME NEW q \in QueueLinks, NEW l \in Heads \cup Elems, NEW v \in Elems \cup {Null}
  PROVE  [q EXCEPT !.link[l] = v] \in QueueLinks
BY DEF QueueLinks

LEMMA BackSet ==
  ASSUME NEW q \in QueueLinks, NEW l \in Heads \cup Elems, NEW v \in Heads \cup Elems \cup {Null}
  PROVE  [q EXCEPT !.back[l] = v] \in QueueLinks
BY DEF QueueLinks

LEMMA SpliceIsInsertion ==
  ASSUME NEW q \in QueueLinks, NEW h \in Heads, NEW s \in Seq(Elems), Distinct(s), Chain(q, h, s),
         NEW k \in 0..Len(s), NEW e \in Elems \ Members(s), NEW l, l = Place(h, s, k), NEW r,
         r = Queues!T!Splice(q, h, l, e)
  PROVE  Inserts(q, h, s, k, e, r)
<1>1. /\ l \in Heads \cup Elems /\ q.link[l] = Behind(s, k) /\ Holder(h, s, k) \in Heads \cup Elems
      /\ l \in {h} \cup Members(s) /\ Holder(h, s, k) \in {h} \cup Members(s)
      /\ q.link[l] \in Elems \cup {Null} /\ Len(s) \in Nat
  BY LinksAreDistinct DEF Chain
<1>2. h \notin Elems /\ Null \notin Elems
  BY CallsAssumption
<1>3. Holder(h, s, k) # e /\ l # e
  BY <1>1, <1>2
<1>4. (IF Behind(s, k) = Null THEN h ELSE Behind(s, k)) = Holder(h, s, k)
  <2>1. k # Len(s) => s[k + 1] \in Elems
    <3>1. k # Len(s) => k + 1 \in 1..Len(s)
      BY <1>1
    <3> QED
      BY <3>1, ElementOfSeq
  <2> QED
    BY <1>2, <2>1 DEF Behind, Holder
<1> DEFINE q0 == [q EXCEPT !.link[e] = q.link[l]]
           q1 == Queues!T!PointBack(q0, h, e, e)
<1>5. /\ q0 \in QueueLinks /\ q0.link = [q.link EXCEPT ![e] = q.link[l]] /\ q0.back = q.back
      /\ q0.link[e] = Behind(s, k)
  BY <1>1 DEF QueueLinks
<1>6. r = [q1 EXCEPT !.link[l] = e, !.back[e] = l]
  BY DEF Queues!T!Splice
<1>7. q1 = [q0 EXCEPT !.back[IF q0.link[e] = Null THEN h ELSE q0.link[e]] = e]
  BY DEF Queues!T!PointBack
<1> HIDE DEF q0, q1
<1>8. q1 = [q0 EXCEPT !.back[Holder(h, s, k)] = e]
  BY <1>4, <1>5, <1>7
<1>9. q1 \in QueueLinks /\ q1.link = q0.link /\ q1.back = [q.back EXCEPT ![Holder(h, s, k)] = e]
  BY <1>1, <1>5, <1>8 DEF QueueLinks
<1>10. /\ r \in QueueLinks /\ r.link = [q1.link EXCEPT ![l] = e] /\ r.back = [q1.back EXCEPT ![e] = l]
  <2>1. /\ e \in Elems /\ l \in Heads \cup Elems /\ q1 \in QueueLinks
        /\ r = [q1 EXCEPT !.link[l] = e, !.back[e] = l]
    BY <1>1, <1>6, <1>9
  <2>2. r.link = [q1.link EXCEPT ![l] = e] /\ r.back = [q1.back EXCEPT ![e] = l]
    BY <2>1 DEF QueueLinks
  <2>3. r \in QueueLinks
    <3> DEFINE q2 == [q1 EXCEPT !.link[l] = e]
    <3>1. q2 \in QueueLinks
      BY <2>1, LinkSet
    <3>2. r = [q2 EXCEPT !.back[e] = l]
      BY <2>1
    <3>3. e \in Heads \cup Elems /\ l \in Heads \cup Elems \cup {Null}
      BY <2>1
    <3> HIDE DEF q2
    <3>4. [q2 EXCEPT !.back[e] = l] \in QueueLinks
      BY <3>1, <3>3, BackSet
    <3> QED
      BY <3>2, <3>4
  <2> QED
    BY <2>2, <2>3
<1>11. r.link = [q.link EXCEPT ![e] = Behind(s, k), ![l] = e]
  BY <1>1, <1>5, <1>9, <1>10
<1>12. r.back = [q.back EXCEPT ![e] = l, ![Holder(h, s, k)] = e]
  BY <1>1, <1>3, <1>9, <1>10 DEF QueueLinks
<1> QED
  BY <1>10, <1>11, <1>12 DEF Inserts

LEMMA InsertTailIsInsertion ==
  ASSUME NEW q \in QueueLinks, NEW h \in Heads, NEW s \in Seq(Elems), Distinct(s), Chain(q, h, s),
         NEW e \in Elems \ Members(s), NEW r, r = Queues!T!InsertTail(q, h, e)
  PROVE  Inserts(q, h, s, Len(s), e, r)
<1>1. Len(s) \in 0..Len(s) /\ Behind(s, Len(s)) = Null /\ Holder(h, s, Len(s)) = h
  BY LenProperties DEF Behind, Holder
<1> DEFINE l == Place(h, s, Len(s))
<1>2. q.back[h] = l /\ l \in Heads \cup Elems
  BY <1>1, LinksAreDistinct DEF Chain
<1> HIDE DEF l
<1>3. r = [q EXCEPT !.link[e] = Null, !.back[e] = l, !.link[l] = e, !.back[h] = e]
  BY <1>2 DEF Queues!T!InsertTail
<1>4. /\ r.link = [q.link EXCEPT ![e] = Null, ![l] = e]
      /\ r.back = [q.back EXCEPT ![e] = l, ![h] = e]
  BY <1>3 DEF QueueLinks
<1>5. r \in QueueLinks
  <2> DEFINE q1 == [q EXCEPT !.link[e] = Null]
             q2 == [q1 EXCEPT !.back[e] = l]
             q3 == [q2 EXCEPT !.link[l] = e]
  <2>1. r = [q3 EXCEPT !.back[h] = e]
    BY <1>3
  <2>2. q1 \in QueueLinks
    BY LinkSet
  <2> HIDE DEF q1
  <2>3. q2 \in QueueLinks
    BY <1>2, <2>2, BackSet
  <2> HIDE DEF q2
  <2>4. q3 \in QueueLinks
    BY <1>2, <2>3, LinkSet
  <2> HIDE DEF q3
  <2> QED
    BY <2>1, <2>4, BackSet
<1> QED
  BY <1>1, <1>4, <1>5 DEF Inserts, l

LEMMA InsertBeforeIsInsertion ==
  ASSUME NEW q \in QueueLinks, NEW h \in Heads, NEW s \in Seq(Elems), Distinct(s), Chain(q, h, s),
         NEW k \in 0..Len(s), k # Len(s), NEW e \in Elems \ Members(s), NEW r,
         r = Queues!T!InsertBefore(q, s[k + 1], e)
  PROVE  Inserts(q, h, s, k, e, r)
<1> DEFINE l == Place(h, s, k)
           el == s[k + 1]
<1>1. /\ q.back[el] = l /\ l \in Heads \cup Elems /\ el \in Elems
      /\ Behind(s, k) = el /\ Holder(h, s, k) = el
  <2>1. Len(s) \in Nat /\ k + 1 \in 1..Len(s)
    BY LenProperties
  <2>2. q.back[Holder(h, s, k)] = l /\ l \in Heads \cup Elems
    BY LinksAreDistinct DEF Chain
  <2> QED
    BY <2>1, <2>2, ElementOfSeq DEF Behind, Holder
<1> HIDE DEF l, el
<1>2. r = [q EXCEPT !.link[e] = el, !.link[l] = e, !.back[e] = l, !.back[el] = e]
  BY <1>1 DEF Queues!T!InsertBefore, el
<1>3. /\ r.link = [q.link EXCEPT ![e] = el, ![l] = e]
      /\ r.back = [q.back EXCEPT ![e] = l, ![el] = e]
  BY <1>2 DEF QueueLinks
<1>4. r \in QueueLinks
  <2> DEFINE q1 == [q EXCEPT !.link[e] = el]
             q2 == [q1 EXCEPT !.link[l] = e]
             q3 == [q2 EXCEPT !.back[e] = l]
  <2>1. r = [q3 EXCEPT !.back[el] = e]
    BY <1>2
  <2>2. q1 \in QueueLinks
    BY <1>1, LinkSet
  <2> HIDE DEF q1
  <2>3. q2 \in QueueLinks
    BY <1>1, <2>2, LinkSet
  <2> HIDE DEF q2
  <2>4. q3 \in QueueLinks
    BY <1>1, <2>3, BackSet
  <2> HIDE DEF q3
  <2> QED
    BY <1>1, <2>1, <2>4, BackSet
<1> QED
  BY <1>1, <1>3, <1>4 DEF Inserts, l, el

LEMMA RemoveIsRemoval ==
  ASSUME NEW q \in QueueLinks, NEW h \in Heads, NEW s \in Seq(Elems), Distinct(s), Chain(q, h, s),
         NEW t \in Seq(Elems), NEW k \in 0..Len(t), NEW e \in Elems, InsertedAt(t, k, e, s), NEW r,
         r = Queues!T!Remove(q, h, e)
  PROVE  Removes(q, h, t, k, e, r)
<1> DEFINE l == Place(h, t, k)
           to == Holder(h, t, k)
<1>1. Len(t) \in Nat /\ k \in 0..Len(s) /\ k + 1 \in 0..Len(s) /\ Len(s) = Len(t) + 1
  BY LenProperties DEF InsertedAt
<1>2. /\ Place(h, s, k) = l /\ Holder(h, s, k) = e
      /\ Place(h, s, k + 1) = e /\ Holder(h, s, k + 1) = to /\ Behind(s, k + 1) = Behind(t, k)
  BY <1>1, InsertedLinks
<1>3. /\ q.back[e] = l /\ q.link[e] = Behind(t, k) /\ q.back[to] = e
      /\ l \in Heads \cup Elems /\ to \in Heads \cup Elems /\ to # e /\ l # e
      /\ Behind(t, k) \in Elems \cup {Null}
  <2>1. /\ q.back[Holder(h, s, k)] = Place(h, s, k)
        /\ q.link[Place(h, s, k + 1)] = Behind(s, k + 1)
        /\ q.back[Holder(h, s, k + 1)] = Place(h, s, k + 1)
    BY <1>1 DEF Chain
  <2>2. /\ Place(h, s, k) \in Heads \cup Elems /\ Holder(h, s, k + 1) \in Heads \cup Elems
        /\ Behind(s, k + 1) \in Elems \cup {Null}
    BY <1>1, LinksAreDistinct
  <2>3. k # k + 1
    BY <1>1
  <2>4. Place(h, s, k) # Place(h, s, k + 1) /\ Holder(h, s, k) # Holder(h, s, k + 1)
    BY <1>1, <2>3, LinksAreDistinct
  <2> QED
    BY <1>2, <2>1, <2>2, <2>4
<1>4. (IF Behind(t, k) = Null THEN h ELSE Behind(t, k)) = to
  <2>1. k # Len(t) => t[k + 1] \in Elems
    <3>1. k # Len(t) => k + 1 \in 1..Len(t)
      BY <1>1
    <3> QED
      BY <3>1, ElementOfSeq
  <2> QED
    BY <2>1, CallsAssumption DEF Behind, Holder
<1> DEFINE b == Behind(t, k)
<1> HIDE DEF l, to, b
<1>5. q.back[e] = l /\ q.link[e] = b /\ (IF b = Null THEN h ELSE b) = to
  BY <1>3, <1>4 DEF b
<1> DEFINE q1 == Queues!T!PointBack(q, h, e, l)
<1>6. q1 = [q EXCEPT !.back[to] = l]
  BY <1>5 DEF Queues!T!PointBack
<1>7. r = [q1 EXCEPT !.link[l] = b, !.link[e] = Null, !.back[e] = Null]
  BY <1>5 DEF Queues!T!Remove
<1> HIDE DEF q1
<1>8. q1 \in QueueLinks /\ q1.link = q.link /\ q1.back = [q.back EXCEPT ![to] = l]
  BY <1>3, <1>6 DEF QueueLinks
<1>9. /\ r.link = [q1.link EXCEPT ![l] = b, ![e] = Null] /\ r.back = [q1.back EXCEPT ![e] = Null]
  BY <1>7, <1>8 DEF QueueLinks
<1>10. r \in QueueLinks
  <2> DEFINE q2 == [q1 EXCEPT !.link[l] = b]
             q3 == [q2 EXCEPT !.link[e] = Null]
  <2>1. r = [q3 EXCEPT !.back[e] = Null]
    BY <1>7
  <2>2. b \in Elems \cup {Null} /\ q1 \in QueueLinks
    BY <1>3, <1>8 DEF b
  <2>3. q2 \in QueueLinks
    BY <1>3, <2>2, LinkSet
  <2> HIDE DEF q2
  <2>4. q3 \in QueueLinks
    BY <2>3, LinkSet
  <2> HIDE DEF q3
  <2> QED
    BY <2>1, <2>4, BackSet
<1> QED
  BY <1>8, <1>9, <1>10 DEF Removes, l, to, b
-----------------------------------------------------------------------------
(* Where the library's operators on sequences put and take an element. *)
LEMMA InsertAtInserts ==
  ASSUME NEW s \in Seq(Elems), NEW k \in 0..Len(s), NEW e \in Elems
  PROVE  Queues!InsertAt(s, k + 1, e) \in Seq(Elems) /\ InsertedAt(s, k, e, Queues!InsertAt(s, k + 1, e))
<1> DEFINE a == SubSeq(s, 1, k)
           b == SubSeq(s, k + 1, Len(s))
           t == a \o <<e>> \o b
<1>1. /\ Len(s) \in Nat /\ k \in Nat /\ (k + 1) - 1 = k
      /\ \A i \in 1..Len(s) : s[i] \in Elems
  BY LenProperties, ElementOfSeq
<1>2. /\ a \in Seq(Elems) /\ Len(a) = k
      /\ \A i \in 1..k : a[i] = s[i]
  <2>1. /\ a \in Seq(Elems) /\ Len(a) = IF 1 <= k THEN k - 1 + 1 ELSE 0
        /\ \A i \in 1..(k - 1 + 1) : a[i] = s[1 + i - 1]
    BY <1>1, SubSeqProperties
  <2> QED
    BY <1>1, <2>1
<1>3. /\ b \in Seq(Elems) /\ Len(b) = Len(s) - k
      /\ \A i \in 1..(Len(s) - k) : b[i] = s[k + i]
  <2>1. /\ b \in Seq(Elems) /\ Len(b) = IF k + 1 <= Len(s) THEN Len(s) - (k + 1) + 1 ELSE 0
        /\ \A i \in 1..(Len(s) - (k + 1) + 1) : b[i] = s[k + 1 + i - 1]
    BY <1>1, SubSeqProperties
  <2>2. Len(s) - (k + 1) + 1 = Len(s) - k /\ \A i \in 1..(Len(s) - k) : k + 1 + i - 1 = k + i
    BY <1>1
  <2>3. Len(b) = Len(s) - k
    BY <1>1, <2>1
  <2> QED
    BY <2>1, <2>2, <2>3
<1>4. Queues!InsertAt(s, k + 1, e) = t
  BY <1>1 DEF Queues!InsertAt
<1> HIDE DEF a, b
<1>5. /\ a \o <<e>> \in Seq(Elems) /\ Len(a \o <<e>>) = k + 1
      /\ \A i \in 1..(k + 1) : (a \o <<e>>)[i] = IF i <= k THEN a[i] ELSE e
  <2>1. <<e>> \in Seq(Elems) /\ Len(<<e>>) = 1 /\ <<e>>[1] = e
    OBVIOUS
  <2>2. /\ a \o <<e>> \in Seq(Elems) /\ Len(a \o <<e>>) = k + 1
        /\ \A i \in 1..(k + 1) : (a \o <<e>>)[i] = IF i <= k THEN a[i] ELSE <<e>>[i - k]
    BY <1>2, <2>1, ConcatProperties
  <2>3. \A i \in 1..(k + 1) : ~(i <= k) => i - k = 1
    BY <1>1
  <2> QED
    BY <2>1, <2>2, <2>3
<1>6. /\ t \in Seq(Elems) /\ Len(t) = (k + 1) + (Len(s) - k)
      /\ \A i \in 1..((k + 1) + (Len(s) - k)) : t[i] = IF i <= k + 1 THEN (a \o <<e>>)[i] ELSE b[i - (k + 1)]
  <2> DEFINE c == a \o <<e>>
  <2>1. c \in Seq(Elems) /\ Len(c) = k + 1
    BY <1>5
  <2>2. t = c \o b
    BY DEF t
  <2> HIDE DEF c, t
  <2>3. /\ t \in Seq(Elems) /\ Len(t) = Len(c) + Len(b)
        /\ \A i \in 1..(Len(c) + Len(b)) : t[i] = IF i <= Len(c) THEN c[i] ELSE b[i - Len(c)]
    BY <1>3, <2>1, <2>2, ConcatProperties
  <2> QED
    BY <1>3, <2>1, <2>3 DEF c
<1> HIDE DEF t
<1>7. Len(t) = Len(s) + 1
  BY <1>1, <1>6
<1>8. ASSUME NEW i \in 1..Len(t)
      PROVE  t[i] = IF i <= k THEN s[i] ELSE IF i = k + 1 THEN e ELSE s[i - 1]
  <2>1. t[i] = IF i <= k + 1 THEN (a \o <<e>>)[i] ELSE b[i - (k + 1)]
    BY <1>6
  <2>2. CASE i <= k + 1
    BY <1>1, <1>2, <1>5, <2>1, <2>2
  <2>3. CASE ~(i <= k + 1)
    <3>1. i - (k + 1) \in 1..(Len(s) - k) /\ k + (i - (k + 1)) = i - 1 /\ ~(i <= k) /\ i # k + 1
      BY <1>1, <1>7, <2>3
    <3> QED
      BY <1>3, <2>1, <2>3, <3>1
  <2> QED
    BY <2>2, <2>3
<1> QED
  BY <1>4, <1>6, <1>7, <1>8 DEF InsertedAt

LEMMA RemoveAtRemoves ==
  ASSUME NEW s \in Seq(Elems), NEW n \in 1..Len(s)
  PROVE  /\ Queues!RemoveAt(s, n) \in Seq(Elems) /\ n - 1 \in 0..Len(Queues!RemoveAt(s, n))
         /\ InsertedAt(Queues!RemoveAt(s, n), n - 1, s[n], s)
<1> DEFINE a == SubSeq(s, 1, n - 1)
           b == SubSeq(s, n + 1, Len(s))
           t == a \o b
<1>1. /\ Len(s) \in Nat /\ n \in Nat /\ n >= 1 /\ n <= Len(s)
      /\ \A i \in 1..Len(s) : s[i] \in Elems
  BY LenProperties, ElementOfSeq
<1>2. /\ a \in Seq(Elems) /\ Len(a) = n - 1
      /\ \A i \in 1..(n - 1) : a[i] = s[i]
  <2>1. /\ a \in Seq(Elems) /\ Len(a) = IF 1 <= n - 1 THEN (n - 1) - 1 + 1 ELSE 0
        /\ \A i \in 1..((n - 1) - 1 + 1) : a[i] = s[1 + i - 1]
    BY <1>1, SubSeqProperties
  <2> QED
    BY <1>1, <2>1
<1>3. /\ b \in Seq(Elems) /\ Len(b) = Len(s) - n
      /\ \A i \in 1..(Len(s) - n) : b[i] = s[n + i]
  <2>1. /\ b \in Seq(Elems) /\ Len(b) = IF n + 1 <= Len(s) THEN Len(s) - (n + 1) + 1 ELSE 0
        /\ \A i \in 1..(Len(s) - (n + 1) + 1) : b[i] = s[n + 1 + i - 1]
    BY <1>1, SubSeqProperties
  <2>2. Len(s) - (n + 1) + 1 = Len(s) - n /\ \A i \in 1..(Len(s) - n) : n + 1 + i - 1 = n + i
    BY <1>1
  <2>3. Len(b) = Len(s) - n
    BY <1>1, <2>1
  <2> QED
    BY <2>1, <2>2, <2>3
<1>4. Queues!RemoveAt(s, n) = t
  BY DEF Queues!RemoveAt
<1> HIDE DEF a, b
<1>5. /\ t \in Seq(Elems) /\ Len(t) = (n - 1) + (Len(s) - n)
      /\ \A i \in 1..((n - 1) + (Len(s) - n)) : t[i] = IF i <= n - 1 THEN a[i] ELSE b[i - (n - 1)]
  <2>1. /\ t \in Seq(Elems) /\ Len(t) = Len(a) + Len(b)
        /\ \A i \in 1..(Len(a) + Len(b)) : t[i] = IF i <= Len(a) THEN a[i] ELSE b[i - Len(a)]
    <3>1. a \in Seq(Elems) /\ b \in Seq(Elems)
      BY <1>2, <1>3
    <3> QED
      BY <3>1, ConcatProperties
  <2> HIDE DEF t
  <2> QED
    BY <1>2, <1>3, <2>1
<1> HIDE DEF t
<1>6. Len(t) + 1 = Len(s) /\ Len(t) \in Nat /\ n - 1 \in 0..Len(t) /\ (n - 1) + 1 = n
  BY <1>1, <1>5
<1>7. ASSUME NEW i \in 1..Len(s)
      PROVE  s[i] = IF i <= n - 1 THEN t[i] ELSE IF i = n THEN s[n] ELSE t[i - 1]
  <2>1. CASE i <= n - 1
    <3>1. i \in 1..(n - 1) /\ i \in 1..((n - 1) + (Len(s) - n))
      BY <1>1, <2>1
    <3> QED
      BY <1>2, <1>5, <2>1, <3>1
  <2>2. CASE i = n
    BY <1>1, <2>2
  <2>3. CASE i > n
    <3>1. /\ i - 1 \in 1..((n - 1) + (Len(s) - n)) /\ ~(i - 1 <= n - 1) /\ (i - 1) - (n - 1) = i - n
          /\ i - n \in 1..(Len(s) - n) /\ n + (i - n) = i /\ ~(i <= n - 1) /\ i # n
      BY <1>1, <2>3
    <3>2. t[i - 1] = b[i - n] /\ b[i - n] = s[i]
      BY <1>3, <1>5, <3>1
    <3> QED
      BY <3>1, <3>2
  <2> QED
    BY <1>1, <2>1, <2>2, <2>3
<1> QED
  BY <1>4, <1>5, <1>6, <1>7 DEF InsertedAt
-----------------------------------------------------------------------------
LEMMA AtFinds ==
  ASSUME NEW h \in Heads, NEW e \in Queues!In(h)
  PROVE  Queues!At(h, e) \in 1..Len(order[h]) /\ order[h][Queues!At(h, e)] = e
BY DEF Queues!At, Queues!In

LEMMA QueuesInvStep == QueuesInv /\ [Queues!Next]_(Queues!vars) => QueuesInv'
<1> SUFFICES ASSUME QueuesInv, [Queues!Next]_(Queues!vars) PROVE QueuesInv'
  OBVIOUS
<1>1. ASSUME NEW h \in Heads
      PROVE  /\ links \in QueueLinks /\ order[h] \in Seq(Elems) /\ Distinct(order[h])
             /\ Chain(links, h, order[h]) /\ Len(order[h]) \in Nat
  BY LenProperties DEF QueuesInv
<1>2. ASSUME NEW e \in Queues!Out PROVE e \in Elems /\ \A g \in Heads : e \notin Members(order[g])
  BY DEF Queues!Out, Queues!In, Members
<1>3. ASSUME NEW h \in Heads, NEW e \in Queues!Out, Queues!InsertHead(h, e) PROVE QueuesInv'
  <2> DEFINE s == order[h]
  <2>0. links \in QueueLinks /\ s \in Seq(Elems) /\ Distinct(s) /\ Chain(links, h, s)
    BY <1>1
  <2>1. links' = Queues!T!Splice(links, h, Place(h, s, 0), e) /\ order' = [order EXCEPT ![h] = <<e>> \o s]
    BY <1>3 DEF Queues!InsertHead, Queues!T!InsertHead, Place
  <2>2. <<e>> \o s \in Seq(Elems) /\ InsertedAt(s, 0, e, <<e>> \o s)
    <3>1. <<e>> \in Seq(Elems) /\ Len(<<e>>) = 1 /\ <<e>>[1] = e
      BY <1>2
    <3> DEFINE t == <<e>> \o s
    <3>2. /\ t \in Seq(Elems) /\ Len(t) = 1 + Len(s)
          /\ \A i \in 1..(1 + Len(s)) : t[i] = IF i <= 1 THEN <<e>>[i] ELSE s[i - 1]
      BY <1>1, <3>1, ConcatProperties
    <3> HIDE DEF t
    <3>3. t \in Seq(Elems) /\ InsertedAt(s, 0, e, t)
      BY <1>1, <3>1, <3>2 DEF InsertedAt
    <3> QED
      BY <3>3 DEF t
  <2>3. 0 \in 0..Len(s) /\ e \in Elems \ Members(s)
    BY <1>1, <1>2
  <2>4. Inserts(links, h, s, 0, e, links')
    BY <2>0, <2>1, <2>3, SpliceIsInsertion
  <2> QED
    BY <1>2, <2>1, <2>2, <2>3, <2>4, InsertionKeeps
<1>4. ASSUME NEW h \in Heads, NEW e \in Queues!Out, Queues!InsertTail(h, e) PROVE QueuesInv'
  <2> DEFINE s == order[h]
  <2>0. links \in QueueLinks /\ s \in Seq(Elems) /\ Distinct(s) /\ Chain(links, h, s)
    BY <1>1
  <2>1. links' = Queues!T!InsertTail(links, h, e) /\ order' = [order EXCEPT ![h] = Append(s, e)]
    BY <1>4 DEF Queues!InsertTail
  <2>2. Append(s, e) \in Seq(Elems) /\ InsertedAt(s, Len(s), e, Append(s, e))
    BY <1>1, <1>2 DEF InsertedAt
  <2>3. Len(s) \in 0..Len(s) /\ e \in Elems \ Members(s)
    BY <1>1, <1>2
  <2>4. Inserts(links, h, s, Len(s), e, links')
    BY <2>0, <2>1, <2>3, InsertTailIsInsertion
  <2> QED
    BY <1>2, <2>1, <2>2, <2>3, <2>4, InsertionKeeps
<1>5. ASSUME NEW h \in Heads, NEW e \in Queues!Out, NEW el \in Queues!In(h), Queues!InsertAfter(h, el, e)
      PROVE  QueuesInv'
  <2> DEFINE s == order[h]
             k == Queues!At(h, el)
             t == Queues!InsertAt(s, k + 1, e)
  <2>0. links \in QueueLinks /\ s \in Seq(Elems) /\ Distinct(s) /\ Chain(links, h, s)
    BY <1>1
  <2>1. k \in 1..Len(s) /\ s[k] = el
    BY AtFinds
  <2>2. k \in 0..Len(s) /\ Place(h, s, k) = el /\ e \in Elems \ Members(s)
    BY <1>1, <1>2, <2>1 DEF Place
  <2>3. links' = Queues!T!Splice(links, h, Place(h, s, k), e) /\ order' = [order EXCEPT ![h] = t]
    BY <1>5, <2>2 DEF Queues!InsertAfter, Queues!T!InsertAfter
  <2> HIDE DEF k
  <2>4. t \in Seq(Elems) /\ InsertedAt(s, k, e, t)
    BY <1>1, <2>2, InsertAtInserts
  <2> HIDE DEF t
  <2>5. Inserts(links, h, s, k, e, links')
    BY <2>0, <2>2, <2>3, SpliceIsInsertion
  <2> QED
    BY <1>2, <2>2, <2>3, <2>4, <2>5, InsertionKeeps
<1>6. ASSUME NEW h \in Heads, NEW e \in Queues!Out, NEW el \in Queues!In(h), Queues!InsertBefore(h, el, e)
      PROVE  QueuesInv'
  <2> DEFINE s == order[h]
             k == Queues!At(h, el) - 1
             t == Queues!InsertAt(s, k + 1, e)
  <2>0. links \in QueueLinks /\ s \in Seq(Elems) /\ Distinct(s) /\ Chain(links, h, s)
    BY <1>1
  <2>1. Queues!At(h, el) \in 1..Len(s) /\ s[Queues!At(h, el)] = el
    BY AtFinds
  <2>2. k \in 0..Len(s) /\ k # Len(s) /\ k + 1 = Queues!At(h, el) /\ e \in Elems \ Members(s)
    BY <1>1, <1>2, <2>1
  <2>3. links' = Queues!T!InsertBefore(links, s[k + 1], e) /\ order' = [order EXCEPT ![h] = t]
    BY <1>6, <2>1, <2>2 DEF Queues!InsertBefore
  <2> HIDE DEF k
  <2>4. t \in Seq(Elems) /\ InsertedAt(s, k, e, t)
    BY <1>1, <2>2, InsertAtInserts
  <2> HIDE DEF t
  <2>5. Inserts(links, h, s, k, e, links')
    BY <2>0, <2>2, <2>3, InsertBeforeIsInsertion
  <2> QED
    BY <1>2, <2>2, <2>3, <2>4, <2>5, InsertionKeeps
<1>7. ASSUME NEW h \in Heads, NEW e \in Queues!In(h), Queues!TakeOut(h, e) PROVE QueuesInv'
  <2> DEFINE s == order[h]
             n == Queues!At(h, e)
             t == Queues!RemoveAt(s, n)
             k == n - 1
  <2>0. links \in QueueLinks /\ s \in Seq(Elems) /\ Distinct(s) /\ Chain(links, h, s)
    BY <1>1
  <2>1. n \in 1..Len(s) /\ s[n] = e
    BY AtFinds
  <2>2. links' = Queues!T!Remove(links, h, e) /\ order' = [order EXCEPT ![h] = t]
    BY <1>7 DEF Queues!TakeOut
  <2> HIDE DEF n
  <2>3. t \in Seq(Elems) /\ k \in 0..Len(t) /\ InsertedAt(t, k, e, s) /\ e \in Elems
    BY <1>1, <2>1, RemoveAtRemoves, ElementOfSeq
  <2> HIDE DEF t, k
  <2>4. Removes(links, h, t, k, e, links')
    BY <2>0, <2>2, <2>3, RemoveIsRemoval
  <2> QED
    BY <2>2, <2>3, <2>4, RemovalKeeps
<1>8. ASSUME NEW h \in Heads, NEW g \in Heads, h # g, Queues!Concat(h, g) \/ Queues!Swap(h, g)
      PROVE  QueuesInv'
  BY <1>8, ConcatKeeps, SwapKeeps
<1>9. CASE UNCHANGED Queues!vars
  <2>1. links' = links /\ order' = order
    BY <1>9 DEF Queues!vars
  <2> QED
    BY <2>1 DEF QueuesInv
<1> QED
  BY <1>3, <1>4, <1>5, <1>6, <1>7, <1>8, <1>9 DEF Queues!Next

LEMMA QueuesInvInit == Queues!Init => QueuesInv
<1> SUFFICES ASSUME Queues!Init PROVE QueuesInv
  OBVIOUS
<1>1. /\ links.link = [l \in Heads \cup Elems |-> Null]
      /\ links.back = [l \in Heads \cup Elems |-> IF l \in Heads THEN l ELSE Null]
      /\ links \in QueueLinks
  BY DEF Queues!Init, Queues!T!NoQueues, Queues!T!Links, QueueLinks
<1>2. order = [h \in Heads |-> <<>>]
  BY DEF Queues!Init
<1>3. order \in [Heads -> Seq(Elems)]
  BY <1>2
<1>4. Distinct(<<>>) /\ Members(<<>>) = {}
  BY DEF Distinct, Members
<1>5. ASSUME NEW h \in Heads PROVE Chain(links, h, <<>>)
  BY <1>1 DEF Chain, Place, Holder, Behind
<1> QED
  BY <1>1, <1>2, <1>3, <1>4, <1>5 DEF QueuesInv

(* The inductive invariant of the tail queues. *)
THEOREM QueuesInvariant == Queues!Spec => []QueuesInv
BY QueuesInvInit, QueuesInvStep, PTL DEF Queues!Spec

(* Whatever the macros do to queues that share elements, each is walked in  *)
(* its order both ways.                                                    *)
THEOREM QueuesKeepOrder == Queues!Spec => []LinksKeepOrder
<1>1. QueuesInv => LinksKeepOrder
  BY ChainIsWalked DEF QueuesInv, LinksKeepOrder, Queues!LinksKeepOrder
<1> QED
  BY <1>1, QueuesInvariant, PTL
=============================================================================
