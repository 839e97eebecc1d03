--------------------------- MODULE SchedulerProofs ---------------------------
(***************************************************************************)
(* The scheduler's safety, for any coroutines and descriptors, when none   *)
(* sleeps: a sleeper is resumed wherever it is.  What still holds when     *)
(* some sleep is at the end.                                               *)
(***************************************************************************)
EXTENDS Scheduler, TLAPS

(* The program has not failed, and nobody sleeps. *)
Sound == phase \notin Crashes /\ sleeping = {}

QueuedOnce == \A i, j \in 1..Len(ready) : ready[i] = ready[j] => i = j

(* Where a coroutine is, as OnePlace has it. *)
Placed == \A co \in Coroutines :
            /\ co \in live <=> InReady(co) \/ co \in waiting \/ curr = co
            /\ InReady(co) => co \notin waiting /\ curr # co
            /\ co \in waiting <=> co \in live /\ at[co] = "poll"

(* Who waits owns the descriptor that it waits for, and the poller has that; *)
(* it has no others.                                                         *)
WaitersOwn == /\ \A co \in waiting : fd[co] \in Fds /\ owner[fd[co]] = co
              /\ \A f \in epoll : owner[f] \in waiting /\ fd[owner[f]] = f

(* Of the batch, the owner still waits, and it is not the one that runs.     *)
BatchWaits == /\ phase # "events" => events = {}
              /\ \A f \in events : /\ f \in fired /\ owner[f] \in waiting
                                   /\ fd[owner[f]] = f /\ owner[f] # curr

(* In its own code a coroutine has neither of the bits that would hurt it.   *)
CleanStatus == \A co \in live : at[co] = "own" =>
                  "WAIT_READ" \notin status[co] /\ "FDEOF" \notin status[co]

(* A round still owes its turn to those up to the one that was last when it  *)
(* began, and to nobody once that one runs.                                  *)
Owes == /\ phase # "ready" => owed = {}
        /\ phase = "ready" =>
             \/ last \in {Null, curr} /\ owed = {}
             \/ /\ last # curr
                /\ \E i \in 1..Len(ready) : /\ ready[i] = last
                                            /\ owed = {ready[k] : k \in 1..i}

SchedInv == /\ TypeOK /\ Sound /\ QueuedOnce /\ Placed /\ WaitersOwn
            /\ BatchWaits /\ CleanStatus /\ WokenInTime /\ Owes

LEMMA Kinds == Null \notin Coroutines /\ Null \notin Fds /\ First \in Coroutines
BY SchedulerAssumption

(* The ready queue, with a coroutine more at its end, or its first taken.    *)
LEMMA AppendReady ==
  ASSUME TypeOK, QueuedOnce, NEW co \in Coroutines, ~InReady(co), ready' = Append(ready, co)
  PROVE  /\ ready' \in Seq(Coroutines) /\ Len(ready) \in Nat /\ Len(ready') = Len(ready) + 1
         /\ \A i \in 1..Len(ready) : ready'[i] = ready[i]
         /\ QueuedOnce'
         /\ \A c : InReady(c)' <=> InReady(c) \/ c = co
<1>1. ready \in Seq(Coroutines)
  BY DEF TypeOK
<1>2. /\ ready' \in Seq(Coroutines) /\ Len(ready) \in Nat /\ Len(ready') = Len(ready) + 1
      /\ \A i \in 1..Len(ready) : ready'[i] = ready[i]
      /\ ready'[Len(ready) + 1] = co
  BY <1>1
<1>3. \A i \in 1..Len(ready') : i \in 1..Len(ready) \/ i = Len(ready) + 1
  BY <1>2
<1>4. QueuedOnce'
  BY <1>2, <1>3 DEF QueuedOnce, InReady
<1>5. \A c : InReady(c)' <=> InReady(c) \/ c = co
  BY <1>2, <1>3 DEF InReady
<1> QED
  BY <1>2, <1>4, <1>5

LEMMA TailReady ==
  ASSUME TypeOK, QueuedOnce, ready # <<>>, ready' = Tail(ready)
  PROVE  /\ Head(ready) \in Coroutines /\ Head(ready) = ready[1] /\ InReady(Head(ready))
         /\ ready' \in Seq(Coroutines) /\ Len(ready) \in Nat \ {0}
         /\ Len(ready') = Len(ready) - 1
         /\ \A i \in 1..Len(ready') : ready'[i] = ready[i + 1]
         /\ QueuedOnce'
         /\ \A c : InReady(c)' <=> InReady(c) /\ c # Head(ready)
<1>1. ready \in Seq(Coroutines)
  BY DEF TypeOK
<1>2. /\ Head(ready) \in Coroutines /\ Head(ready) = ready[1]
      /\ ready' \in Seq(Coroutines) /\ Len(ready) \in Nat \ {0}
      /\ Len(ready') = Len(ready) - 1
      /\ \A i \in 1..Len(ready') : ready'[i] = ready[i + 1]
  BY <1>1
<1>3. 1 \in 1..Len(ready) /\ InReady(Head(ready))
  BY <1>2 DEF InReady
<1>4. \A i \in 1..Len(ready') : i + 1 \in 1..Len(ready) /\ i + 1 # 1
  BY <1>2
<1>5. \A i \in 1..Len(ready) : i = 1 \/ (i - 1 \in 1..Len(ready') /\ ready'[i - 1] = ready[i])
  BY <1>2
<1>6. QueuedOnce'
  <2>1. ASSUME NEW i \in 1..Len(ready'), NEW j \in 1..Len(ready'), ready'[i] = ready'[j]
        PROVE  i = j
    <3>1. i + 1 = j + 1
      BY <1>2, <1>4, <2>1 DEF QueuedOnce
    <3> QED
      BY <1>2, <3>1
  <2> QED
    BY <2>1 DEF QueuedOnce
<1>7. \A c : InReady(c)' <=> InReady(c) /\ c # Head(ready)
  <2>1. ASSUME NEW i \in 1..Len(ready')
        PROVE  InReady(ready'[i]) /\ ready'[i] # Head(ready)
    <3>1. ready'[i] = ready[i + 1]
      BY <1>2
    <3>2. ready[i + 1] # ready[1]
      BY <1>3, <1>4 DEF QueuedOnce
    <3> QED
      BY <1>2, <1>4, <3>1, <3>2 DEF InReady
  <2>2. ASSUME NEW i \in 1..Len(ready), ready[i] # Head(ready)
        PROVE  \E j \in 1..Len(ready') : ready'[j] = ready[i]
    BY <1>2, <1>5, <2>2
  <2>3. \A c : InReady(c) <=> \E i \in 1..Len(ready) : ready[i] = c
    BY DEF InReady
  <2>4. \A c : InReady(c)' <=> \E i \in 1..Len(ready') : ready'[i] = c
    BY DEF InReady
  <2> HIDE DEF InReady
  <2> QED
    BY <2>1, <2>2, <2>3, <2>4
<1> QED
  BY <1>2, <1>3, <1>6, <1>7

(* At most the owner waits for a descriptor. *)
LEMMA OwnerWaits ==
  ASSUME WaitersOwn, NEW f, NEW co \in WaitsFor(f)
  PROVE  co \in waiting /\ fd[co] = f /\ owner[f] = co /\ f \in Fds
BY DEF WaitersOwn, WaitsFor

(* What a yield does to the loop: the round goes on, or ends after the last. *)
LEMMA YieldStep ==
  ASSUME TypeOK, Sound, Owes, curr # Null, Yield, Len(ready) \in Nat, Len(ready') \in Nat,
         Len(ready) <= Len(ready'), \A i \in 1..Len(ready) : ready'[i] = ready[i]
  PROVE  /\ Owes' /\ curr' = Null /\ events' = events
         /\ phase' \in Phases \ Crashes /\ last' \in Coroutines \cup {Null}
         /\ owed' \subseteq Coroutines
         /\ phase' = "events" <=> phase = "events"
<1>1. curr' = Null /\ events' = events /\ owed' = owed
  BY DEF Yield
<1>2. CASE phase = "ready" /\ curr = last
  BY <1>1, <1>2 DEF Yield, EndReady, Owes, TypeOK, Phases, Crashes
<1>3. CASE ~(phase = "ready" /\ curr = last)
  <2>1. phase' = phase /\ last' = last
    BY <1>3 DEF Yield
  <2>2. ASSUME phase = "ready", NEW i \in 1..Len(ready), ready[i] = last,
               owed = {ready[k] : k \in 1..i}
        PROVE  Owes'
    <3>1. i \in 1..Len(ready') /\ ready'[i] = last' /\ last' # curr'
      BY <1>1, <2>1, <2>2, Kinds DEF TypeOK
    <3>2. owed' = {ready'[k] : k \in 1..i}
      BY <1>1, <2>2
    <3> QED
      BY <2>1, <2>2, <3>1, <3>2 DEF Owes
  <2>3. Owes'
    BY <1>1, <1>3, <2>1, <2>2 DEF Owes
  <2> QED
    BY <1>1, <2>1, <2>3 DEF TypeOK, Sound
<1> QED
  BY <1>2, <1>3

(* The run loop. *)

LEMMA SameQueue == ready' = ready => (QueuedOnce => QueuedOnce') /\ \A c : InReady(c)' <=> InReady(c)
BY DEF QueuedOnce, InReady

(* Steps of the loop that start no coroutine and free none *)
LEMMA LoopStep ==
  ASSUME SchedInv, Round \/ NoneExpired \/ ReadyEmpty \/ SkipEpoll \/ WaitEpoll \/ EventsDone
  PROVE  SchedInv'
<1> USE Kinds
<1>1. /\ UNCHANGED <<curr, ready, sleeping, waiting, live, coVars, fdVars>>
      /\ curr = Null
      /\ phase' \in Phases \ Crashes /\ last' \in Coroutines \cup {Null}
      /\ owed' \subseteq Coroutines /\ events' \subseteq Fds
  <2>1. ready \in Seq(Coroutines) /\ (ready # <<>> => Len(ready) \in 1..Len(ready))
    BY DEF SchedInv, TypeOK
  <2>2. ready # <<>> => ready[Len(ready)] \in Coroutines
    BY <2>1
  <2> QED
    BY <2>2 DEF SchedInv, TypeOK, Phases, Crashes, Loop, EndReady,
                Round, NoneExpired, ReadyEmpty, SkipEpoll, WaitEpoll, EventsDone
<1>2. TypeOK' /\ Sound' /\ CleanStatus' /\ WokenInTime' /\ WaitersOwn'
  BY <1>1 DEF SchedInv, TypeOK, Sound, CleanStatus, WokenInTime, WaitersOwn, coVars, fdVars
<1>3. QueuedOnce' /\ Placed'
  BY <1>1, SameQueue DEF SchedInv, Placed, coVars
<1>4. BatchWaits'
  <2>1. CASE WaitEpoll
    <3>1. \A f \in epoll : owner[f] # curr
      BY <1>1 DEF SchedInv, WaitersOwn, TypeOK
    <3> QED
      BY <1>1, <2>1, <3>1 DEF WaitEpoll, Loop, SchedInv, BatchWaits, WaitersOwn, coVars, fdVars
  <2>2. CASE Round \/ NoneExpired \/ ReadyEmpty \/ SkipEpoll \/ EventsDone
    BY <1>1, <2>2 DEF Round, NoneExpired, ReadyEmpty, SkipEpoll, EventsDone, EndReady, Loop,
                      SchedInv, BatchWaits, coVars, fdVars
  <2> QED
    BY <2>1, <2>2
<1>5. Owes'
  <2>1. CASE NoneExpired
    <3>1. CASE ready = <<>>
      <4>1. ~\E co \in Coroutines : InReady(co)
        BY <3>1 DEF InReady
      <4> QED
        BY <2>1, <3>1, <4>1 DEF NoneExpired, Owes
    <3>2. CASE ready # <<>>
      <4>1. /\ ready \in Seq(Coroutines) /\ Len(ready) \in 1..Len(ready)
            /\ ready[Len(ready)] \in Coroutines
            /\ \A k \in 1..Len(ready) : ready[k] \in Coroutines
        BY <3>2 DEF SchedInv, TypeOK
      <4>2. {co \in Coroutines : InReady(co)} = {ready[k] : k \in 1..Len(ready)}
        BY <4>1 DEF InReady
      <4>3. last' = ready[Len(ready)] /\ owed' = {ready[k] : k \in 1..Len(ready)}
            /\ ready' = ready /\ last' # curr' /\ phase' = "ready"
        BY <1>1, <2>1, <3>2, <4>1, <4>2 DEF NoneExpired
      <4> QED
        BY <4>1, <4>3 DEF Owes
    <3> QED
      BY <3>1, <3>2
  <2>2. CASE ReadyEmpty
    <3>1. 1..Len(ready) = {}
      BY <2>2 DEF ReadyEmpty
    <3>2. owed = {}
      BY <2>2, <3>1 DEF ReadyEmpty, Loop, SchedInv, Owes
    <3> QED
      BY <2>2, <3>2 DEF ReadyEmpty, EndReady, Owes
  <2>3. CASE Round \/ SkipEpoll \/ WaitEpoll \/ EventsDone
    BY <2>3 DEF Round, SkipEpoll, WaitEpoll, EventsDone, Loop, SchedInv, Owes
  <2> QED
    BY <2>1, <2>2, <2>3
<1> QED
  BY <1>2, <1>3, <1>4, <1>5 DEF SchedInv

(* The first of the ready queue runs; it is in its own code, so not freed. *)
LEMMA RunReadyStep ==
  ASSUME SchedInv, RunReady
  PROVE  SchedInv' /\ live' = live
<1> USE Kinds
<1> DEFINE co == Head(ready)
<1>1. /\ co \in Coroutines /\ co = ready[1] /\ InReady(co)
      /\ ready' \in Seq(Coroutines) /\ Len(ready) \in Nat \ {0}
      /\ Len(ready') = Len(ready) - 1
      /\ \A i \in 1..Len(ready') : ready'[i] = ready[i + 1]
      /\ QueuedOnce'
      /\ \A c : InReady(c)' <=> InReady(c) /\ c # co
  BY TailReady DEF SchedInv, RunReady
<1>2. co \in live /\ co \notin waiting /\ at[co] = "own" /\ curr = Null
  BY <1>1 DEF SchedInv, Placed, RunReady, Loop, TypeOK
<1>3. "FDEOF" \notin status[co] /\ "WAIT_READ" \notin status[co]
  BY <1>2 DEF SchedInv, CleanStatus
<1>4. /\ owed' = owed \ {co} /\ curr' = co
      /\ status' = [status EXCEPT ![co] = IF "NEW" \in status[co] THEN {"READY"} ELSE status[co]]
      /\ UNCHANGED <<phase, last, live, events, sleeping, waiting, fd, at, fdVars>>
      /\ phase = "ready"
  BY <1>3 DEF RunReady, Resume, Loop
<1> HIDE DEF co
<1>5. TypeOK'
  BY <1>1, <1>4 DEF SchedInv, TypeOK, Bits, fdVars
<1>6. Sound' /\ WaitersOwn'
  BY <1>4 DEF SchedInv, Sound, WaitersOwn, fdVars
<1>7. CleanStatus'
  BY <1>1, <1>3, <1>4 DEF SchedInv, TypeOK, CleanStatus
<1>8. WokenInTime' /\ BatchWaits'
  BY <1>2, <1>4 DEF SchedInv, WokenInTime, BatchWaits, fdVars
<1>9. Placed'
  BY <1>1, <1>2, <1>4 DEF SchedInv, Placed
<1>10. Owes'
  <2>1. CASE last \in {Null, curr} /\ owed = {}
    BY <1>2, <1>4, <2>1 DEF Owes
  <2>2. ASSUME NEW i \in 1..Len(ready), ready[i] = last, owed = {ready[k] : k \in 1..i}
        PROVE  Owes'
    <3>1. CASE i = 1
      BY <1>1, <1>4, <2>2, <3>1 DEF Owes
    <3>2. CASE i # 1
      <4>1. i - 1 \in 1..Len(ready') /\ ready'[i - 1] = last
        BY <1>1, <2>2, <3>2
      <4>2. last # co
        BY <1>1, <2>2, <3>2 DEF SchedInv, QueuedOnce
      <4>3. \A k \in 2..i : ready[k] # co /\ ready[k] = ready'[k - 1] /\ k - 1 \in 1..(i - 1)
        BY <1>1, <2>2, <3>2 DEF SchedInv, QueuedOnce
      <4>4. \A k \in 1..(i - 1) : k + 1 \in 2..i /\ ready'[k] = ready[k + 1]
        BY <1>1, <2>2, <3>2
      <4>5. 1..i = {1} \cup 2..i
        BY <1>1
      <4>6. owed' = {ready'[k] : k \in 1..(i - 1)}
        <5>1. ASSUME NEW k \in 1..(i - 1)
              PROVE  ready'[k] \in owed'
          BY <1>4, <2>2, <4>3, <4>4, <4>5
        <5>2. ASSUME NEW x \in owed'
              PROVE  \E k \in 1..(i - 1) : ready'[k] = x
          <6>1. PICK k \in 1..i : ready[k] = x /\ x # co
            BY <1>4, <2>2
          <6>2. k \in 2..i
            BY <1>1, <4>5, <6>1
          <6> QED
            BY <4>3, <6>1, <6>2
        <5> QED
          BY <5>1, <5>2
      <4> QED
        BY <1>4, <4>1, <4>2, <4>6 DEF Owes
    <3> QED
      BY <3>1, <3>2
  <2> QED
    BY <1>4, <2>1, <2>2 DEF SchedInv, Owes
<1> QED
  BY <1>1, <1>4, <1>5, <1>6, <1>7, <1>8, <1>9, <1>10 DEF SchedInv

(* The coroutine that waits for the event's descriptor runs. *)
LEMMA HandleEventStep ==
  ASSUME SchedInv, HandleEvent
  PROVE  SchedInv' /\ live' = live
<1> USE Kinds
<1>1. PICK f \in events :
        IF WaitsFor(f) = {} THEN Crash("null_pointer")
        ELSE /\ events' = events \ {f}
             /\ \E co \in WaitsFor(f), bits \in {{}, {"FDEOF"}} : Resume(co, bits)
             /\ UNCHANGED <<phase, last, owed, ready, sleeping, waiting, live, fd, at, fdVars>>
  BY DEF HandleEvent
<1>2. owner[f] \in WaitsFor(f) /\ f \in fired
  BY DEF SchedInv, BatchWaits, WaitsFor
<1>3. PICK co \in WaitsFor(f), bits \in {{}, {"FDEOF"}} : Resume(co, bits)
  BY <1>1, <1>2
<1>4. co \in waiting /\ fd[co] = f /\ owner[f] = co /\ co \in Coroutines
  BY OwnerWaits DEF SchedInv, TypeOK
<1>5. /\ events' = events \ {f} /\ curr' = co /\ status' = [status EXCEPT ![co] = bits]
      /\ UNCHANGED <<phase, last, owed, ready, sleeping, waiting, live, fd, at, fdVars>>
      /\ phase = "events" /\ curr = Null
  BY <1>1, <1>2, <1>3 DEF Resume, HandleEvent, Loop
<1>6. bits \in SUBSET Bits
  BY DEF Bits
<1>7. co \in live /\ at[co] = "poll" /\ ~InReady(co)
  BY <1>4 DEF SchedInv, Placed
<1>8. TypeOK'
  BY <1>4, <1>5, <1>6 DEF SchedInv, TypeOK, fdVars
<1>9. Sound' /\ WaitersOwn'
  BY <1>5 DEF SchedInv, Sound, WaitersOwn, fdVars
<1>10. QueuedOnce' /\ Placed'
  BY <1>4, <1>5, <1>7, SameQueue DEF SchedInv, Placed, TypeOK
<1>11. CleanStatus' /\ WokenInTime'
  BY <1>2, <1>4, <1>5, <1>7 DEF SchedInv, CleanStatus, WokenInTime, TypeOK, fdVars
<1>12. BatchWaits'
  <2>1. \A g \in events' : g # f /\ g \in events
    BY <1>5
  <2>2. \A g \in events' : owner[g] # co
    BY <1>4, <2>1 DEF SchedInv, BatchWaits
  <2> QED
    BY <1>5, <2>1, <2>2 DEF SchedInv, BatchWaits, fdVars
<1>13. Owes'
  BY <1>5 DEF SchedInv, Owes
<1> QED
  BY <1>5, <1>8, <1>9, <1>10, <1>11, <1>12, <1>13 DEF SchedInv

(* What a coroutine does. *)

(* nty_poll_inner goes on: it finds itself in the tree. *)
LEMMA PollReturnStep ==
  ASSUME SchedInv, NEW co \in Coroutines, PollReturn(co)
  PROVE  SchedInv' /\ live' = live
<1> USE Kinds
<1>1. co \in live /\ co \in waiting /\ curr = co /\ at[co] = "poll"
  BY DEF SchedInv, Placed, PollReturn, Running
<1>2. /\ fd[co] \in Fds /\ owner[fd[co]] = co
      /\ co \in WaitsFor(fd[co]) /\ \A it \in WaitsFor(fd[co]) : it = co
  BY <1>1, OwnerWaits DEF SchedInv, WaitersOwn, WaitsFor
<1>3. /\ epoll' = epoll \ {fd[co]}
      /\ waiting' = waiting \ {co}
      /\ status' = [status EXCEPT ![co] = {}]
      /\ at' = [at EXCEPT ![co] = "own"]
      /\ fired' = fired \/ fired' = fired \ {fd[co]}
      /\ UNCHANGED <<loopVars, curr, ready, sleeping, live, fd, owner>>
  BY <1>2 DEF PollReturn
<1>4. TypeOK'
  BY <1>3 DEF SchedInv, TypeOK, loopVars
<1>5. Sound' /\ Owes'
  BY <1>3 DEF SchedInv, Sound, Owes, loopVars
<1>6. QueuedOnce' /\ Placed'
  BY <1>1, <1>3, SameQueue DEF SchedInv, Placed, TypeOK
<1>7. WaitersOwn'
  BY <1>2, <1>3 DEF SchedInv, WaitersOwn
<1>8. BatchWaits'
  <2>1. \A f \in events : owner[f] # co /\ f # fd[co]
    BY <1>1, <1>2 DEF SchedInv, BatchWaits
  <2> QED
    BY <1>3, <2>1 DEF SchedInv, BatchWaits, loopVars
<1>9. CleanStatus' /\ WokenInTime'
  BY <1>1, <1>3 DEF SchedInv, CleanStatus, WokenInTime, TypeOK
<1> QED
  BY <1>3, <1>4, <1>5, <1>6, <1>7, <1>8, <1>9 DEF SchedInv

(* Nobody who runs its own code waits, or is queued. *)
LEMMA InOwnCodeFacts ==
  ASSUME SchedInv, NEW co \in Coroutines, InOwnCode(co)
  PROVE  /\ curr = co /\ at[co] = "own" /\ co \in live /\ co \notin waiting /\ ~InReady(co)
         /\ curr # Null /\ ready \in Seq(Coroutines) /\ Len(ready) \in Nat
         /\ "WAIT_READ" \notin status[co] /\ "FDEOF" \notin status[co]
<1>1. curr = co /\ at[co] = "own" /\ curr # Null
  BY Kinds DEF InOwnCode, Running
<1>2. co \in live /\ co \notin waiting /\ ~InReady(co)
  BY <1>1 DEF SchedInv, Placed
<1>3. ready \in Seq(Coroutines) /\ Len(ready) \in Nat
  BY DEF SchedInv, TypeOK
<1> QED
  BY <1>1, <1>2, <1>3 DEF SchedInv, CleanStatus

(* The function returns: the coroutine is freed, and was nowhere else. *)
LEMMA ReturnStep ==
  ASSUME SchedInv, NEW co \in Coroutines, Return(co)
  PROVE  SchedInv'
<1> USE Kinds
<1>1. /\ curr = co /\ at[co] = "own" /\ co \in live /\ co \notin waiting /\ ~InReady(co)
      /\ curr # Null /\ Len(ready) \in Nat
  BY InOwnCodeFacts DEF Return
<1>2. /\ status' = [status EXCEPT ![co] = @ \cup {"EXITED", "FDEOF", "DETACH"}]
      /\ live' = live \ {co} /\ Yield
      /\ UNCHANGED <<ready, sleeping, waiting, fd, at, fdVars>>
  BY <1>1 DEF Return, SchedInv, Sound
<1>3. /\ Owes' /\ curr' = Null /\ events' = events
      /\ phase' \in Phases \ Crashes /\ last' \in Coroutines \cup {Null}
      /\ owed' \subseteq Coroutines
      /\ phase' = "events" <=> phase = "events"
  BY <1>1, <1>2, YieldStep DEF SchedInv
<1>4. TypeOK'
  BY <1>2, <1>3 DEF SchedInv, TypeOK, Bits, fdVars
<1>5. Sound' /\ WaitersOwn' /\ WokenInTime'
  BY <1>2, <1>3 DEF SchedInv, Sound, WaitersOwn, WokenInTime, fdVars
<1>6. QueuedOnce' /\ Placed'
  BY <1>1, <1>2, <1>3, SameQueue DEF SchedInv, Placed
<1>7. BatchWaits'
  <2>1. \A f \in events : owner[f] # Null
    BY DEF SchedInv, BatchWaits, TypeOK
  <2> QED
    BY <1>2, <1>3, <2>1 DEF SchedInv, BatchWaits, fdVars
<1>8. CleanStatus'
  BY <1>2 DEF SchedInv, CleanStatus, TypeOK
<1> QED
  BY <1>3, <1>4, <1>5, <1>6, <1>7, <1>8 DEF SchedInv

(* sleep(0): to the end of the ready queue *)
LEMMA SleepZeroStep ==
  ASSUME SchedInv, NEW co \in Coroutines, SleepZero(co)
  PROVE  SchedInv' /\ live' = live
<1> USE Kinds
<1>1. /\ curr = co /\ at[co] = "own" /\ co \in live /\ co \notin waiting /\ ~InReady(co)
      /\ curr # Null
  BY InOwnCodeFacts DEF SleepZero
<1>2. /\ ready' = Append(ready, co) /\ Yield
      /\ UNCHANGED <<sleeping, waiting, live, coVars, fdVars>>
  BY <1>1 DEF SleepZero
<1>3. /\ ready' \in Seq(Coroutines) /\ Len(ready) \in Nat /\ Len(ready') = Len(ready) + 1
      /\ \A i \in 1..Len(ready) : ready'[i] = ready[i]
      /\ QueuedOnce'
      /\ \A c : InReady(c)' <=> InReady(c) \/ c = co
  BY <1>1, <1>2, AppendReady DEF SchedInv
<1>4. /\ Owes' /\ curr' = Null /\ events' = events
      /\ phase' \in Phases \ Crashes /\ last' \in Coroutines \cup {Null}
      /\ owed' \subseteq Coroutines
      /\ phase' = "events" <=> phase = "events"
  BY <1>1, <1>2, <1>3, YieldStep DEF SchedInv
<1>5. TypeOK'
  BY <1>2, <1>3, <1>4 DEF SchedInv, TypeOK, coVars, fdVars
<1>6. Sound' /\ WaitersOwn' /\ WokenInTime' /\ CleanStatus'
  BY <1>2, <1>4 DEF SchedInv, Sound, WaitersOwn, WokenInTime, CleanStatus, coVars, fdVars
<1>7. Placed'
  BY <1>1, <1>2, <1>3, <1>4 DEF SchedInv, Placed, coVars
<1>8. BatchWaits'
  <2>1. \A f \in events : owner[f] # Null
    BY DEF SchedInv, BatchWaits, TypeOK
  <2> QED
    BY <1>2, <1>4, <2>1 DEF SchedInv, BatchWaits, coVars, fdVars
<1> QED
  BY <1>2, <1>3, <1>4, <1>5, <1>6, <1>7, <1>8 DEF SchedInv

(* nty_poll_inner: the asserts hold, since nobody waits for a descriptor of  *)
(* another, and the coroutine joins the waiting ones.                        *)
LEMMA PollStep ==
  ASSUME SchedInv, NEW co \in Coroutines, NEW f \in Fds, Poll(co, f)
  PROVE  SchedInv' /\ live' = live
<1> USE Kinds
<1>1. /\ curr = co /\ at[co] = "own" /\ co \in live /\ co \notin waiting /\ ~InReady(co)
      /\ curr # Null /\ Len(ready) \in Nat /\ "WAIT_READ" \notin status[co]
  BY InOwnCodeFacts DEF Poll
<1>2. owner[f] = co /\ WaitsFor(f) = {}
  <2>1. owner[f] = co
    BY DEF Poll, MayUse
  <2> QED
    BY <1>1, <2>1, OwnerWaits DEF SchedInv
<1>3. PICK bits \in {{}, {"WAIT_READ"}} : status' = [status EXCEPT ![co] = @ \cup bits]
  BY <1>1, <1>2 DEF Poll
<1>4. /\ epoll' = epoll \cup {f} /\ fd' = [fd EXCEPT ![co] = f]
      /\ waiting' = waiting \cup {co} /\ at' = [at EXCEPT ![co] = "poll"]
      /\ Yield /\ UNCHANGED <<ready, sleeping, live, owner, fired>>
  BY <1>1, <1>2 DEF Poll
<1>5. /\ Owes' /\ curr' = Null /\ events' = events
      /\ phase' \in Phases \ Crashes /\ last' \in Coroutines \cup {Null}
      /\ owed' \subseteq Coroutines
      /\ phase' = "events" <=> phase = "events"
  BY <1>1, <1>4, YieldStep DEF SchedInv
<1>6. TypeOK'
  BY <1>3, <1>4, <1>5 DEF SchedInv, TypeOK, Bits
<1>7. Sound' /\ WokenInTime'
  BY <1>4, <1>5 DEF SchedInv, Sound, WokenInTime
<1>8. WaitersOwn'
  <2>1. \A c \in waiting : c # co /\ c \in Coroutines
    BY <1>1 DEF SchedInv, TypeOK
  <2>2. fd' [co] = f /\ \A c \in waiting : fd'[c] = fd[c]
    BY <1>4, <2>1 DEF SchedInv, TypeOK
  <2> QED
    BY <1>2, <1>4, <2>1, <2>2 DEF SchedInv, WaitersOwn
<1>9. QueuedOnce' /\ Placed'
  BY <1>1, <1>4, <1>5, SameQueue DEF SchedInv, Placed, TypeOK
<1>10. BatchWaits'
  <2>1. \A g \in events : /\ owner[g] # Null /\ owner[g] # co /\ owner[g] \in Coroutines
                          /\ fd'[owner[g]] = fd[owner[g]]
    BY <1>1, <1>4 DEF SchedInv, BatchWaits, TypeOK
  <2> QED
    BY <1>4, <1>5, <2>1 DEF SchedInv, BatchWaits
<1>11. CleanStatus'
  BY <1>3, <1>4 DEF SchedInv, CleanStatus, TypeOK
<1> QED
  BY <1>4, <1>5, <1>6, <1>7, <1>8, <1>9, <1>10, <1>11 DEF SchedInv

(* nty_coroutine_create: one more, at the end of the ready queue, which may  *)
(* be given a descriptor that nobody waits for.                              *)
LEMMA CreateStep ==
  ASSUME SchedInv, NEW co \in Coroutines, Create(co)
  PROVE  SchedInv' /\ live \subseteq live'
<1> USE Kinds
<1>1. /\ curr = co /\ at[co] = "own" /\ co \in live /\ co \notin waiting /\ ~InReady(co)
  BY InOwnCodeFacts DEF Create
<1>2. PICK new \in Coroutines \ live :
         /\ live' = live \cup {new}
         /\ status' = [status EXCEPT ![new] = {"NEW"}]
         /\ fd' = [fd EXCEPT ![new] = Null]
         /\ at' = [at EXCEPT ![new] = "own"]
         /\ ready' = Append(ready, new)
         /\ \/ UNCHANGED owner
            \/ \E f \in Fds : MayUse(co, f) /\ owner' = [owner EXCEPT ![f] = new]
  BY DEF Create
<1>3. UNCHANGED <<loopVars, curr, sleeping, waiting, epoll, fired>>
  BY DEF Create
<1>4. new # co /\ new \notin waiting /\ ~InReady(new) /\ curr # new
  BY <1>1, <1>2 DEF SchedInv, Placed
<1>5. /\ ready' \in Seq(Coroutines) /\ Len(ready) \in Nat /\ Len(ready') = Len(ready) + 1
      /\ \A i \in 1..Len(ready) : ready'[i] = ready[i]
      /\ QueuedOnce'
      /\ \A c : InReady(c)' <=> InReady(c) \/ c = new
  BY <1>2, <1>4, AppendReady DEF SchedInv
<1>6. /\ owner' \in [Fds -> Coroutines \cup {Null}]
      /\ \A f \in Fds : owner'[f] = owner[f] \/ owner[f] = co
  BY <1>2 DEF SchedInv, TypeOK, MayUse
<1>7. TypeOK'
  BY <1>2, <1>3, <1>5, <1>6 DEF SchedInv, TypeOK, Bits, loopVars
<1>8. Sound'
  BY <1>3 DEF SchedInv, Sound, loopVars
<1>9. \A c \in waiting : fd'[c] = fd[c] /\ c # co /\ c # new
  BY <1>1, <1>2, <1>4 DEF SchedInv, TypeOK
<1>10. WaitersOwn'
  <2>1. \A c \in waiting : fd[c] \in Fds /\ owner[fd[c]] # co
    BY <1>9 DEF SchedInv, WaitersOwn
  <2>2. \A f \in epoll : f \in Fds /\ owner[f] # co
    BY <1>9 DEF SchedInv, WaitersOwn, TypeOK
  <2> QED
    BY <1>3, <1>6, <1>9, <2>1, <2>2 DEF SchedInv, WaitersOwn
<1>11. Placed'
  BY <1>1, <1>2, <1>3, <1>4, <1>5 DEF SchedInv, Placed, TypeOK
<1>12. BatchWaits'
  <2>1. \A f \in events : f \in Fds /\ owner'[f] = owner[f] /\ fd'[owner[f]] = fd[owner[f]]
    BY <1>1, <1>6, <1>9 DEF SchedInv, BatchWaits, TypeOK
  <2> QED
    BY <1>3, <2>1 DEF SchedInv, BatchWaits, loopVars
<1>13. CleanStatus' /\ WokenInTime'
  BY <1>1, <1>2, <1>3, <1>4 DEF SchedInv, CleanStatus, WokenInTime, TypeOK
<1>14. Owes'
  <2>1. CASE phase = "ready" /\ ~(last \in {Null, curr} /\ owed = {})
    <3>1. PICK i \in 1..Len(ready) : ready[i] = last /\ owed = {ready[k] : k \in 1..i}
      BY <2>1 DEF SchedInv, Owes
    <3>2. i \in 1..Len(ready') /\ ready'[i] = last' /\ last # curr
      BY <1>3, <1>5, <2>1, <3>1 DEF SchedInv, Owes, loopVars
    <3>3. owed' = {ready'[k] : k \in 1..i}
      BY <1>3, <1>5, <3>1 DEF loopVars
    <3> QED
      BY <1>3, <2>1, <3>2, <3>3 DEF Owes, loopVars
  <2>2. CASE ~(phase = "ready" /\ ~(last \in {Null, curr} /\ owed = {}))
    BY <1>3, <2>2 DEF SchedInv, Owes, loopVars
  <2> QED
    BY <2>1, <2>2
<1> QED
  BY <1>2, <1>5, <1>7, <1>8, <1>10, <1>11, <1>12, <1>13, <1>14 DEF SchedInv

(* socket, close and the kernel: no descriptor that somebody waits for.      *)
LEMMA DescriptorStep ==
  ASSUME SchedInv,
         \/ \E co \in Coroutines : Open(co) \/ \E f \in Fds : Close(co, f)
         \/ \E f \in Fds : Fire(f)
  PROVE  SchedInv' /\ live' = live
<1> USE Kinds
<1>1. UNCHANGED <<loopVars, curr, ready, sleeping, waiting, live, coVars>>
  BY DEF Open, Close, Fire
<1>2. Sound' /\ QueuedOnce' /\ Placed' /\ CleanStatus' /\ Owes'
  BY <1>1, SameQueue DEF SchedInv, Sound, Placed, CleanStatus, Owes, loopVars, coVars
<1>3. CASE \E f \in Fds : Fire(f)
  <2>1. fired \subseteq fired' /\ fired' \subseteq Fds /\ UNCHANGED <<epoll, owner>>
    BY <1>3 DEF Fire, SchedInv, TypeOK
  <2> QED
    BY <1>1, <1>2, <2>1
       DEF SchedInv, TypeOK, WaitersOwn, BatchWaits, WokenInTime, loopVars, coVars
<1>4. ASSUME NEW co \in Coroutines, Open(co)
      PROVE  SchedInv'
  <2>1. PICK f \in Fds : owner[f] = Null /\ owner' = [owner EXCEPT ![f] = co]
    BY <1>4 DEF Open
  <2>2. UNCHANGED <<epoll, fired>>
    BY <1>4 DEF Open
  <2>3. TypeOK'
    BY <1>1, <2>1, <2>2 DEF SchedInv, TypeOK, loopVars, coVars
  <2>4. \A g \in Fds : owner[g] # Null => owner'[g] = owner[g]
    BY <2>1 DEF SchedInv, TypeOK
  <2>5. /\ \A c \in waiting : fd[c] \in Fds /\ owner[fd[c]] # Null
        /\ \A g \in epoll \cup events : g \in Fds /\ owner[g] # Null
    BY DEF SchedInv, TypeOK, WaitersOwn, BatchWaits
  <2>6. WaitersOwn'
    BY <1>1, <2>2, <2>4, <2>5 DEF SchedInv, WaitersOwn, coVars
  <2>7. BatchWaits' /\ WokenInTime'
    BY <1>1, <2>2, <2>4, <2>5 DEF SchedInv, BatchWaits, WokenInTime, loopVars, coVars
  <2> QED
    BY <1>2, <2>3, <2>6, <2>7 DEF SchedInv
<1>5. ASSUME NEW co \in Coroutines, NEW f \in Fds, Close(co, f)
      PROVE  SchedInv'
  <2>1. /\ curr = co /\ co \notin waiting /\ at[co] = "own"
    BY <1>5, InOwnCodeFacts DEF Close
  <2>2. /\ owner[f] = co /\ owner' = [owner EXCEPT ![f] = Null]
        /\ epoll' = epoll \ {f} /\ fired' = fired \ {f}
    BY <1>5 DEF Close, MayUse
  <2>3. TypeOK'
    BY <1>1, <2>2 DEF SchedInv, TypeOK, loopVars, coVars
  <2>4. /\ \A c \in waiting : fd[c] \in Fds /\ fd[c] # f
        /\ \A g \in epoll \cup events : g \in Fds /\ g # f
    BY <2>1, <2>2 DEF SchedInv, TypeOK, WaitersOwn, BatchWaits
  <2>5. \A g \in Fds : g # f => owner'[g] = owner[g]
    BY <2>2 DEF SchedInv, TypeOK
  <2>6. WaitersOwn'
    BY <1>1, <2>2, <2>4, <2>5 DEF SchedInv, WaitersOwn, coVars
  <2>7. BatchWaits' /\ WokenInTime'
    BY <1>1, <2>1, <2>2, <2>4, <2>5 DEF SchedInv, BatchWaits, WokenInTime, loopVars, coVars
  <2> QED
    BY <1>2, <2>3, <2>6, <2>7 DEF SchedInv
<1> QED
  BY <1>1, <1>3, <1>4, <1>5

(* Every step, and whom it frees *)
LEMMA Step ==
  ASSUME SchedInv, [Next]_vars
  PROVE  SchedInv' /\ \A co \in live \ live' : curr = co
<1>1. CASE UNCHANGED vars
  BY <1>1, SameQueue
     DEF vars, loopVars, coVars, fdVars, SchedInv, TypeOK, Sound, Placed, WaitersOwn, BatchWaits,
         CleanStatus, WokenInTime, Owes
<1>2. CASE RunLoop
  <2>1. CASE Round \/ NoneExpired \/ ReadyEmpty \/ SkipEpoll \/ WaitEpoll \/ EventsDone
    <3>1. live' = live
      BY <2>1 DEF Round, NoneExpired, ReadyEmpty, SkipEpoll, WaitEpoll, EventsDone
    <3> QED
      BY <2>1, <3>1, LoopStep
  <2>2. CASE RunReady \/ HandleEvent
    BY <2>2, RunReadyStep, HandleEventStep
  <2> QED
    BY <1>2, <2>1, <2>2 DEF RunLoop
<1>3. CASE Stop
  <2>1. ASSUME NEW co \in Coroutines, Return(co)
        PROVE  SchedInv' /\ \A c \in live \ live' : curr = c
    <3>1. \A c \in live \ live' : curr = c
      BY <2>1 DEF Return, InOwnCode, Running, Crash
    <3> QED
      BY <2>1, <3>1, ReturnStep
  <2>2. ASSUME NEW co \in Coroutines, PollReturn(co) \/ SleepZero(co) \/ \E f \in Fds : Poll(co, f)
        PROVE  SchedInv' /\ live' = live
    BY <2>2, PollReturnStep, SleepZeroStep, PollStep
  <2> QED
    BY <1>3, <2>1, <2>2 DEF Stop
<1>4. CASE Call \/ \E f \in Fds : Fire(f)
  <2>1. ASSUME NEW co \in Coroutines, Create(co)
        PROVE  SchedInv' /\ \A c \in live \ live' : curr = c
    BY <2>1, CreateStep
  <2> QED
    BY <1>4, <2>1, DescriptorStep DEF Call
<1> QED
  BY <1>1, <1>2, <1>3, <1>4 DEF Next

(* The inductive invariant, when none sleeps: everybody is in one place, who *)
(* waits owns what it waits for, and the round owes what it should.          *)
THEOREM SchedulerInvariant ==
  Spec => []SchedInv
<1>1. Init => SchedInv
  <2> SUFFICES ASSUME Init PROVE SchedInv
    OBVIOUS
  <2>1. ready \in Seq(Coroutines) /\ Len(ready) = 1 /\ ready[1] = First
    BY Kinds DEF Init
  <2>2. \A co : InReady(co) <=> co = First
    BY <2>1 DEF InReady
  <2>3. TypeOK
    BY <2>1, Kinds DEF Init, TypeOK, Phases, Bits
  <2>4. QueuedOnce
    BY <2>1 DEF QueuedOnce
  <2>5. Placed
    BY <2>2, Kinds DEF Init, Placed
  <2> QED
    BY <2>3, <2>4, <2>5, Kinds
       DEF Init, SchedInv, Sound, Crashes, WaitersOwn, BatchWaits, CleanStatus, WokenInTime, Owes
<1>2. SchedInv /\ [Next]_vars => SchedInv'
  BY Step
<1> QED
  BY <1>1, <1>2, PTL DEF Spec

(* The scheduler's state is of its type. *)
THEOREM TypeCorrect ==
  Spec => []TypeOK
<1>1. SchedInv => TypeOK
  BY DEF SchedInv
<1> QED
  BY <1>1, SchedulerInvariant, PTL

(* Every coroutine that exists is once in the ready queue, in the tree of    *)
(* those that wait, or running.                                              *)
THEOREM CoroutinesInOnePlace ==
  Spec => []OnePlace
<1>1. SchedInv => OnePlace
  BY DEF SchedInv, OnePlace, QueuedOnce, Placed
<1> QED
  BY <1>1, SchedulerInvariant, PTL

(* nty_schedule_search_wait finds whoever waits, for every event of a batch. *)
THEOREM EventsMeetWaiters ==
  Spec => []EventsHaveWaiters
<1>1. SchedInv => EventsHaveWaiters
  <2>1. SchedInv => \A f \in events : owner[f] \in WaitsFor(f)
    BY DEF SchedInv, BatchWaits, WaitsFor
  <2> QED
    BY <2>1 DEF SchedInv, Sound, Crashes, EventsHaveWaiters
<1> QED
  BY <1>1, SchedulerInvariant, PTL

(* Who returns to recv or accept finds its descriptor ready. *)
THEOREM WakeUpsAreTimely ==
  Spec => []WokenInTime
<1>1. SchedInv => WokenInTime
  BY DEF SchedInv
<1> QED
  BY <1>1, SchedulerInvariant, PTL

(* The asserts of nty_schedule_sched_wait hold. *)
THEOREM AssertsAreTrue ==
  Spec => []AssertsHold
<1>1. SchedInv => AssertsHold
  BY DEF SchedInv, Sound, Crashes, AssertsHold
<1> QED
  BY <1>1, SchedulerInvariant, PTL

(* A round of the ready queue gives everyone it found a turn. *)
THEOREM RoundsAreComplete ==
  Spec => []RoundIsComplete
<1>1. SchedInv => RoundIsComplete
  BY DEF SchedInv, Owes, RoundIsComplete
<1> QED
  BY <1>1, SchedulerInvariant, PTL

(* nty_schedule_run frees no coroutine but the one whose function returned.  *)
THEOREM OnlyReturnedAreFreed ==
  Spec => FreedWhenReturned
<1>1. SchedInv /\ [Next]_vars => [\A co \in live \ live' : curr = co]_vars
  BY Step
<1> QED
  BY <1>1, SchedulerInvariant, PTL DEF Spec, FreedWhenReturned
-----------------------------------------------------------------------------
(* With sleepers: who waits is inside nty_poll_inner and owns its            *)
(* descriptor, only who waits has the bit of a waiter, and only who was      *)
(* resumed for an event has FDEOF.                                           *)
SleepersInv ==
    /\ TypeOK /\ AssertsHold
    /\ \A co \in Coroutines : co \in waiting <=> co \in live /\ at[co] = "poll"
    /\ \A co \in waiting : fd[co] \in Fds /\ owner[fd[co]] = co
    /\ \A co \in Coroutines : "WAIT_READ" \in status[co] => co \in waiting
    /\ \A co \in live : "FDEOF" \in status[co] => curr = co /\ at[co] = "poll"
    /\ \A i \in 1..Len(ready) : ready[i] \in live
    /\ curr \in live \cup {Null} /\ sleeping \subseteq live

LEMMA SleepersLoopStep ==
  ASSUME SleepersInv,
         Round \/ NoneExpired \/ ReadyEmpty \/ SkipEpoll \/ WaitEpoll \/ EventsDone
  PROVE  SleepersInv' /\ live' = live
BY DEF SleepersInv, TypeOK, AssertsHold, Round, NoneExpired, ReadyEmpty, SkipEpoll, WaitEpoll,
       EventsDone, EndReady, Loop, Phases, Crashes, coVars, fdVars, InReady

(* Whoever is resumed is live, and keeps its bits or gets those given. *)
LEMMA SleepersResume ==
  ASSUME SleepersInv, curr = Null, NEW co \in live, NEW bits \in SUBSET Bits, Resume(co, bits),
         "WAIT_READ" \in bits => co \in waiting,
         "FDEOF" \in bits => at[co] = "poll",
         phase' = phase, last' = last, owed' \subseteq Coroutines, events' \subseteq Fds,
         ready' \in Seq(Coroutines), \A i \in 1..Len(ready') : ready'[i] \in live,
         sleeping' \subseteq sleeping, UNCHANGED <<waiting, live, fd, at, fdVars>>
  PROVE  SleepersInv' /\ live' = live
<1>1. /\ curr' = co
      /\ status' = [status EXCEPT ![co] = IF "NEW" \in bits THEN {"READY"} ELSE bits]
  BY DEF Resume
<1>2. TypeOK' /\ AssertsHold'
  BY <1>1 DEF SleepersInv, TypeOK, AssertsHold, Bits, fdVars
<1>3. co \in Coroutines /\ status \in [Coroutines -> SUBSET Bits]
  BY DEF SleepersInv, TypeOK
<1>4. /\ "WAIT_READ" \in status'[co] => co \in waiting
      /\ "FDEOF" \in status'[co] => at[co] = "poll"
      /\ \A c \in Coroutines \ {co} : status'[c] = status[c]
  BY <1>1, <1>3
<1>5. co # Null
  BY <1>3, Kinds
<1>6. /\ waiting' = waiting /\ live' = live /\ fd' = fd /\ at' = at /\ owner' = owner
      /\ sleeping' \subseteq sleeping
  BY DEF fdVars
<1>7. \A c \in Coroutines : c \in waiting' <=> c \in live' /\ at'[c] = "poll"
  BY <1>6 DEF SleepersInv
<1>8. \A c \in waiting' : fd'[c] \in Fds /\ owner'[fd'[c]] = c
  BY <1>6 DEF SleepersInv
<1>9. \A c \in Coroutines : "WAIT_READ" \in status'[c] => c \in waiting'
  BY <1>4, <1>6 DEF SleepersInv
<1>10. \A c \in live' : "FDEOF" \in status'[c] => curr' = c /\ at'[c] = "poll"
  <2> SUFFICES ASSUME NEW c \in live', "FDEOF" \in status'[c]
               PROVE  curr' = c /\ at'[c] = "poll"
    OBVIOUS
  <2>1. c \in live /\ c \in Coroutines /\ c # Null
    BY <1>6, Kinds DEF SleepersInv, TypeOK
  <2>2. CASE c = co
    BY <1>1, <1>4, <1>6, <2>2
  <2>3. CASE c # co
    <3>1. "FDEOF" \in status[c]
      BY <1>4, <2>1, <2>3
    <3> QED
      BY <2>1, <3>1 DEF SleepersInv
  <2> QED
    BY <2>2, <2>3
<1>11. /\ \A i \in 1..Len(ready') : ready'[i] \in live'
       /\ curr' \in live' \cup {Null} /\ sleeping' \subseteq live'
  BY <1>1, <1>6 DEF SleepersInv
<1> QED
  BY <1>2, <1>6, <1>7, <1>8, <1>9, <1>10, <1>11 DEF SleepersInv

LEMMA SleepersCrash ==
  ASSUME SleepersInv, NEW how \in Crashes \ {"assert"}, Crash(how)
  PROVE  SleepersInv' /\ live' = live
BY DEF SleepersInv, TypeOK, AssertsHold, Crash, Phases, Crashes, coVars, fdVars

LEMMA SleepersExpire ==
  ASSUME SleepersInv, Expire
  PROVE  SleepersInv' /\ live' = live
<1>1. PICK co \in sleeping : sleeping' = sleeping \ {co} /\ Resume(co, status[co])
  BY DEF Expire
<1>2. /\ curr = Null /\ co \in live /\ co \in Coroutines /\ status[co] \in SUBSET Bits
      /\ UNCHANGED <<loopVars, ready, waiting, live, fd, at, fdVars>>
  BY DEF Expire, Loop, SleepersInv, TypeOK
<1>3. "FDEOF" \notin status[co]
  BY <1>2, Kinds DEF SleepersInv
<1>4. /\ phase' = phase /\ last' = last /\ owed' = owed /\ events' = events /\ ready' = ready
      /\ UNCHANGED <<waiting, live, fd, at, fdVars>>
  BY <1>2 DEF loopVars
<1>5. /\ owed' \subseteq Coroutines /\ events' \subseteq Fds /\ ready' \in Seq(Coroutines)
      /\ \A i \in 1..Len(ready') : ready'[i] \in live
      /\ "WAIT_READ" \in status[co] => co \in waiting
  BY <1>2, <1>4 DEF SleepersInv, TypeOK
<1> QED
  BY <1>1, <1>2, <1>3, <1>4, <1>5, SleepersResume

LEMMA SleepersRunReady ==
  ASSUME SleepersInv, RunReady
  PROVE  SleepersInv' /\ live' = live
<1> DEFINE co == Head(ready)
<1>1. /\ curr = Null /\ ready # <<>> /\ ready' = Tail(ready) /\ ready \in Seq(Coroutines)
      /\ UNCHANGED <<events, sleeping, waiting, fd, at, fdVars>>
  BY DEF RunReady, Loop, SleepersInv, TypeOK
<1>2. /\ co = ready[1] /\ Len(ready) \in Nat \ {0} /\ ready' \in Seq(Coroutines)
      /\ Len(ready') = Len(ready) - 1 /\ \A i \in 1..Len(ready') : ready'[i] = ready[i + 1]
  BY <1>1
<1>3. /\ co \in live /\ co \in Coroutines /\ \A i \in 1..Len(ready') : ready'[i] \in live
  <2>1. 1 \in 1..Len(ready) /\ \A i \in 1..Len(ready') : i + 1 \in 1..Len(ready)
    BY <1>2
  <2> QED
    BY <1>2, <2>1 DEF SleepersInv, TypeOK
<1> HIDE DEF co
<1>4. "FDEOF" \notin status[co]
  BY <1>1, <1>3, Kinds DEF SleepersInv, TypeOK
<1>5. owed' = owed \ {co} /\ Resume(co, status[co]) /\ UNCHANGED <<phase, last, live>>
  BY <1>4 DEF RunReady, co
<1>6. /\ status[co] \in SUBSET Bits /\ ("WAIT_READ" \in status[co] => co \in waiting)
      /\ owed' \subseteq Coroutines /\ events' \subseteq Fds
  BY <1>1, <1>3, <1>5 DEF SleepersInv, TypeOK
<1>7. /\ phase' = phase /\ last' = last /\ live' = live /\ sleeping' = sleeping
      /\ UNCHANGED <<waiting, live, fd, at, fdVars>>
      /\ sleeping' \subseteq sleeping
  BY <1>1, <1>5
<1>8. Resume(co, status[co]) /\ curr = Null /\ ("FDEOF" \in status[co] => at[co] = "poll")
  BY <1>1, <1>4, <1>5
<1> QED
  BY <1>2, <1>3, <1>6, <1>7, <1>8, SleepersResume

LEMMA SleepersHandleEvent ==
  ASSUME SleepersInv, HandleEvent
  PROVE  SleepersInv' /\ live' = live
<1>1. PICK f \in events :
         IF WaitsFor(f) = {} THEN Crash("null_pointer")
         ELSE /\ events' = events \ {f}
              /\ \E co \in WaitsFor(f), bits \in {{}, {"FDEOF"}} : Resume(co, bits)
              /\ UNCHANGED <<phase, last, owed, ready, sleeping, waiting, live, fd, at, fdVars>>
  BY DEF HandleEvent
<1>2. CASE WaitsFor(f) = {}
  BY <1>1, <1>2, SleepersCrash DEF Crashes
<1>3. CASE WaitsFor(f) # {}
  <2>1. /\ events' = events \ {f}
        /\ UNCHANGED <<phase, last, owed, ready, sleeping, waiting, live, fd, at, fdVars>>
    BY <1>1, <1>3
  <2>2. PICK co \in WaitsFor(f), bits \in {{}, {"FDEOF"}} : Resume(co, bits)
    BY <1>1, <1>3
  <2>3. /\ curr = Null /\ co \in waiting /\ co \in live /\ at[co] = "poll"
        /\ bits \in SUBSET Bits /\ "WAIT_READ" \notin bits
    BY <2>2 DEF HandleEvent, Loop, WaitsFor, SleepersInv, TypeOK, Bits
  <2>4. /\ owed' \subseteq Coroutines /\ events' \subseteq Fds /\ ready' \in Seq(Coroutines)
        /\ \A i \in 1..Len(ready') : ready'[i] \in live
    BY <2>1 DEF SleepersInv, TypeOK
  <2> QED
    BY <2>1, <2>2, <2>3, <2>4, SleepersResume
<1> QED
  BY <1>2, <1>3

LEMMA SleepersYield ==
  ASSUME TypeOK, AssertsHold, Yield
  PROVE  /\ phase' \in Phases \ {"assert"} /\ last' \in Coroutines \cup {Null} /\ curr' = Null
         /\ events' = events /\ owed' = owed
BY DEF TypeOK, AssertsHold, Yield, EndReady, Phases, Crashes

(* In its own code the running coroutine does not wait. *)
LEMMA SleepersOwnCode ==
  ASSUME SleepersInv, NEW co \in Coroutines, InOwnCode(co)
  PROVE  /\ curr = co /\ co \in live /\ at[co] = "own" /\ co \notin waiting /\ phase \notin Crashes
         /\ "WAIT_READ" \notin status[co] /\ "FDEOF" \notin status[co]
BY Kinds DEF SleepersInv, InOwnCode, Running

LEMMA SleepersPoll ==
  ASSUME SleepersInv, NEW co \in Coroutines, NEW f \in Fds, Poll(co, f)
  PROVE  SleepersInv' /\ live' = live
<1>1. /\ curr = co /\ co \in live /\ at[co] = "own" /\ co \notin waiting /\ owner[f] = co
      /\ "WAIT_READ" \notin status[co] /\ "FDEOF" \notin status[co]
  BY SleepersOwnCode DEF Poll, MayUse
<1>2. WaitsFor(f) = {}
  BY <1>1 DEF WaitsFor, SleepersInv
<1>3. /\ epoll' = epoll \cup {f}
      /\ \E bits \in {{}, {"WAIT_READ"}} : status' = [status EXCEPT ![co] = @ \cup bits]
      /\ fd' = [fd EXCEPT ![co] = f] /\ waiting' = waiting \cup {co}
      /\ at' = [at EXCEPT ![co] = "poll"] /\ Yield
      /\ UNCHANGED <<ready, sleeping, live, owner, fired>>
  BY <1>1, <1>2 DEF Poll
<1>4. /\ phase' \in Phases \ {"assert"} /\ last' \in Coroutines \cup {Null} /\ curr' = Null
      /\ events' = events /\ owed' = owed
  BY <1>3, SleepersYield DEF SleepersInv
<1>5. /\ status' \in [Coroutines -> SUBSET Bits] /\ "FDEOF" \notin status'[co]
      /\ \A c \in Coroutines \ {co} : status'[c] = status[c]
  BY <1>1, <1>3 DEF SleepersInv, TypeOK, Bits
<1>6. TypeOK' /\ AssertsHold'
  BY <1>3, <1>4, <1>5 DEF SleepersInv, TypeOK, AssertsHold
<1>7. /\ at'[co] = "poll" /\ fd'[co] = f
      /\ \A c \in Coroutines \ {co} : at'[c] = at[c] /\ fd'[c] = fd[c]
  BY <1>3 DEF SleepersInv, TypeOK
<1>8. \A c \in waiting : c \in Coroutines \ {co}
  BY <1>1 DEF SleepersInv, TypeOK
<1>9. /\ \A c \in Coroutines : c \in waiting' <=> c \in live' /\ at'[c] = "poll"
      /\ \A c \in waiting' : fd'[c] \in Fds /\ owner'[fd'[c]] = c
  BY <1>1, <1>3, <1>7, <1>8 DEF SleepersInv
<1>10. /\ \A c \in Coroutines : "WAIT_READ" \in status'[c] => c \in waiting'
       /\ \A c \in live' : "FDEOF" \in status'[c] => curr' = c /\ at'[c] = "poll"
  BY <1>1, <1>3, <1>5 DEF SleepersInv, TypeOK
<1> QED
  BY <1>3, <1>4, <1>6, <1>9, <1>10 DEF SleepersInv

LEMMA SleepersPollReturn ==
  ASSUME SleepersInv, NEW co \in Coroutines, PollReturn(co)
  PROVE  SleepersInv' /\ live' = live
<1>1. curr = co /\ co \in live /\ at[co] = "poll" /\ co \in waiting
  BY Kinds DEF SleepersInv, PollReturn, Running
<1>2. WaitsFor(fd[co]) = {co}
  BY <1>1 DEF WaitsFor, SleepersInv
<1>3. /\ epoll' = epoll \ {fd[co]} /\ waiting' = waiting \ {co}
      /\ status' = [status EXCEPT ![co] = {}] /\ at' = [at EXCEPT ![co] = "own"]
      /\ fired' = fired \/ fired' = fired \ {fd[co]}
      /\ UNCHANGED <<loopVars, curr, ready, sleeping, live, fd, owner>>
  BY <1>2 DEF PollReturn
<1>4. TypeOK' /\ AssertsHold'
  BY <1>3 DEF SleepersInv, TypeOK, AssertsHold, loopVars
<1>5. /\ at'[co] = "own" /\ status'[co] = {}
      /\ \A c \in Coroutines \ {co} : at'[c] = at[c] /\ status'[c] = status[c]
  BY <1>3 DEF SleepersInv, TypeOK
<1> QED
  BY <1>1, <1>3, <1>4, <1>5 DEF SleepersInv, TypeOK

LEMMA SleepersReturn ==
  ASSUME SleepersInv, NEW co \in Coroutines, Return(co)
  PROVE  SleepersInv' /\ \A c \in live \ live' : curr = c
<1>1. /\ curr = co /\ co \in live /\ at[co] = "own" /\ co \notin waiting
      /\ "WAIT_READ" \notin status[co]
  BY SleepersOwnCode DEF Return
<1>2. CASE co \in sleeping \/ InReady(co)
  BY <1>2, SleepersCrash DEF Return, Crashes
<1>3. CASE ~(co \in sleeping \/ InReady(co))
  <2>1. /\ status' = [status EXCEPT ![co] = @ \cup {"EXITED", "FDEOF", "DETACH"}]
        /\ live' = live \ {co} /\ Yield /\ UNCHANGED <<ready, sleeping, waiting, fd, at, fdVars>>
    BY <1>3 DEF Return
  <2>2. /\ phase' \in Phases \ {"assert"} /\ last' \in Coroutines \cup {Null} /\ curr' = Null
        /\ events' = events /\ owed' = owed
    BY <2>1, SleepersYield DEF SleepersInv
  <2>3. TypeOK' /\ AssertsHold'
    BY <2>1, <2>2 DEF SleepersInv, TypeOK, AssertsHold, Bits, fdVars
  <2>4. /\ "WAIT_READ" \notin status'[co]
        /\ \A c \in Coroutines \ {co} : status'[c] = status[c]
    BY <1>1, <2>1 DEF SleepersInv, TypeOK
  <2>5. \A c \in live' : "FDEOF" \in status'[c] => curr' = c /\ at'[c] = "poll"
    BY <1>1, <2>1, <2>4 DEF SleepersInv, TypeOK
  <2>6. \A i \in 1..Len(ready') : ready'[i] \in live'
    BY <1>3, <2>1 DEF SleepersInv, InReady
  <2>7. \A c \in Coroutines : "WAIT_READ" \in status'[c] => c \in waiting'
    BY <2>1, <2>4 DEF SleepersInv
  <2>8. /\ \A c \in Coroutines : c \in waiting' <=> c \in live' /\ at'[c] = "poll"
        /\ \A c \in waiting' : fd'[c] \in Fds /\ owner'[fd'[c]] = c
    BY <1>1, <2>1 DEF SleepersInv, fdVars
  <2>9. curr' \in live' \cup {Null} /\ sleeping' \subseteq live'
    BY <1>3, <2>1, <2>2 DEF SleepersInv
  <2> QED
    BY <1>1, <2>1, <2>3, <2>5, <2>6, <2>7, <2>8, <2>9 DEF SleepersInv
<1> QED
  BY <1>2, <1>3

LEMMA SleepersSleep ==
  ASSUME SleepersInv, NEW co \in Coroutines, SleepZero(co) \/ Sleep(co)
  PROVE  SleepersInv' /\ live' = live
<1>1. /\ curr = co /\ co \in live /\ at[co] = "own" /\ co \notin waiting
      /\ "WAIT_READ" \notin status[co] /\ "FDEOF" \notin status[co]
  BY SleepersOwnCode DEF SleepZero, Sleep
<1>2. CASE SleepZero(co) /\ InReady(co)
  BY <1>2, SleepersCrash DEF SleepZero, Crashes
<1>3. CASE SleepZero(co) /\ ~InReady(co)
  <2>1. ready' = Append(ready, co) /\ Yield /\ UNCHANGED <<sleeping, waiting, live, coVars, fdVars>>
    BY <1>3 DEF SleepZero
  <2>2. /\ phase' \in Phases \ {"assert"} /\ last' \in Coroutines \cup {Null} /\ curr' = Null
        /\ events' = events /\ owed' = owed
    BY <2>1, SleepersYield DEF SleepersInv
  <2>3. /\ ready' \in Seq(Coroutines) /\ \A i \in 1..Len(ready') : ready'[i] \in live
    BY <1>1, <2>1 DEF SleepersInv, TypeOK
  <2>4. TypeOK' /\ AssertsHold'
    BY <2>1, <2>2, <2>3 DEF SleepersInv, TypeOK, AssertsHold, coVars, fdVars
  <2> QED
    BY <1>1, <2>1, <2>2, <2>3, <2>4 DEF SleepersInv, coVars, fdVars
<1>4. CASE Sleep(co)
  <2>1. /\ sleeping' = sleeping \cup {co} /\ status' = [status EXCEPT ![co] = @ \cup {"SLEEPING"}]
        /\ UNCHANGED <<loopVars, curr, ready, waiting, live, fd, at, fdVars>>
    BY <1>4 DEF Sleep
  <2>2. TypeOK' /\ AssertsHold'
    BY <2>1 DEF SleepersInv, TypeOK, AssertsHold, Bits, loopVars, fdVars
  <2>3. \A c \in Coroutines : /\ "WAIT_READ" \in status'[c] <=> "WAIT_READ" \in status[c]
                              /\ "FDEOF" \in status'[c] <=> "FDEOF" \in status[c]
    BY <2>1 DEF SleepersInv, TypeOK
  <2>4. live \subseteq Coroutines
    BY DEF SleepersInv, TypeOK
  <2> QED
    BY <1>1, <2>1, <2>2, <2>3, <2>4 DEF SleepersInv, fdVars
<1> QED
  BY <1>2, <1>3, <1>4

LEMMA SleepersCreate ==
  ASSUME SleepersInv, NEW co \in Coroutines, Create(co)
  PROVE  SleepersInv' /\ live \subseteq live'
<1>1. /\ curr = co /\ co \in live /\ at[co] = "own" /\ co \notin waiting
  BY SleepersOwnCode DEF Create
<1>2. PICK new \in Coroutines \ live :
        /\ live' = live \cup {new}
        /\ status' = [status EXCEPT ![new] = {"NEW"}]
        /\ fd' = [fd EXCEPT ![new] = Null]
        /\ at' = [at EXCEPT ![new] = "own"]
        /\ ready' = Append(ready, new)
        /\ \/ UNCHANGED owner
           \/ \E f \in Fds : MayUse(co, f) /\ owner' = [owner EXCEPT ![f] = new]
  BY DEF Create
<1>3. UNCHANGED <<loopVars, curr, sleeping, waiting, epoll, fired>>
  BY DEF Create
<1>4. /\ owner' \in [Fds -> Coroutines \cup {Null}]
      /\ \A c \in waiting : owner'[fd[c]] = owner[fd[c]] /\ c \in Coroutines /\ c # new
  BY <1>1, <1>2 DEF SleepersInv, TypeOK, MayUse
<1>5. /\ ready' \in Seq(Coroutines) /\ \A i \in 1..Len(ready') : ready'[i] \in live'
  BY <1>2 DEF SleepersInv, TypeOK
<1>6. TypeOK' /\ AssertsHold'
  BY <1>2, <1>3, <1>4, <1>5 DEF SleepersInv, TypeOK, AssertsHold, Bits, loopVars
<1>7. /\ at'[new] = "own" /\ status'[new] = {"NEW"}
      /\ \A c \in Coroutines \ {new} : at'[c] = at[c] /\ fd'[c] = fd[c] /\ status'[c] = status[c]
  BY <1>2 DEF SleepersInv, TypeOK
<1>8. /\ \A c \in Coroutines : c \in waiting' <=> c \in live' /\ at'[c] = "poll"
      /\ \A c \in waiting' : fd'[c] \in Fds /\ owner'[fd'[c]] = c
  BY <1>2, <1>3, <1>4, <1>7 DEF SleepersInv
<1>9. /\ \A c \in Coroutines : "WAIT_READ" \in status'[c] => c \in waiting'
      /\ \A c \in live' : "FDEOF" \in status'[c] => curr' = c /\ at'[c] = "poll"
  BY <1>2, <1>3, <1>7 DEF SleepersInv, TypeOK
<1> QED
  BY <1>2, <1>3, <1>5, <1>6, <1>8, <1>9 DEF SleepersInv

LEMMA SleepersDescriptor ==
  ASSUME SleepersInv, NEW f \in Fds, NEW co \in Coroutines, Open(co) \/ Close(co, f) \/ Fire(f)
  PROVE  SleepersInv' /\ live' = live
<1>1. /\ UNCHANGED <<loopVars, curr, ready, sleeping, waiting, live, coVars>>
      /\ owner' \in [Fds -> Coroutines \cup {Null}] /\ epoll' \subseteq Fds /\ fired' \subseteq Fds
  BY DEF SleepersInv, TypeOK, Open, Close, Fire
<1>2. \A c \in waiting : owner'[fd[c]] = owner[fd[c]]
  <2>1. CASE Open(co)
    BY <2>1, Kinds DEF SleepersInv, TypeOK, Open
  <2>2. CASE Close(co, f)
    BY <2>2, SleepersOwnCode DEF SleepersInv, TypeOK, Close, MayUse
  <2>3. CASE Fire(f)
    BY <2>3 DEF Fire
  <2> QED
    BY <2>1, <2>2, <2>3
<1>3. TypeOK' /\ AssertsHold'
  BY <1>1 DEF SleepersInv, TypeOK, AssertsHold, loopVars, coVars
<1> QED
  BY <1>1, <1>2, <1>3 DEF SleepersInv, coVars

LEMMA SleepersStep ==
  ASSUME SleepersInv, [TimedNext]_vars
  PROVE  SleepersInv' /\ \A c \in live \ live' : curr = c
<1>1. CASE UNCHANGED vars
  BY <1>1 DEF vars, loopVars, coVars, fdVars, SleepersInv, TypeOK, AssertsHold
<1>2. CASE RunLoop \/ Expire
  BY <1>2, SleepersLoopStep, SleepersExpire, SleepersRunReady, SleepersHandleEvent DEF RunLoop
<1>3. CASE Stop
  BY <1>3, SleepersPoll, SleepersPollReturn, SleepersReturn, SleepersSleep DEF Stop
<1>4. CASE Call \/ \E co \in Coroutines : Sleep(co)
  <2>1. ASSUME NEW co \in Coroutines, Create(co) PROVE SleepersInv' /\ live \subseteq live'
    BY <2>1, SleepersCreate
  <2>2. ASSUME NEW co \in Coroutines, Sleep(co) PROVE SleepersInv' /\ live' = live
    BY <2>2, SleepersSleep
  <2>3. ASSUME NEW co \in Coroutines, NEW f \in Fds, Close(co, f) PROVE SleepersInv' /\ live' = live
    BY <2>3, SleepersDescriptor
  <2>4. ASSUME NEW co \in Coroutines, Open(co) PROVE SleepersInv' /\ live' = live
    <3>1. Fds # {}
      BY <2>4 DEF Open
    <3> QED
      BY <2>4, <3>1, SleepersDescriptor
  <2> QED
    BY <1>4, <2>1, <2>2, <2>3, <2>4 DEF Call
<1>5. CASE \E f \in Fds : Fire(f)
  BY <1>5, SleepersDescriptor, Kinds
<1> QED
  BY <1>1, <1>2, <1>3, <1>4, <1>5 DEF TimedNext, Next

(* The inductive invariant when coroutines sleep, too. *)
THEOREM SleepersInvariant == TimedSpec => []SleepersInv
<1>1. Init => SleepersInv
  BY SchedulerAssumption DEF Init, SleepersInv, TypeOK, AssertsHold, Phases, Bits
<1> QED
  BY <1>1, SleepersStep, PTL DEF TimedSpec

(* The asserts of nty_schedule_sched_wait hold although a sleeper that waits *)
(* for a descriptor is resumed in the middle of its wait.                    *)
THEOREM AssertsHoldWithSleepers == TimedSpec => []AssertsHold
<1>1. SleepersInv => AssertsHold
  BY DEF SleepersInv
<1> QED
  BY <1>1, SleepersInvariant, PTL

(* Nor does a sleep have anybody freed before its function has returned.     *)
THEOREM OnlyReturnedAreFreedWithSleepers == TimedSpec => FreedWhenReturned
<1>1. SleepersInv /\ [TimedNext]_vars => [\A co \in live \ live' : curr = co]_vars
  BY SleepersStep
<1> QED
  BY <1>1, SleepersInvariant, PTL DEF TimedSpec, FreedWhenReturned
=============================================================================
