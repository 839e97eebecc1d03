-------------------------- MODULE ThreadPoolProofs ---------------------------
(* The thread pool's safety, for any number of workers, clients and tasks.  *)
EXTENDS ThreadPool, TLAPS

(* A post holds a task until it is queued, a running worker the one it took. *)
Hands == /\ \A t \in Threads : pc[t] = "post_add" => arg[t] \in Tasks
         /\ \A w \in Workers : Running(w) => popped[w] \in Tasks

(* Appending keeps the elements and adds one at the end. *)
LEMMA AppendFacts ==
  ASSUME NEW S, NEW s \in Seq(S), NEW e \in S
  PROVE  /\ Append(s, e) \in Seq(S)
         /\ Len(s) \in Nat /\ Len(Append(s, e)) = Len(s) + 1
         /\ \A i \in 1..Len(s) : Append(s, e)[i] = s[i]
         /\ Append(s, e)[Len(s) + 1] = e
  OBVIOUS

(* Dropping the first element moves the others down by one. *)
LEMMA TailFacts ==
  ASSUME NEW S, NEW s \in Seq(S), s # <<>>
  PROVE  /\ Tail(s) \in Seq(S) /\ Head(s) \in S /\ Head(s) = s[1]
         /\ Len(s) \in Nat \ {0} /\ Len(Tail(s)) = Len(s) - 1
         /\ \A i \in 1..Len(s) - 1 : Tail(s)[i] = s[i + 1]
  OBVIOUS

(* The pool's threads are of three different kinds. *)
LEMMA Kinds ==
  /\ Workers \subseteq Threads /\ Clients \subseteq Threads /\ Main \in Threads
  /\ Workers \subseteq Poppers /\ Main \in Poppers
  /\ Main \notin Workers /\ Main \notin Clients /\ Workers \cap Clients = {}
  /\ Free \notin Threads /\ NoTask \notin Tasks /\ Nothing \notin Tasks
BY PoolAssumption DEF Threads, Poppers

(* A call returns to the task that made it, to the application, or to the   *)
(* thrdpool_create that failed.                                             *)
LEMMA Returns ==
  ASSUME NEW t \in Threads
  PROVE  /\ t \in Workers => ReturnTo(t) = "func"
         /\ t \in Clients => ReturnTo(t) = "app"
         /\ t = Main => ReturnTo(t) = IF created THEN "app" ELSE "join"
BY Kinds DEF ReturnTo

(* Every action keeps every variable in its type. *)
LEMMA TypeStep ==
  ASSUME TypeOK, Hands, [Next]_vars
  PROVE  TypeOK'
<1> USE Kinds DEF TypeOK, Goto, poolVars, flagVars, taskVars, WorkerPCs, MainPCs, CallPCs,
        Statuses, Lock!MutexTypeOK, Lock!Acquire, Lock!Release
<1>1. CASE UNCHANGED vars
  BY <1>1 DEF vars
<1>2. CASE Create \/ WaitDone
  BY <1>2 DEF Create, CreatePool, Spawn, CreateReturn, SpawnFail, WaitDone
<1>3. CASE Shutdown
  <2>1. CASE Join
    BY <1>3, <2>1 DEF Join
  <2>2. CASE DropTask
    BY <2>2, TailFacts DEF DropTask, Queue!Take
  <2>3. CASE FreePool
    BY <2>3 DEF FreePool, Queue!TakeNothing
  <2> QED
    BY <1>3, <2>1, <2>2, <2>3 DEF Shutdown
<1>4. ASSUME NEW w \in Workers, WorkerStep(w) \/ WorkerAcquire(w) \/ FuncReturn(w)
                                \/ SpuriousWakeup(w)
      PROVE  TypeOK'
  <2>1. CASE WorkerTake(w)
    <3>1. late' \in [Workers -> Nat]
      BY <2>1 DEF WorkerTake
    <3> QED
      BY <2>1, <3>1, TailFacts DEF WorkerTake, Queue!Take
  <2>2. CASE WorkerFindNone(w)
    BY <2>2 DEF WorkerFindNone, Queue!TakeNothing
  <2>3. CASE FuncReturn(w)
    BY <2>3 DEF FuncReturn, Queue!Forget
  <2>4. CASE WorkerTest(w) \/ WorkerBreak(w) \/ WorkerGoOn(w) \/ WorkerSleep(w)
             \/ WorkerUnlock(w) \/ WorkerAcquire(w) \/ SpuriousWakeup(w)
    BY <2>4 DEF WorkerTest, WorkerBreak, WorkerGoOn, WorkerSleep, WorkerUnlock,
                WorkerAcquire, WorkerLock, WorkerRelock, SpuriousWakeup
  <2> QED
    BY <1>4, <2>1, <2>2, <2>3, <2>4 DEF WorkerStep
<1>5. ASSUME NEW t \in Threads, Call(t) \/ CallStep(t) \/ TermLock(t)
      PROVE  TypeOK'
  <2>1. CASE Call(t)
    BY <2>1 DEF Call, Terminate, PostRefused, PostStart
  <2>2. CASE PostAdd(t)
    BY <2>2, AppendFacts DEF PostAdd, Queue!Push, Hands
  <2>3. CASE PostSignal(t)
    <3>1. CASE pc' = [pc EXCEPT ![t] = ReturnTo(t)]
      BY <2>3, <3>1, Returns DEF PostSignal, Threads
    <3>2. ASSUME NEW w \in Workers, pc' = [pc EXCEPT ![t] = ReturnTo(t), ![w] = "relock"]
          PROVE  TypeOK'
      BY <2>3, <3>2, Returns DEF PostSignal, Threads
    <3> QED
      BY <2>3, <3>1, <3>2 DEF PostSignal, Waiting
  <2>4. CASE TermLock(t) \/ TermBlock(t)
    BY <2>4 DEF TermLock, TermBlock
  <2>5. CASE TermBroadcast(t)
    BY <2>5 DEF TermBroadcast, ReturnTo, Waiting
  <2> QED
    BY <1>5, <2>1, <2>2, <2>3, <2>4, <2>5 DEF CallStep
<1> QED
  BY <1>1, <1>2, <1>3, <1>4, <1>5 DEF Next
-----------------------------------------------------------------------------
TermPCs == {"term_lock", "term_block", "term_bcast"}

(* What is so in each phase of the pool's life. *)
Phases ==
    /\ created => pc[Main] \notin {"create", "spawn"} /\ \A w \in Workers : pc[w] # "unborn"
    /\ ~created \/ pc[Main] \in {"join", "destroy", "done"} => \A c \in Clients : pc[c] = "app"
    /\ pc[Main] \in {"destroy", "done"} => \A w \in Workers : pc[w] \in {"unborn", "exited"}
    /\ pool = "freed" <=> pc[Main] = "done"
    /\ pc[Main] = "done" => queue = <<>>

(* Who is in terminate has set quit, and who has left the loop has seen it. *)
QuitSeen ==
    /\ \A t \in Threads : pc[t] \in TermPCs => quit = 1
    /\ \A w \in Workers : pc[w] = "exited" => quit = 1
    /\ block = 0 => quit = 1

(* Whoever takes the mutex takes it free, and whoever gives it back has it. *)
LEMMA MutexHeldStep ==
  ASSUME TypeOK, MutexHeld, [Next]_vars
  PROVE  MutexHeld'
<1> USE Kinds DEF TypeOK, MutexHeld, Goto, Lock!MutexTypeOK, Lock!Acquire, Lock!Release
<1>1. CASE UNCHANGED vars
  BY <1>1 DEF vars
<1>2. CASE Create \/ WaitDone \/ Shutdown
  BY <1>2 DEF Create, CreatePool, Spawn, CreateReturn, SpawnFail, WaitDone,
              Shutdown, Join, DropTask, FreePool
<1>3. ASSUME NEW w \in Workers, WorkerStep(w) \/ WorkerAcquire(w) \/ FuncReturn(w)
                                \/ SpuriousWakeup(w)
      PROVE  MutexHeld'
  BY <1>3 DEF WorkerStep, WorkerTest, WorkerTake, WorkerFindNone, WorkerBreak, WorkerGoOn,
              WorkerSleep, WorkerUnlock, WorkerAcquire, WorkerLock, WorkerRelock,
              FuncReturn, SpuriousWakeup
<1>4. ASSUME NEW t \in Threads, Call(t) \/ CallStep(t) \/ TermLock(t)
      PROVE  MutexHeld'
  <2>1. CASE Call(t) \/ PostAdd(t) \/ TermLock(t) \/ TermBlock(t)
    BY <2>1 DEF Call, Terminate, PostRefused, PostStart, Caller, PostAdd, TermLock, TermBlock
  <2>2. CASE PostSignal(t) \/ TermBroadcast(t)
    <3>1. mutex' = mutex
      BY <2>2 DEF PostSignal, TermBroadcast
    <3>2. \A u \in Threads : pc'[u] \in {"check", "sleep", "unlock", "term_block"}
                             <=> pc[u] \in {"check", "sleep", "unlock", "term_block"}
      <4>1. ReturnTo(t) \notin {"check", "sleep", "unlock", "term_block"}
        BY Returns DEF Threads
      <4>2. CASE PostSignal(t)
        BY <4>1, <4>2 DEF PostSignal, Waiting
      <4>3. CASE TermBroadcast(t)
        BY <4>1, <4>3 DEF TermBroadcast, Waiting
      <4> QED
        BY <2>2, <4>2, <4>3
    <3> QED
      BY <3>1, <3>2
  <2> QED
    BY <1>4, <2>1, <2>2 DEF CallStep
<1> QED
  BY <1>1, <1>2, <1>3, <1>4 DEF Next

(* quit is set before block is cleared, and never reset. *)
LEMMA QuitSeenStep ==
  ASSUME TypeOK, QuitSeen, [Next]_vars
  PROVE  QuitSeen'
<1> USE Kinds DEF TypeOK, QuitSeen, TermPCs, Goto, flagVars
<1>1. CASE UNCHANGED vars
  BY <1>1 DEF vars
<1>2. CASE Create \/ WaitDone \/ Shutdown
  BY <1>2 DEF Create, CreatePool, Spawn, CreateReturn, SpawnFail, WaitDone,
              Shutdown, Join, DropTask, FreePool
<1>3. ASSUME NEW w \in Workers, WorkerStep(w) \/ WorkerAcquire(w) \/ FuncReturn(w)
                                \/ SpuriousWakeup(w)
      PROVE  QuitSeen'
  BY <1>3 DEF WorkerStep, WorkerTest, WorkerTake, WorkerFindNone, WorkerBreak, WorkerGoOn,
              WorkerSleep, WorkerUnlock, WorkerAcquire, WorkerLock, WorkerRelock,
              FuncReturn, SpuriousWakeup
<1>4. ASSUME NEW t \in Threads, Call(t) \/ CallStep(t) \/ TermLock(t)
      PROVE  QuitSeen'
  <2>1. CASE Call(t) \/ PostAdd(t) \/ TermLock(t) \/ TermBlock(t)
    BY <2>1 DEF Call, Terminate, PostRefused, PostStart, Caller, PostAdd, TermLock, TermBlock
  <2>2. CASE PostSignal(t) \/ TermBroadcast(t)
    <3>1. quit' = quit /\ block' = block
      BY <2>2 DEF PostSignal, TermBroadcast
    <3>2. \A u \in Threads : pc'[u] \in TermPCs \cup {"exited"} => pc'[u] = pc[u]
      <4>1. ReturnTo(t) \notin TermPCs \cup {"exited"}
        BY Returns DEF Threads
      <4>2. CASE PostSignal(t)
        BY <4>1, <4>2 DEF PostSignal, Waiting
      <4>3. CASE TermBroadcast(t)
        BY <4>1, <4>3 DEF TermBroadcast, Waiting
      <4> QED
        BY <2>2, <4>2, <4>3
    <3> QED
      BY <3>1, <3>2
  <2> QED
    BY <1>4, <2>1, <2>2 DEF CallStep
<1> QED
  BY <1>1, <1>2, <1>3, <1>4 DEF Next

(* A thread that clears block holds the mutex, so nobody is about to wait;  *)
(* and from then on it is the one that will broadcast.                      *)
LEMMA WakeStep ==
  ASSUME TypeOK, MutexHeld, SleepsWhileBlocking, ShutdownWakesAll, [Next]_vars
  PROVE  SleepsWhileBlocking' /\ ShutdownWakesAll'
<1> USE Kinds DEF TypeOK, SleepsWhileBlocking, ShutdownWakesAll, Waiting, Goto, flagVars
<1>1. CASE UNCHANGED vars
  BY <1>1 DEF vars
<1>2. CASE Create \/ WaitDone \/ Shutdown
  BY <1>2 DEF Create, CreatePool, Spawn, CreateReturn, SpawnFail, WaitDone,
              Shutdown, Join, DropTask, FreePool
<1>3. ASSUME NEW w \in Workers, WorkerStep(w) \/ WorkerAcquire(w) \/ FuncReturn(w)
                                \/ SpuriousWakeup(w)
      PROVE  SleepsWhileBlocking' /\ ShutdownWakesAll'
  <2>1. block' = block /\ \A t \in Threads : pc[t] = "term_bcast" => pc'[t] = "term_bcast"
    BY <1>3 DEF WorkerStep, WorkerTest, WorkerTake, WorkerFindNone, WorkerBreak, WorkerGoOn,
                WorkerSleep, WorkerUnlock, WorkerAcquire, WorkerLock, WorkerRelock,
                FuncReturn, SpuriousWakeup
  <2>2. CASE WorkerSleep(w)
    BY <2>1, <2>2 DEF WorkerSleep
  <2>3. CASE ~WorkerSleep(w)
    <3>1. \A v \in Workers : pc'[v] = "wait" => pc[v] = "wait"
      BY <1>3, <2>3
      DEF WorkerStep, WorkerTest, WorkerTake, WorkerFindNone, WorkerBreak, WorkerGoOn,
          WorkerUnlock, WorkerAcquire, WorkerLock, WorkerRelock, FuncReturn, SpuriousWakeup
    <3>2. \A v \in Workers : pc'[v] = "sleep" => pc[v] = "sleep" \/ block = 1
      BY <1>3, <2>3
      DEF WorkerStep, WorkerTest, WorkerTake, WorkerFindNone, WorkerBreak, WorkerGoOn,
          WorkerUnlock, WorkerAcquire, WorkerLock, WorkerRelock, FuncReturn, SpuriousWakeup
    <3> QED
      BY <2>1, <3>1, <3>2
  <2> QED
    BY <2>2, <2>3
<1>4. ASSUME NEW t \in Threads, Call(t) \/ CallStep(t) \/ TermLock(t)
      PROVE  SleepsWhileBlocking' /\ ShutdownWakesAll'
  <2>1. CASE Call(t) \/ PostAdd(t) \/ TermLock(t)
    BY <2>1 DEF Call, Terminate, PostRefused, PostStart, Caller, PostAdd, TermLock
  <2>2. CASE PostSignal(t)
    <3>1. /\ ReturnTo(t) \notin {"sleep", "wait"} /\ pc[t] = "post_signal" /\ block' = block
          /\ \A u \in Threads : \/ pc'[u] = pc[u]
                                \/ u = t /\ pc'[u] = ReturnTo(t)
                                \/ pc[u] = "wait" /\ pc'[u] = "relock"
      <4>1. /\ ReturnTo(t) \notin {"sleep", "wait"} /\ pc[t] = "post_signal" /\ block' = block
            /\ \/ pc' = [pc EXCEPT ![t] = ReturnTo(t)]
               \/ \E w \in Waiting : pc' = [pc EXCEPT ![t] = ReturnTo(t), ![w] = "relock"]
        BY <2>2, Returns DEF PostSignal, Threads
      <4>2. CASE pc' = [pc EXCEPT ![t] = ReturnTo(t)]
        BY <4>1, <4>2
      <4>3. ASSUME NEW w \in Workers, pc[w] = "wait",
                   pc' = [pc EXCEPT ![t] = ReturnTo(t), ![w] = "relock"]
            PROVE  \A u \in Threads : \/ pc'[u] = pc[u]
                                      \/ u = t /\ pc'[u] = ReturnTo(t)
                                      \/ pc[u] = "wait" /\ pc'[u] = "relock"
        BY <4>1, <4>3
      <4> QED
        BY <4>1, <4>2, <4>3
    <3> QED
      BY <3>1
  <2>3. CASE TermBlock(t)
    <3>1. /\ pc'[t] = "term_bcast" /\ mutex = t
          /\ \A u \in Threads : u # t => pc'[u] = pc[u]
      BY <2>3 DEF TermBlock, Lock!Release
    <3>2. \A w \in Workers : pc[w] # "sleep"
      BY <2>3, <3>1 DEF MutexHeld, TermBlock
    <3>3. \A w \in Workers : pc'[w] # "sleep"
      BY <3>1, <3>2
    <3> QED
      BY <3>1, <3>3
  <2>4. CASE TermBroadcast(t)
    <3>1. /\ ReturnTo(t) \notin {"sleep", "wait"} /\ block' = block
          /\ \A u \in Workers : pc'[u] # "wait" /\ (pc'[u] = "sleep" => pc[u] = "sleep")
      BY <2>4, Returns DEF TermBroadcast, Threads
    <3> QED
      BY <3>1
  <2> QED
    BY <1>4, <2>1, <2>2, <2>3, <2>4 DEF CallStep
<1> QED
  BY <1>1, <1>2, <1>3, <1>4 DEF Next

(* Nobody enters the pool's code once main waits for its workers, but the   *)
(* workers, and they leave it before main is done.                          *)
LEMMA PhasesStep ==
  ASSUME TypeOK, Phases, [Next]_vars
  PROVE  Phases'
<1> USE Kinds DEF TypeOK, Phases, WorkerPCs, MainPCs, CallPCs, Goto, poolVars, flagVars, taskVars
<1>1. CASE UNCHANGED vars
  BY <1>1 DEF vars
<1>2. CASE Create \/ WaitDone
  BY <1>2 DEF Create, CreatePool, Spawn, CreateReturn, SpawnFail, WaitDone
<1>3. CASE Shutdown
  BY <1>3 DEF Shutdown, Join, DropTask, FreePool, Queue!TakeNothing, Queue!Take
<1>4. ASSUME NEW w \in Workers, WorkerStep(w) \/ WorkerAcquire(w) \/ FuncReturn(w)
                                \/ SpuriousWakeup(w)
      PROVE  Phases'
  <2>1. /\ pool' = pool /\ created' = created /\ pc[w] \notin {"unborn", "exited"}
        /\ pc' = [pc EXCEPT ![w] = pc'[w]] /\ pc'[w] # "unborn"
    BY <1>4 DEF WorkerStep, WorkerTest, WorkerTake, WorkerFindNone, WorkerBreak, WorkerGoOn,
                WorkerSleep, WorkerUnlock, WorkerAcquire, WorkerLock, WorkerRelock,
                FuncReturn, SpuriousWakeup
  <2>2. pc[Main] \notin {"destroy", "done"}
    BY <2>1
  <2> QED
    BY <2>1, <2>2
<1>5. ASSUME NEW t \in Threads, Call(t) \/ CallStep(t) \/ TermLock(t)
      PROVE  Phases'
  <2>1. pool' = pool /\ created' = created
    BY <1>5 DEF Call, CallStep, Terminate, PostRefused, PostStart, PostAdd, PostSignal,
                TermLock, TermBlock, TermBroadcast
  <2>2. /\ pc[t] \in {"func", "app"} \cup CallPCs
        /\ t \in Clients => created /\ pc[Main] \notin {"join", "destroy", "done"}
    BY <1>5 DEF Call, CallStep, Terminate, PostRefused, PostStart, PostAdd, PostSignal,
                TermLock, TermBlock, TermBroadcast, Caller, Shared
  <2>3. pc[Main] \notin {"destroy", "done"}
    BY <2>2 DEF Threads
  <2>4. \A u \in Threads : u # t => \/ pc'[u] = pc[u]
                                    \/ u \in Workers /\ pc[u] = "wait" /\ pc'[u] = "relock"
    BY <1>5 DEF Call, CallStep, Terminate, PostRefused, PostStart, PostAdd, PostSignal,
                TermLock, TermBlock, TermBroadcast, Waiting
  <2>5. pc'[t] \in {"func"} \cup CallPCs \cup {"app", "join"}
    BY <1>5, Returns DEF Threads, Call, CallStep, Terminate, PostRefused, PostStart, PostAdd,
             PostSignal, TermLock, TermBlock, TermBroadcast, Caller, Shared, Waiting
  <2>6. pc'[t] = "join" => t = Main /\ ~created
    BY <1>5, Returns DEF Threads, Call, CallStep, Terminate, PostRefused, PostStart, PostAdd,
             PostSignal, TermLock, TermBlock, TermBroadcast, Caller, Shared, Waiting
  <2> QED
    BY <2>1, <2>2, <2>3, <2>4, <2>5, <2>6 DEF Threads
<1> QED
  BY <1>1, <1>2, <1>3, <1>4, <1>5 DEF Next
-----------------------------------------------------------------------------
(* A step that moves no task leaves every task with who has it. *)
LEMMA CustodyFrame ==
  ASSUME Custody, Hands, queue' = queue, status' = status, arg' = arg,
         \A t \in Threads : pc'[t] = "post_add" <=> pc[t] = "post_add",
         \A w \in Workers : Running(w)' <=> Running(w),
         \A w \in Workers : Running(w) => popped'[w] = popped[w]
  PROVE  Custody' /\ Hands'
<1>1. Hands'
  BY DEF Hands
<1>2. \A k \in Tasks : InQueue(k)' <=> InQueue(k)
  BY DEF InQueue
<1>3. \A k \in Tasks : (\E t \in Threads : pc'[t] = "post_add" /\ arg'[t] = k)
                       <=> (\E t \in Threads : pc[t] = "post_add" /\ arg[t] = k)
  OBVIOUS
<1>4. \A k \in Tasks : (\E w \in Workers : Running(w)' /\ popped'[w] = k)
                       <=> (\E w \in Workers : Running(w) /\ popped[w] = k)
  OBVIOUS
<1>5. \A t, u \in Threads : t # u /\ pc'[t] = "post_add" /\ pc'[u] = "post_add"
                            => arg'[t] # arg'[u]
  BY DEF Custody
<1>6. \A v, w \in Workers : v # w /\ Running(v)' /\ Running(w)' => popped'[v] # popped'[w]
  BY DEF Custody
<1>7. \A i, j \in 1..Len(queue') : queue'[i] = queue'[j] => i = j
  BY DEF Custody
<1> QED
  BY <1>1, <1>2, <1>3, <1>4, <1>5, <1>6, <1>7 DEF Custody

(* A task goes from new to the thread that posts it. *)
LEMMA CustodyPostStart ==
  ASSUME TypeOK, Custody, Hands, NEW t \in Threads, NEW k \in Tasks, PostStart(t, k)
  PROVE  Custody' /\ Hands'
<1> USE Kinds DEF TypeOK
<1>1. /\ status[k] = "new" /\ status' = [status EXCEPT ![k] = "posting"]
      /\ queue' = queue /\ popped' = popped
      /\ pc' = [pc EXCEPT ![t] = "post_add"] /\ arg' = [arg EXCEPT ![t] = k]
      /\ pc[t] \in {"func", "app"} /\ (t \in Workers => pc[t] = "func")
  BY DEF PostStart, Caller
<1>2. \A w \in Workers : Running(w)' <=> Running(w)
  BY <1>1 DEF Running, CallPCs
<1>3. \A u \in Threads : pc[u] = "post_add" => u # t /\ arg[u] # k
  BY <1>1 DEF Custody
<1>4. \A w \in Workers : Running(w) => popped[w] # k
  BY <1>1 DEF Custody
<1>5. Hands'
  BY <1>1, <1>2 DEF Hands
<1>6. \A j \in Tasks : InQueue(j)' <=> InQueue(j)
  BY <1>1 DEF InQueue
<1>7. \A j \in Tasks : status'[j] = "queued" <=> InQueue(j)'
  BY <1>1, <1>6 DEF Custody
<1>8. \A j \in Tasks : status'[j] = "posting" <=>
                       \E u \in Threads : pc'[u] = "post_add" /\ arg'[u] = j
  <2> SUFFICES ASSUME NEW j \in Tasks
               PROVE  status'[j] = "posting" <=>
                      \E u \in Threads : pc'[u] = "post_add" /\ arg'[u] = j
    OBVIOUS
  <2>1. CASE j = k
    BY <1>1, <2>1
  <2>2. CASE j # k
    <3>1. status'[j] = status[j]
      BY <1>1, <2>2
    <3>2. \A u \in Threads : pc'[u] = "post_add" /\ arg'[u] = j
                             <=> pc[u] = "post_add" /\ arg[u] = j
      BY <1>1, <2>2
    <3> QED
      BY <3>1, <3>2 DEF Custody
  <2> QED
    BY <2>1, <2>2
<1>9. \A j \in Tasks : status'[j] = "running" <=>
                       \E w \in Workers : Running(w)' /\ popped'[w] = j
  <2> SUFFICES ASSUME NEW j \in Tasks
               PROVE  status'[j] = "running" <=>
                      \E w \in Workers : Running(w) /\ popped[w] = j
    BY <1>1, <1>2
  <2> QED
    BY <1>1, <1>4 DEF Custody
<1>10. \A u, v \in Threads : u # v /\ pc'[u] = "post_add" /\ pc'[v] = "post_add"
                             => arg'[u] # arg'[v]
  BY <1>1, <1>3 DEF Custody
<1>11. \A v, w \in Workers : v # w /\ Running(v)' /\ Running(w)' => popped'[v] # popped'[w]
  BY <1>1, <1>2 DEF Custody
<1>12. \A i, j \in 1..Len(queue') : queue'[i] = queue'[j] => i = j
  BY <1>1 DEF Custody
<1> QED
  BY <1>5, <1>7, <1>8, <1>9, <1>10, <1>11, <1>12 DEF Custody

(* The posting thread hands its task to the queue. *)
LEMMA CustodyPostAdd ==
  ASSUME TypeOK, Custody, Hands, NEW t \in Threads, PostAdd(t)
  PROVE  Custody' /\ Hands'
<1> USE Kinds DEF TypeOK
<1> DEFINE k == arg[t]
           n == Len(queue)
<1>1. /\ pc[t] = "post_add" /\ k \in Tasks /\ status[k] = "posting"
      /\ status' = [status EXCEPT ![k] = "queued"]
      /\ queue' = Append(queue, k) /\ popped' = popped
      /\ pc' = [pc EXCEPT ![t] = "post_signal"] /\ arg' = [arg EXCEPT ![t] = NoTask]
  BY DEF PostAdd, Goto, Queue!Push, Hands, Custody
<1>2. /\ n \in Nat /\ Len(queue') = n + 1 /\ queue'[n + 1] = k
      /\ \A i \in 1..n : queue'[i] = queue[i] /\ queue[i] # k
  BY <1>1, AppendFacts DEF Custody, InQueue
<1>3. \A w \in Workers : Running(w)' <=> Running(w)
  BY <1>1 DEF Running, CallPCs
<1>4. \A u \in Threads : u # t /\ pc[u] = "post_add" => arg[u] # k
  BY <1>1 DEF Custody
<1>5. Hands'
  BY <1>1, <1>3 DEF Hands
<1>6. \A j \in Tasks : InQueue(j)' <=> InQueue(j) \/ j = k
  <2> SUFFICES ASSUME NEW j \in Tasks
               PROVE  (\E i \in 1..n + 1 : queue'[i] = j) <=> InQueue(j) \/ j = k
    BY <1>2 DEF InQueue
  <2>1. ASSUME InQueue(j) PROVE \E i \in 1..n + 1 : queue'[i] = j
    BY <1>2, <2>1 DEF InQueue
  <2>2. ASSUME j = k PROVE \E i \in 1..n + 1 : queue'[i] = j
    BY <1>2, <2>2
  <2>3. ASSUME NEW i \in 1..n + 1, queue'[i] = j PROVE InQueue(j) \/ j = k
    BY <1>2, <2>3 DEF InQueue
  <2> QED
    BY <2>1, <2>2, <2>3
<1>7. \A j \in Tasks : status'[j] = "queued" <=> InQueue(j)'
  BY <1>1, <1>6 DEF Custody
<1>8. \A j \in Tasks : status'[j] = "posting" <=>
                       \E u \in Threads : pc'[u] = "post_add" /\ arg'[u] = j
  <2>1. \A u \in Threads : pc'[u] = "post_add" <=> u # t /\ pc[u] = "post_add"
    BY <1>1
  <2>2. \A u \in Threads : u # t => arg'[u] = arg[u]
    BY <1>1
  <2> QED
    BY <1>1, <1>4, <2>1, <2>2 DEF Custody
<1>9. \A j \in Tasks : status'[j] = "running" <=>
                       \E w \in Workers : Running(w)' /\ popped'[w] = j
  <2>1. \A j \in Tasks : status'[j] = "running" <=> status[j] = "running"
    BY <1>1
  <2> QED
    BY <1>1, <1>3, <2>1 DEF Custody
<1>10. \A u, v \in Threads : u # v /\ pc'[u] = "post_add" /\ pc'[v] = "post_add"
                             => arg'[u] # arg'[v]
  BY <1>1 DEF Custody
<1>11. \A v, w \in Workers : v # w /\ Running(v)' /\ Running(w)' => popped'[v] # popped'[w]
  BY <1>1, <1>3 DEF Custody
<1>12. \A i, j \in 1..Len(queue') : queue'[i] = queue'[j] => i = j
  <2> SUFFICES ASSUME NEW i \in 1..n + 1, NEW j \in 1..n + 1, i < j
               PROVE  queue'[i] # queue'[j]
    BY <1>2
  <2>1. i \in 1..n
    BY <1>2
  <2>2. CASE j = n + 1
    BY <1>2, <2>1, <2>2
  <2>3. CASE j # n + 1
    BY <1>2, <2>1, <2>3 DEF Custody
  <2> QED
    BY <2>2, <2>3
<1> QED
  BY <1>5, <1>7, <1>8, <1>9, <1>10, <1>11, <1>12 DEF Custody

(* Taking the first task leaves the others in the queue, and that one not:  *)
(* it was there once.                                                       *)
LEMMA TakeFirst ==
  ASSUME TypeOK, Custody, queue # <<>>, queue' = Tail(queue)
  PROVE  /\ Head(queue) \in Tasks /\ status[Head(queue)] = "queued"
         /\ \A j \in Tasks : InQueue(j)' <=> InQueue(j) /\ j # Head(queue)
         /\ \A i, j \in 1..Len(queue') : queue'[i] = queue'[j] => i = j
<1> USE DEF TypeOK
<1> DEFINE k == Head(queue)
           n == Len(queue)
<1>1. /\ k \in Tasks /\ k = queue[1] /\ n \in Nat \ {0} /\ Len(queue') = n - 1
      /\ \A i \in 1..n - 1 : queue'[i] = queue[i + 1]
  BY TailFacts
<1>2. status[k] = "queued"
  BY <1>1 DEF Custody, InQueue
<1>3. \A i \in 1..n : i # 1 => queue[i] # k
  BY <1>1 DEF Custody
<1>4. \A j \in Tasks : InQueue(j)' <=> InQueue(j) /\ j # k
  <2> SUFFICES ASSUME NEW j \in Tasks
               PROVE  (\E i \in 1..n - 1 : queue'[i] = j) <=> InQueue(j) /\ j # k
    BY <1>1 DEF InQueue
  <2>1. ASSUME NEW i \in 1..n - 1, queue'[i] = j PROVE InQueue(j) /\ j # k
    <3>1. queue[i + 1] = j /\ i + 1 \in 1..n /\ i + 1 # 1
      BY <1>1, <2>1
    <3> QED
      BY <1>3, <3>1 DEF InQueue
  <2>2. ASSUME NEW i \in 1..n, queue[i] = j, j # k PROVE \E h \in 1..n - 1 : queue'[h] = j
    <3>1. i - 1 \in 1..n - 1 /\ queue'[i - 1] = queue[i]
      BY <1>1, <2>2
    <3> QED
      BY <2>2, <3>1
  <2> QED
    BY <2>1, <2>2 DEF InQueue
<1>5. \A i, j \in 1..n - 1 : queue'[i] = queue'[j] => i = j
  <2> SUFFICES ASSUME NEW i \in 1..n - 1, NEW j \in 1..n - 1, queue'[i] = queue'[j]
               PROVE  i = j
    OBVIOUS
  <2>1. queue[i + 1] = queue[j + 1] /\ i + 1 \in 1..n /\ j + 1 \in 1..n
    BY <1>1
  <2> QED
    BY <2>1 DEF Custody
<1> QED
  BY <1>1, <1>2, <1>4, <1>5

(* A worker takes the first task of the queue. *)
LEMMA CustodyTake ==
  ASSUME TypeOK, Custody, Hands, NEW w \in Workers, WorkerTake(w)
  PROVE  Custody' /\ Hands'
<1> USE Kinds DEF TypeOK
<1> DEFINE k == Head(queue)
<1>1. /\ pc[w] = "pop" /\ queue # <<>> /\ queue' = Tail(queue) /\ arg' = arg
      /\ status' = [status EXCEPT ![k] = "running"]
      /\ popped' = [popped EXCEPT ![w] = k] /\ pc' = [pc EXCEPT ![w] = "func"]
  BY DEF WorkerTake, Goto, Queue!Take
<1>2. /\ k \in Tasks /\ status[k] = "queued"
      /\ \A j \in Tasks : InQueue(j)' <=> InQueue(j) /\ j # k
      /\ \A i, j \in 1..Len(queue') : queue'[i] = queue'[j] => i = j
  BY <1>1, TakeFirst
<1>3. \A v \in Workers : Running(v)' <=> Running(v) \/ v = w
  BY <1>1 DEF Running, CallPCs
<1>4. ~Running(w)
  BY <1>1 DEF Running, CallPCs
<1>5. \A t \in Threads : pc'[t] = "post_add" <=> pc[t] = "post_add"
  BY <1>1
<1>6. \A v \in Workers : Running(v) => v # w /\ popped'[v] = popped[v] /\ popped[v] # k
  BY <1>1, <1>2, <1>4 DEF Custody
<1>7. popped'[w] = k
  BY <1>1
<1>8. Hands'
  BY <1>1, <1>2, <1>3, <1>5, <1>6, <1>7 DEF Hands
<1>9. \A j \in Tasks : status'[j] = "queued" <=> InQueue(j)'
  BY <1>1, <1>2 DEF Custody
<1>10. \A j \in Tasks : status'[j] = "posting" <=>
                        \E t \in Threads : pc'[t] = "post_add" /\ arg'[t] = j
  <2>1. \A j \in Tasks : status'[j] = "posting" <=> status[j] = "posting"
    BY <1>1, <1>2
  <2> QED
    BY <1>1, <1>5, <2>1 DEF Custody
<1>11. \A j \in Tasks : status'[j] = "running" <=>
                        \E v \in Workers : Running(v)' /\ popped'[v] = j
  <2> SUFFICES ASSUME NEW j \in Tasks
               PROVE  status'[j] = "running" <=>
                      \E v \in Workers : Running(v)' /\ popped'[v] = j
    OBVIOUS
  <2>1. CASE j = k
    BY <1>1, <1>2, <1>3, <1>7, <2>1
  <2>2. CASE j # k
    <3>1. status'[j] = status[j]
      BY <1>1, <2>2
    <3>2. \A v \in Workers : Running(v)' /\ popped'[v] = j <=> Running(v) /\ popped[v] = j
      BY <1>3, <1>6, <1>7, <2>2
    <3> QED
      BY <3>1, <3>2 DEF Custody
  <2> QED
    BY <2>1, <2>2
<1>12. \A t, u \in Threads : t # u /\ pc'[t] = "post_add" /\ pc'[u] = "post_add"
                             => arg'[t] # arg'[u]
  BY <1>1, <1>5 DEF Custody
<1>13. \A u, v \in Workers : u # v /\ Running(u)' /\ Running(v)' => popped'[u] # popped'[v]
  <2> SUFFICES ASSUME NEW u \in Workers, NEW v \in Workers, u # v, Running(u)', Running(v)'
               PROVE  popped'[u] # popped'[v]
    OBVIOUS
  <2>1. CASE u = w
    BY <1>3, <1>6, <1>7, <2>1
  <2>2. CASE v = w
    BY <1>3, <1>6, <1>7, <2>2
  <2>3. CASE u # w /\ v # w
    BY <1>3, <1>6, <2>3 DEF Custody
  <2> QED
    BY <2>1, <2>2, <2>3
<1> QED
  BY <1>2, <1>8, <1>9, <1>10, <1>11, <1>12, <1>13 DEF Custody

(* Main drops the first task of the queue, when no worker is left. *)
LEMMA CustodyDrop ==
  ASSUME TypeOK, Custody, Hands, Phases, DropTask
  PROVE  Custody' /\ Hands'
<1> USE Kinds DEF TypeOK
<1> DEFINE k == Head(queue)
<1>1. /\ pc[Main] = "destroy" /\ queue # <<>> /\ queue' = Tail(queue) /\ arg' = arg
      /\ status' = [status EXCEPT ![k] = "dropped"]
      /\ popped' = [popped EXCEPT ![Main] = k] /\ pc' = pc
  BY DEF DropTask, Queue!Take
<1>2. /\ k \in Tasks /\ status[k] = "queued"
      /\ \A j \in Tasks : InQueue(j)' <=> InQueue(j) /\ j # k
      /\ \A i, j \in 1..Len(queue') : queue'[i] = queue'[j] => i = j
  BY <1>1, TakeFirst
<1>3. \A w \in Workers : ~Running(w) /\ ~Running(w)'
  BY <1>1 DEF Phases, Running, CallPCs
<1>4. Hands'
  BY <1>1, <1>3 DEF Hands
<1>5. \A j \in Tasks : status'[j] = "queued" <=> InQueue(j)'
  BY <1>1, <1>2 DEF Custody
<1>6. \A j \in Tasks : /\ status'[j] = "posting" <=> status[j] = "posting"
                       /\ status'[j] = "running" <=> status[j] = "running"
  BY <1>1, <1>2
<1>7. \A j \in Tasks : status'[j] = "posting" <=>
                       \E t \in Threads : pc'[t] = "post_add" /\ arg'[t] = j
  BY <1>1, <1>6 DEF Custody
<1>8. \A j \in Tasks : status'[j] = "running" <=>
                       \E w \in Workers : Running(w)' /\ popped'[w] = j
  BY <1>3, <1>6 DEF Custody
<1>9. \A t, u \in Threads : t # u /\ pc'[t] = "post_add" /\ pc'[u] = "post_add"
                            => arg'[t] # arg'[u]
  BY <1>1 DEF Custody
<1> QED
  BY <1>2, <1>3, <1>4, <1>5, <1>7, <1>8, <1>9 DEF Custody

(* The worker whose task returns lets go of it. *)
LEMMA CustodyReturn ==
  ASSUME TypeOK, Custody, Hands, NEW w \in Workers, FuncReturn(w)
  PROVE  Custody' /\ Hands'
<1> USE Kinds DEF TypeOK
<1> DEFINE k == popped[w]
<1>1. /\ pc[w] = "func" /\ Running(w) /\ k \in Tasks /\ queue' = queue /\ arg' = arg
      /\ status' = [status EXCEPT ![k] = "done"]
      /\ popped' = [popped EXCEPT ![w] = Nothing] /\ pc' = [pc EXCEPT ![w] = "test"]
  BY DEF FuncReturn, Goto, Queue!Forget, Running, Hands
<1>2. status[k] = "running"
  BY <1>1 DEF Custody
<1>3. \A v \in Workers : Running(v)' <=> Running(v) /\ v # w
  BY <1>1 DEF Running, CallPCs
<1>4. \A v \in Workers : v # w => popped'[v] = popped[v]
  BY <1>1
<1>5. \A v \in Workers : Running(v) /\ v # w => popped[v] # k
  BY <1>1 DEF Custody
<1>6. \A t \in Threads : pc'[t] = "post_add" <=> pc[t] = "post_add"
  BY <1>1
<1>7. Hands'
  BY <1>1, <1>3, <1>4, <1>6 DEF Hands
<1>8. \A j \in Tasks : InQueue(j)' <=> InQueue(j)
  BY <1>1 DEF InQueue
<1>9. \A j \in Tasks : /\ status'[j] = "posting" <=> status[j] = "posting"
                       /\ status'[j] = "queued" <=> status[j] = "queued"
                       /\ status'[j] = "running" <=> status[j] = "running" /\ j # k
  BY <1>1, <1>2
<1>10. \A j \in Tasks : status'[j] = "running" <=>
                        \E v \in Workers : Running(v)' /\ popped'[v] = j
  BY <1>3, <1>4, <1>5, <1>9 DEF Custody
<1>11. \A j \in Tasks : status'[j] = "posting" <=>
                        \E t \in Threads : pc'[t] = "post_add" /\ arg'[t] = j
  BY <1>1, <1>6, <1>9 DEF Custody
<1>12. \A t, u \in Threads : t # u /\ pc'[t] = "post_add" /\ pc'[u] = "post_add"
                             => arg'[t] # arg'[u]
  BY <1>1, <1>6 DEF Custody
<1>13. \A u, v \in Workers : u # v /\ Running(u)' /\ Running(v)' => popped'[u] # popped'[v]
  BY <1>3, <1>4 DEF Custody
<1>14. \A i, j \in 1..Len(queue') : queue'[i] = queue'[j] => i = j
  BY <1>1 DEF Custody
<1> QED
  BY <1>7, <1>8, <1>9, <1>10, <1>11, <1>12, <1>13, <1>14 DEF Custody

(* A refused task was nowhere, and stays there. *)
LEMMA CustodyRefused ==
  ASSUME TypeOK, Custody, Hands, NEW t \in Threads, NEW k \in Tasks, PostRefused(t, k)
  PROVE  Custody' /\ Hands'
<1> USE Kinds DEF TypeOK
<1>1. /\ status[k] = "new" /\ status' = [status EXCEPT ![k] = "refused"]
      /\ queue' = queue /\ popped' = popped /\ pc' = pc /\ arg' = arg
  BY DEF PostRefused
<1>2. Hands' /\ \A w \in Workers : Running(w)' <=> Running(w)
  BY <1>1 DEF Hands, Running
<1>3. \A j \in Tasks : /\ status'[j] = "posting" <=> status[j] = "posting"
                       /\ status'[j] = "queued" <=> status[j] = "queued"
                       /\ status'[j] = "running" <=> status[j] = "running"
  BY <1>1
<1>4. \A j \in Tasks : InQueue(j)' <=> InQueue(j)
  BY <1>1 DEF InQueue
<1> QED
  BY <1>1, <1>2, <1>3, <1>4 DEF Custody

(* Whatever step is taken, every task stays in one place. *)
LEMMA CustodyStep ==
  ASSUME TypeOK, Custody, Hands, Phases, [Next]_vars
  PROVE  Custody' /\ Hands'
<1> USE Kinds DEF TypeOK, Goto, poolVars, flagVars, taskVars
<1> DEFINE Frame == /\ queue' = queue /\ status' = status /\ arg' = arg
                    /\ \A t \in Threads : pc'[t] = "post_add" <=> pc[t] = "post_add"
                    /\ \A w \in Workers : Running(w)' <=> Running(w)
                    /\ \A w \in Workers : Running(w) => popped'[w] = popped[w]
<1>1. ASSUME Frame PROVE Custody' /\ Hands'
  BY <1>1, CustodyFrame
<1>2. CASE UNCHANGED vars
  <2>1. Frame
    BY <1>2 DEF vars, Running
  <2> QED
    BY <1>1, <2>1
<1>3. CASE Create \/ WaitDone \/ Join \/ FreePool
  <2>1. Frame
    BY <1>3 DEF Create, CreatePool, Spawn, CreateReturn, SpawnFail, WaitDone, Join, FreePool,
                Queue!TakeNothing, Running, CallPCs
  <2> QED
    BY <1>1, <2>1
<1>4. ASSUME NEW w \in Workers, WorkerStep(w) \/ WorkerAcquire(w) \/ FuncReturn(w)
                                \/ SpuriousWakeup(w)
      PROVE  Custody' /\ Hands'
  <2>1. CASE WorkerTake(w)
    BY <2>1, CustodyTake
  <2>2. CASE FuncReturn(w)
    BY <2>2, CustodyReturn
  <2>3. CASE WorkerFindNone(w)
    <3>1. Frame
      BY <2>3 DEF WorkerFindNone, Queue!TakeNothing, Running, CallPCs
    <3> QED
      BY <1>1, <3>1
  <2>4. CASE WorkerTest(w) \/ WorkerBreak(w) \/ WorkerGoOn(w) \/ WorkerSleep(w)
             \/ WorkerUnlock(w) \/ WorkerAcquire(w) \/ SpuriousWakeup(w)
    <3>1. Frame
      BY <2>4 DEF WorkerTest, WorkerBreak, WorkerGoOn, WorkerSleep, WorkerUnlock,
                  WorkerAcquire, WorkerLock, WorkerRelock, SpuriousWakeup, Running, CallPCs
    <3> QED
      BY <1>1, <3>1
  <2> QED
    BY <1>4, <2>1, <2>2, <2>3, <2>4 DEF WorkerStep
<1>5. ASSUME NEW t \in Threads, Call(t) \/ CallStep(t) \/ TermLock(t)
      PROVE  Custody' /\ Hands'
  <2>1. ASSUME NEW k \in Tasks, PostRefused(t, k) \/ PostStart(t, k)
        PROVE  Custody' /\ Hands'
    BY <2>1, CustodyRefused, CustodyPostStart
  <2>2. CASE PostAdd(t)
    BY <2>2, CustodyPostAdd
  <2>3. CASE Terminate(t) \/ TermLock(t) \/ TermBlock(t)
    <3>1. Frame
      BY <2>3 DEF Terminate, Caller, TermLock, TermBlock, Running, CallPCs
    <3> QED
      BY <1>1, <3>1
  <2>4. CASE PostSignal(t) \/ TermBroadcast(t)
    <3>1. /\ queue' = queue /\ status' = status /\ arg' = arg /\ popped' = popped
          /\ pc[t] \in {"post_signal", "term_bcast"} /\ pc'[t] = ReturnTo(t)
      BY <2>4 DEF PostSignal, TermBroadcast, Waiting
    <3>2. \A u \in Threads : u # t => pc'[u] = pc[u] \/ (pc[u] = "wait" /\ pc'[u] = "relock")
      BY <2>4 DEF PostSignal, TermBroadcast, Waiting
    <3>3. ReturnTo(t) # "post_add" /\ (t \in Workers => ReturnTo(t) = "func")
      BY Returns DEF Threads
    <3>4. Frame
      BY <3>1, <3>2, <3>3 DEF Running, CallPCs
    <3> QED
      BY <1>1, <3>4
  <2> QED
    BY <1>5, <2>1, <2>2, <2>3, <2>4 DEF Call, CallStep
<1> QED
  BY <1>2, <1>3, <1>4, <1>5, CustodyDrop DEF Next, Shutdown
-----------------------------------------------------------------------------
(* The tasks a worker took after quit was set: none before, and after one   *)
(* it does not get back to its loop.                                        *)
LateTasks ==
    /\ quit = 0 => \A w \in Workers : late[w] = 0
    /\ \A w \in Workers : late[w] \in {0, 1}
    /\ \A w \in Workers : late[w] = 1 => Running(w) \/ pc[w] \in {"test", "exited"}

(* A worker looks at quit between any two tasks. *)
LEMMA LateStep ==
  ASSUME TypeOK, LateTasks, Phases, [Next]_vars
  PROVE  LateTasks'
<1> USE Kinds DEF TypeOK, Goto, poolVars, flagVars, taskVars
<1> DEFINE Stays(w) == /\ Running(w) => Running(w)' \/ pc'[w] = "test"
                       /\ pc[w] \in {"test", "exited"} => pc'[w] = pc[w]
           Frame == /\ late' = late /\ (quit' = 0 => quit = 0)
                    /\ \A w \in Workers : Stays(w)
<1>1. ASSUME Frame PROVE LateTasks'
  BY <1>1 DEF LateTasks
<1>2. CASE UNCHANGED vars
  <2>1. Frame
    BY <1>2 DEF vars, Running
  <2> QED
    BY <1>1, <2>1
<1>3. CASE Create \/ WaitDone \/ Shutdown
  <2>1. Frame
    BY <1>3 DEF Create, CreatePool, Spawn, CreateReturn, SpawnFail, WaitDone, Shutdown, Join,
                DropTask, FreePool, Running, CallPCs
  <2> QED
    BY <1>1, <2>1
<1>4. ASSUME NEW w \in Workers, WorkerStep(w) \/ WorkerAcquire(w) \/ FuncReturn(w)
                                \/ SpuriousWakeup(w)
      PROVE  LateTasks'
  <2>1. CASE WorkerTake(w)
    <3>1. /\ pc[w] = "pop" /\ late[w] = 0 /\ quit' = quit /\ quit \in {0, 1}
      BY <2>1 DEF WorkerTake, LateTasks, Running, CallPCs
    <3>2. pc' = [pc EXCEPT ![w] = "func"] /\ late' = [late EXCEPT ![w] = quit]
      BY <2>1, <3>1 DEF WorkerTake
    <3>3. Running(w)' /\ \A v \in Workers : v # w => pc'[v] = pc[v] /\ late'[v] = late[v]
      BY <3>2 DEF Running
    <3>4. \A v \in Workers : v # w => (Running(v) => Running(v)')
      BY <3>3 DEF Running
    <3> QED
      BY <3>1, <3>2, <3>3, <3>4 DEF LateTasks
  <2>2. CASE WorkerTest(w)
    <3>1. /\ pc[w] = "test" /\ late' = late /\ quit' = quit
          /\ pc' = [pc EXCEPT ![w] = IF quit = 0 THEN "pop" ELSE "exited"]
      BY <2>2 DEF WorkerTest
    <3>2. \A v \in Workers : v # w => pc'[v] = pc[v] /\ (Running(v) => Running(v)')
      BY <3>1 DEF Running
    <3>3. late[w] = 1 => quit # 0
      BY DEF LateTasks
    <3>4. late[w] = 1 => pc'[w] = "exited"
      BY <3>1, <3>3
    <3> QED
      BY <3>1, <3>2, <3>4 DEF LateTasks
  <2>3. CASE ~WorkerTake(w) /\ ~WorkerTest(w)
    <3>1. Frame
      BY <1>4, <2>3
      DEF WorkerStep, WorkerFindNone, WorkerBreak, WorkerGoOn, WorkerSleep,
          WorkerUnlock, WorkerAcquire, WorkerLock, WorkerRelock, FuncReturn, SpuriousWakeup,
          Running, CallPCs
    <3> QED
      BY <1>1, <3>1
  <2> QED
    BY <2>1, <2>2, <2>3
<1>5. ASSUME NEW t \in Threads, Call(t) \/ CallStep(t) \/ TermLock(t)
      PROVE  LateTasks'
  <2>1. CASE Call(t) \/ PostAdd(t) \/ TermLock(t) \/ TermBlock(t)
    <3>1. Frame
      BY <2>1 DEF Call, Terminate, PostRefused, PostStart, Caller, PostAdd, TermLock,
                  TermBlock, Running, CallPCs
    <3> QED
      BY <1>1, <3>1
  <2>2. CASE PostSignal(t) \/ TermBroadcast(t)
    <3>1. /\ late' = late /\ quit' = quit
          /\ pc[t] \in {"post_signal", "term_bcast"} /\ pc'[t] = ReturnTo(t)
      BY <2>2 DEF PostSignal, TermBroadcast, Waiting
    <3>2. \A u \in Threads : u # t => pc'[u] = pc[u] \/ (pc[u] = "wait" /\ pc'[u] = "relock")
      BY <2>2 DEF PostSignal, TermBroadcast, Waiting
    <3>3. t \in Workers => ReturnTo(t) = "func"
      BY Returns
    <3>4. Frame
      BY <3>1, <3>2, <3>3 DEF Running, CallPCs
    <3> QED
      BY <1>1, <3>4
  <2> QED
    BY <1>5, <2>1, <2>2 DEF CallStep
<1> QED
  BY <1>2, <1>3, <1>4, <1>5 DEF Next
-----------------------------------------------------------------------------
PoolInv == /\ TypeOK /\ Hands /\ Custody /\ MutexHeld /\ QuitSeen /\ Phases /\ LateTasks
           /\ SleepsWhileBlocking /\ ShutdownWakesAll

(* The inductive invariant of the pool. *)
THEOREM PoolInvariant == Spec => []PoolInv
<1>1. Init => PoolInv
  <2> SUFFICES ASSUME Init PROVE PoolInv
    OBVIOUS
  <2> USE Kinds DEF Init, Queue!FifoInit, Lock!MutexInit
  <2>1. /\ \A w \in Workers : pc[w] = "unborn"
        /\ \A c \in Clients : pc[c] = "app"
        /\ pc[Main] = "create"
    OBVIOUS
  <2>2. \A t \in Threads : pc[t] \in {"unborn", "create", "app"}
    BY <2>1 DEF Threads
  <2>3. \A w \in Workers : ~Running(w)
    BY <2>1 DEF Running, CallPCs
  <2>4. TypeOK
    <3>1. pc \in [Threads -> WorkerPCs \cup MainPCs \cup CallPCs]
      BY DEF WorkerPCs, MainPCs
    <3>2. queue \in Seq(Tasks) /\ popped \in [Poppers -> Tasks \cup {NoTask, Nothing}]
      OBVIOUS
    <3>3. arg \in [Threads -> Tasks \cup {NoTask}] /\ status \in [Tasks -> Statuses]
      BY DEF Statuses
    <3>4. late \in [Workers -> Nat] /\ Lock!MutexTypeOK
      BY DEF Lock!MutexTypeOK
    <3> QED
      BY <2>1, <3>1, <3>2, <3>3, <3>4 DEF TypeOK, WorkerPCs, MainPCs
  <2>5. Hands /\ MutexHeld
    BY <2>2, <2>3 DEF Hands, MutexHeld
  <2>6. QuitSeen
    BY <2>2 DEF QuitSeen, TermPCs
  <2>7. LateTasks
    BY DEF LateTasks
  <2>8. SleepsWhileBlocking /\ ShutdownWakesAll
    BY <2>2 DEF SleepsWhileBlocking, ShutdownWakesAll
  <2>9. Phases
    BY <2>1 DEF Phases
  <2>10. Custody
    <3>1. \A k \in Tasks : status[k] = "new" /\ ~InQueue(k)
      BY DEF InQueue
    <3>2. \A i, j \in 1..Len(queue) : queue[i] = queue[j] => i = j
      OBVIOUS
    <3> QED
      BY <2>2, <2>3, <3>1, <3>2 DEF Custody
  <2> QED
    BY <2>4, <2>5, <2>6, <2>7, <2>8, <2>9, <2>10 DEF PoolInv
<1>2. PoolInv /\ [Next]_vars => PoolInv'
  <2> SUFFICES ASSUME PoolInv, [Next]_vars PROVE PoolInv'
    OBVIOUS
  <2> USE DEF PoolInv
  <2>1. TypeOK' /\ MutexHeld' /\ QuitSeen'
    BY TypeStep, MutexHeldStep, QuitSeenStep
  <2>2. Custody' /\ Hands'
    BY CustodyStep
  <2>3. Phases' /\ LateTasks'
    BY PhasesStep, LateStep
  <2>4. SleepsWhileBlocking' /\ ShutdownWakesAll'
    BY WakeStep
  <2> QED
    BY <2>1, <2>2, <2>3, <2>4
<1> QED
  BY <1>1, <1>2, PTL DEF Spec

(* Spec keeps every variable in its type. *)
COROLLARY TypeCorrect == Spec => []TypeOK
<1>1. PoolInv => TypeOK
  BY DEF PoolInv
<1> QED
  BY <1>1, PoolInvariant, PTL

(* No task is lost, duplicated or run twice, however many threads post,     *)
(* pop and shut down at once.                                               *)
THEOREM TasksInCustody == Spec => []Custody
<1>1. PoolInv => Custody
  BY DEF PoolInv
<1> QED
  BY <1>1, PoolInvariant, PTL

(* No worker sleeps through a shutdown. *)
THEOREM NoSleepThroughShutdown == Spec => []ShutdownWakesAll
<1>1. PoolInv => ShutdownWakesAll
  BY DEF PoolInv
<1> QED
  BY <1>1, PoolInvariant, PTL

(* When the queue and the pool are torn down nobody else uses them. *)
THEOREM TeardownIsAlone == Spec => []NoUseAfterFree
<1>1. PoolInv => NoUseAfterFree
  <2> SUFFICES ASSUME PoolInv, pc[Main] \in {"destroy", "done"}
               PROVE  /\ \A w \in Workers : pc[w] \in {"unborn", "exited"}
                      /\ \A c \in Clients : pc[c] = "app"
                      /\ mutex = Free
    BY DEF NoUseAfterFree
  <2>1. /\ \A w \in Workers : pc[w] \in {"unborn", "exited"}
        /\ \A c \in Clients : pc[c] = "app"
    BY DEF PoolInv, Phases
  <2>2. \A t \in Threads : mutex # t
    BY <2>1 DEF PoolInv, MutexHeld, Threads
  <2> QED
    BY <2>1, <2>2 DEF PoolInv, TypeOK, Lock!MutexTypeOK
<1> QED
  BY <1>1, PoolInvariant, PTL

(* When the pool is freed no task it took is still in it. *)
THEOREM NoLeaks == Spec => []NoTaskLeaks
<1>1. PoolInv => NoTaskLeaks
  <2> SUFFICES ASSUME PoolInv, pool = "freed", NEW k \in Tasks
               PROVE  status[k] \in {"new", "refused", "done", "dropped"}
    BY DEF NoTaskLeaks
  <2> USE DEF PoolInv
  <2>1. /\ \A w \in Workers : pc[w] \in {"unborn", "exited"}
        /\ \A c \in Clients : pc[c] = "app"
        /\ pc[Main] = "done" /\ queue = <<>>
    BY DEF Phases
  <2>2. ~InQueue(k)
    BY <2>1 DEF InQueue
  <2>3. \A t \in Threads : pc[t] # "post_add"
    BY <2>1 DEF Threads
  <2>4. \A w \in Workers : ~Running(w)
    BY <2>1 DEF Running, CallPCs
  <2>5. status[k] \notin {"queued", "posting", "running"} /\ status[k] \in Statuses
    BY <2>2, <2>3, <2>4 DEF Custody, TypeOK
  <2> QED
    BY <2>5 DEF Statuses
<1> QED
  BY <1>1, PoolInvariant, PTL

(* After quit is set each worker starts at most one more task. *)
THEOREM OneMoreTaskAtMost == Spec => []AtMostOneMoreTask
<1>1. PoolInv => AtMostOneMoreTask
  <2> SUFFICES ASSUME LateTasks, NEW w \in Workers PROVE late[w] <= 1
    BY DEF PoolInv, AtMostOneMoreTask
  <2>1. late[w] = 0 \/ late[w] = 1
    BY DEF LateTasks
  <2> QED
    BY <2>1
<1> QED
  BY <1>1, PoolInvariant, PTL
=============================================================================
