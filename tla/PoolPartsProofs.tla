--------------------------- MODULE PoolPartsProofs ---------------------------
(***************************************************************************)
(* Of the parts of the pools.                                              *)
(*   - spinlock.h excludes, and implements Mutex, for any number of        *)
(*     threads.                                                            *)
(*   - thrdpool_create undoes what it did however it fails, but for what   *)
(*     LeftBehind names, for any number of workers wanted and started.     *)
(*   - The C++ pool starts one batch of threads, for any number of callers *)
(*     and of threads.                                                     *)
(*   - wlnet's work queue loses no job and no wake-up, for any number of   *)
(*     workers and jobs.                                                   *)
(***************************************************************************)
EXTENDS MCPoolParts, FiniteSetTheorems, TLAPS

LockInv == TypeOK /\ MutualExclusion /\ LockWordExact

(* Only an exchange that reads 0 lets a thread in, and it reads 0 only when *)
(* nobody is inside.                                                        *)
LEMMA LockInvStep ==
  ASSUME LockInv, [Next]_vars
  PROVE  LockInv'
<1> USE DEF LockInv, TypeOK, MutualExclusion, LockWordExact, Holders, PCs, Goto
<1>1. CASE UNCHANGED vars
  BY <1>1 DEF vars
<1>2. ASSUME NEW t \in Threads, LockCall(t) \/ TryLoad(t) \/ LockSpin(t)
      PROVE  LockInv'
  BY <1>2 DEF LockCall, TryLoad, LockSpin
<1>3. ASSUME NEW t \in Threads, LockExchange(t) \/ TryExchange(t)
      PROVE  LockInv'
  <2>1. CASE lock = 0
    BY <1>3, <2>1 DEF LockExchange, TryExchange, TestAndSet
  <2>2. CASE lock = 1
    BY <1>3, <2>2 DEF LockExchange, TryExchange, TestAndSet
  <2> QED
    BY <2>1, <2>2
<1>4. ASSUME NEW t \in Threads, Unlock(t)
      PROVE  LockInv'
  BY <1>4 DEF Unlock
<1> QED
  BY <1>1, <1>2, <1>3, <1>4 DEF Next, Step

(* The inductive invariant: at most one thread is inside, and the atomic    *)
(* int is 1 exactly while there is one.                                     *)
THEOREM LockInvariant == Spec => []LockInv
<1>1. Init => LockInv
  BY DEF Init, LockInv, TypeOK, MutualExclusion, LockWordExact, Holders, PCs
<1>2. LockInv /\ [Next]_vars => LockInv'
  BY LockInvStep
<1> QED
  BY <1>1, <1>2, PTL DEF Spec

(* No two threads are between spinlock_lock or trylock and spinlock_unlock. *)
THEOREM Exclusion == Spec => []MutualExclusion
<1>1. LockInv => MutualExclusion
  BY DEF LockInv
<1> QED
  BY <1>1, LockInvariant, PTL

(* The lock word is exact: unlock never leaves 1 behind, a losing exchange  *)
(* never overwrites a 0.                                                    *)
THEOREM Exactness == Spec => []LockWordExact
<1>1. LockInv => LockWordExact
  BY DEF LockInv
<1> QED
  BY <1>1, LockInvariant, PTL
-----------------------------------------------------------------------------
(* Who is inside, read off the program counters. *)
LEMMA HolderIs ==
  ASSUME MutualExclusion
  PROVE  /\ Holders = {} => Holder = Free
         /\ \A t \in Threads : pc[t] = "in" => Holder = t
BY DEF MutualExclusion, Holder, Holders

(* The winning exchange acquires, the store of 0 releases, and every other  *)
(* step keeps the holder.                                                   *)
LEMMA MutexStep ==
  ASSUME LockInv, LockInv', [Next]_vars
  PROVE  [Abstract!MutexNext]_Holder
<1> USE DEF LockInv, TypeOK, Goto
<1>1. ASSUME Holders' = Holders
      PROVE  Holder' = Holder
  BY <1>1 DEF Holder
<1>2. CASE UNCHANGED vars
  BY <1>1, <1>2 DEF vars, Holders
<1>3. ASSUME NEW t \in Threads, LockCall(t) \/ TryLoad(t) \/ LockSpin(t)
      PROVE  Holder' = Holder
  BY <1>1, <1>3 DEF LockCall, TryLoad, LockSpin, Holders
<1>4. ASSUME NEW t \in Threads, LockExchange(t) \/ TryExchange(t)
      PROVE  Holder' = Holder \/ Abstract!Acquire(t)
  <2>1. CASE lock = 0
    <3>1. Holders = {} /\ pc'[t] = "in"
      BY <1>4, <2>1 DEF LockExchange, TryExchange, TestAndSet, LockWordExact
    <3>2. Holder = Free /\ Holder' = t
      BY <3>1, HolderIs DEF MutualExclusion, Holder, Holders
    <3> QED
      BY <3>2 DEF Abstract!Acquire
  <2>2. CASE lock = 1
    BY <1>1, <1>4, <2>2 DEF LockExchange, TryExchange, TestAndSet, Holders
  <2> QED
    BY <2>1, <2>2
<1>5. ASSUME NEW t \in Threads, Unlock(t)
      PROVE  Abstract!Release(t)
  <2>1. Holder = t
    BY <1>5, HolderIs DEF Unlock
  <2>2. Holders' = {}
    BY <1>5 DEF Unlock, MutualExclusion, Holders
  <2>3. Holder' = Free
    BY <2>2 DEF Holder
  <2> QED
    BY <2>1, <2>3 DEF Abstract!Release
<1> QED
  BY <1>2, <1>3, <1>4, <1>5 DEF Next, Step, Abstract!MutexNext

(* spinlock.h is a mutex. *)
THEOREM SpinLockImplementsMutex == Spec => ImplementsMutex
<1>1. Init => Abstract!MutexInit
  BY DEF Init, Abstract!MutexInit, Holder, Holders
<1>2. LockInv /\ LockInv' /\ [Next]_vars => [Abstract!MutexNext]_Holder
  BY MutexStep
<1> QED
  BY <1>1, <1>2, LockInvariant, PTL DEF Spec, ImplementsMutex, Abstract!MutexSpec
-----------------------------------------------------------------------------
AllButAttr == Create!Resources \ {"attr"}

(* Until the first worker starts, *)
Unstarted == {"pool", "queue", "mutex", "cond", "attr", "threads", "undo_cond", "undo_mutex"}

Acquiring == (Unstarted \ {"undo_cond", "undo_mutex"}) \cup {"spawn"}
Returned  == {"returned", "join", "free", "done"}

(* ... and once all that were started have ended *)
AllJoined == {"fail_threads", "fail_queue", "fail_pool", "null", "free", "done"}

(* What failed, at each place of the undoing *)
FailedInOrder ==
    /\ createPc \in Acquiring \cup Returned => failed = "none"
    /\ createPc = "undo_cond"  => failed = "cond"
    /\ createPc = "undo_mutex" => failed \in {"mutex", "cond"}
    /\ createPc \in {"fail_join", "fail_threads"} => failed = "spawn"
    /\ createPc = "fail_queue" => failed \in {"attr", "threads", "spawn"}
    /\ createPc = "fail_pool"  => failed \in {"queue", "mutex", "cond", "attr", "threads", "spawn"}

(* What thrdpool_create has at each place *)
HaveInOrder ==
    /\ createPc = "pool"    => have = {}
    /\ createPc = "queue"   => have = {"pool"}
    /\ createPc = "mutex"   => have = {"pool", "queue"}
    /\ createPc = "cond"    => have = {"pool", "queue", "mutex"}
    /\ createPc = "attr"    => have = {"pool", "queue", "mutex", "cond"}
    /\ createPc = "threads" => have = {"pool", "queue", "mutex", "cond", "attr"}
    /\ createPc = "spawn"   => have = Create!Resources
    /\ createPc \in {"fail_join", "fail_threads", "returned", "join", "free"} => have = AllButAttr
    /\ createPc = "undo_cond"  => have = {"pool", "queue", "mutex"}
    /\ createPc = "undo_mutex" => have \ {"mutex"} = {"pool", "queue"}
                                /\ ("mutex" \in have <=> failed = "cond")
    /\ createPc = "fail_queue" => have = {"pool", "queue", "mutex", "cond"} \cup Create!LeftBehind
    /\ createPc = "fail_pool"  => have = {"pool"} \cup Create!LeftBehind
    /\ createPc = "null"       => have = Create!LeftBehind
    /\ createPc = "done"       => have = {}

(* ... and what it destroyed without having it *)
MisuseInOrder ==
    /\ createPc = "undo_mutex" => misuse = Create!Misused \ {"mutex"}
    /\ createPc \in {"fail_pool", "null"} => misuse = Create!Misused
    /\ createPc \notin {"undo_mutex", "fail_pool", "null"} => misuse = {}

WorkersInOrder == /\ createPc \in Unstarted => spawned = 0
                  /\ createPc \in AllJoined => joined = spawned
                  /\ running \subseteq (joined + 1)..spawned

CreateInv == Create!TypeOK /\ FailedInOrder /\ HaveInOrder /\ MisuseInOrder /\ WorkersInOrder

LEMMA NobodyRuns ==
  ASSUME CreateInv, createPc \in Unstarted \cup AllJoined
  PROVE  running = {} /\ joined = spawned
<1>1. joined \in Nat /\ spawned \in Nat /\ joined <= spawned
  BY SizesAssumption DEF CreateInv, Create!TypeOK
<1>2. joined = spawned
  BY <1>1 DEF CreateInv, WorkersInOrder, Unstarted, AllJoined
<1> QED
  BY <1>1, <1>2 DEF CreateInv, WorkersInOrder

(* thrdpool_create acquires, or fails to. *)
LEMMA AcquireStep ==
  ASSUME CreateInv,
         \/ Create!MallocPool \/ Create!MallocQueue \/ Create!MutexInit \/ Create!CondInit
         \/ Create!AttrInit \/ Create!MallocThreads
  PROVE  CreateInv'
<1> USE DEF Create!MallocPool, Create!MallocQueue, Create!MutexInit, Create!CondInit,
            Create!AttrInit, Create!MallocThreads, Create!Try
<1>1. /\ createPc \in Unstarted \ {"undo_cond", "undo_mutex"} /\ createPc' # "pool"
      /\ createPc' \in (Unstarted \cup {"spawn", "null", "fail_pool", "fail_queue"})
      /\ UNCHANGED <<spawned, running, joined, misuse>>
      /\ have' \subseteq have \cup Create!Resources
      /\ failed' \in {failed} \cup Create!Resources
  BY DEF Unstarted, Create!Resources
<1>2. spawned = 0 /\ running = {} /\ joined = 0 /\ misuse = {} /\ failed = "none"
  BY <1>1, NobodyRuns DEF CreateInv, WorkersInOrder, MisuseInOrder, FailedInOrder, Unstarted, Acquiring
<1>3. Create!TypeOK'
  BY <1>1, <1>2 DEF CreateInv, Create!TypeOK, Create!PCs, Unstarted
<1>4. FailedInOrder'
  BY <1>2 DEF FailedInOrder, Acquiring, Unstarted, Returned
<1>5. HaveInOrder'
  BY <1>2 DEF CreateInv, HaveInOrder, Create!Resources, Create!LeftBehind
<1>6. MisuseInOrder'
  BY <1>2 DEF MisuseInOrder, Create!Misused
<1>7. WorkersInOrder'
  BY <1>1, <1>2 DEF WorkersInOrder
<1> QED
  BY <1>3, <1>4, <1>5, <1>6, <1>7 DEF CreateInv

(* What is undone when the queue cannot be created *)
LEMMA UndoQueueStep ==
  ASSUME CreateInv, Create!UndoCond \/ Create!UndoMutex
  PROVE  CreateInv'
<1> USE DEF Create!UndoCond, Create!UndoMutex, Create!Undo, Create!Destroy, Create!Goto
<1>1. /\ createPc \in Unstarted /\ createPc' \in {"undo_mutex", "fail_pool"}
      /\ UNCHANGED <<spawned, running, joined, failed>>
      /\ have' \subseteq have /\ misuse' \subseteq misuse \cup {"cond", "mutex"}
  BY DEF Unstarted
<1>2. spawned = 0 /\ running = {} /\ joined = 0
  BY <1>1, NobodyRuns DEF CreateInv, WorkersInOrder
<1>3. Create!TypeOK'
  BY <1>1, <1>2 DEF CreateInv, Create!TypeOK, Create!PCs, Create!Resources
<1>4. FailedInOrder' /\ WorkersInOrder'
  BY <1>1, <1>2 DEF CreateInv, FailedInOrder, WorkersInOrder, Acquiring, Unstarted, Returned
<1>5. CASE Create!UndoCond
  <2>1. failed = "cond" /\ have = {"pool", "queue", "mutex"} /\ misuse = {}
    BY <1>5 DEF CreateInv, FailedInOrder, HaveInOrder, MisuseInOrder
  <2>2. HaveInOrder' /\ MisuseInOrder'
    BY <1>5, <2>1 DEF HaveInOrder, MisuseInOrder, Create!Misused
  <2> QED
    BY <1>3, <1>4, <2>2 DEF CreateInv
<1>6. CASE Create!UndoMutex
  <2>1. /\ failed \in {"mutex", "cond"} /\ have \ {"mutex"} = {"pool", "queue"}
        /\ "mutex" \in have <=> failed = "cond"
        /\ misuse = Create!Misused \ {"mutex"}
    BY <1>6 DEF CreateInv, FailedInOrder, HaveInOrder, MisuseInOrder
  <2>2. have' = {"pool"} \cup {"queue"} /\ failed' = failed /\ createPc' = "fail_pool"
    BY <1>6, <2>1
  <2>3. misuse' = Create!Misused
    BY <1>6, <2>1 DEF Create!Misused
  <2>4. HaveInOrder' /\ MisuseInOrder'
    BY <2>1, <2>2, <2>3 DEF HaveInOrder, MisuseInOrder, Create!Misused, Create!LeftBehind
  <2> QED
    BY <1>3, <1>4, <2>4 DEF CreateInv
<1> QED
  BY <1>5, <1>6

(* The workers start, end and are joined. *)
LEMMA WorkersStep ==
  ASSUME CreateInv, Create!SpawnOne \/ Create!WorkerExit \/ Create!JoinOne
  PROVE  CreateInv'
<1> USE SizesAssumption
<1>1. /\ createPc \in {"spawn", "fail_join", "returned", "join"}
      /\ UNCHANGED <<createPc, have, failed, misuse>>
      /\ joined \in Nat /\ spawned \in Nat /\ joined <= spawned /\ spawned <= PoolSize
  BY DEF Create!SpawnOne, Create!WorkerExit, Create!JoinOne, CreateInv, Create!TypeOK
<1>2. Create!TypeOK' /\ running' \subseteq (joined' + 1)..spawned'
  <2>1. CASE Create!SpawnOne
    BY <1>1, <2>1 DEF Create!SpawnOne, CreateInv, Create!TypeOK, WorkersInOrder
  <2>2. CASE Create!WorkerExit
    BY <1>1, <2>2 DEF Create!WorkerExit, CreateInv, Create!TypeOK, WorkersInOrder
  <2>3. CASE Create!JoinOne
    BY <1>1, <2>3 DEF Create!JoinOne, CreateInv, Create!TypeOK, WorkersInOrder
  <2> QED
    BY <2>1, <2>2, <2>3
<1>3. FailedInOrder' /\ HaveInOrder' /\ MisuseInOrder'
  BY <1>1 DEF CreateInv, FailedInOrder, HaveInOrder, MisuseInOrder, Create!LeftBehind, Create!Misused
<1>4. WorkersInOrder'
  BY <1>1, <1>2 DEF CreateInv, WorkersInOrder, Unstarted, AllJoined
<1> QED
  BY <1>2, <1>3, <1>4 DEF CreateInv

(* thrdpool_create and thrdpool_waitdone go on. *)
LEMMA GoOnStep ==
  ASSUME CreateInv, \/ Create!SpawnDone \/ Create!SpawnFail
                    \/ Create!FailJoined \/ Create!WaitDone \/ Create!Joined
  PROVE  CreateInv'
<1> USE DEF Create!SpawnDone, Create!SpawnFail, Create!FailJoined, Create!WaitDone, Create!Joined,
            Create!Undo, Create!Destroy, Create!Goto
<1>1. /\ createPc \in {"spawn", "fail_join", "returned", "join"}
      /\ createPc' \in {"fail_join", "returned", "join", "fail_threads", "free"}
      /\ UNCHANGED <<spawned, running, joined>>
  OBVIOUS
<1>2. have' = AllButAttr /\ misuse' = {} /\ misuse = {}
  BY DEF CreateInv, HaveInOrder, MisuseInOrder, AllButAttr, Create!Resources
<1>3. FailedInOrder' /\ failed' \in {failed, "spawn"}
  BY DEF CreateInv, FailedInOrder, Acquiring, Unstarted, Returned
<1>4. Create!TypeOK'
  BY <1>1, <1>2, <1>3 DEF CreateInv, Create!TypeOK, Create!PCs, AllButAttr, Create!Resources
<1>5. createPc' \in {"fail_threads", "free"} => joined = spawned
  OBVIOUS
<1>6. WorkersInOrder'
  BY <1>1, <1>5 DEF CreateInv, WorkersInOrder, Unstarted, AllJoined
<1>7. HaveInOrder' /\ MisuseInOrder'
  BY <1>1, <1>2 DEF HaveInOrder, MisuseInOrder
<1> QED
  BY <1>3, <1>4, <1>6, <1>7 DEF CreateInv

(* What is to be given back is, when no worker runs. *)
LEMMA GiveBackStep ==
  ASSUME CreateInv, \/ Create!FailThreads \/ Create!FailQueue \/ Create!FailPool
                    \/ Create!FreeAll
  PROVE  CreateInv'
<1> USE DEF Create!FailThreads, Create!FailQueue, Create!FailPool, Create!FreeAll, Create!Undo,
            Create!Destroy, Create!Goto
<1>1. /\ createPc \in AllJoined /\ createPc' \in {"fail_queue", "fail_pool", "null", "done"}
      /\ UNCHANGED <<spawned, running, joined, failed>> /\ have' \subseteq have
  BY DEF AllJoined
<1>2. running = {} /\ joined = spawned
  BY <1>1, NobodyRuns
<1>3. misuse' \subseteq misuse \cup Create!Resources
  BY DEF Create!Resources
<1>4. Create!TypeOK'
  BY <1>1, <1>3 DEF CreateInv, Create!TypeOK, Create!PCs, Create!Resources
<1>5. WorkersInOrder'
  BY <1>1, <1>2 DEF WorkersInOrder, Unstarted
<1>6. FailedInOrder'
  BY <1>1 DEF CreateInv, FailedInOrder, Acquiring, Unstarted, Returned
<1>7. HaveInOrder' /\ MisuseInOrder'
  <2>1. CASE Create!FailThreads
    <3>1. failed = "spawn" /\ failed' = failed /\ have = AllButAttr /\ misuse = {}
      BY <2>1 DEF CreateInv, FailedInOrder, HaveInOrder, MisuseInOrder
    <3> QED
      BY <2>1, <3>1 DEF HaveInOrder, MisuseInOrder, AllButAttr, Create!Resources, Create!LeftBehind
  <2>2. CASE Create!FailQueue
    <3>1. /\ failed \in {"attr", "threads", "spawn"} /\ failed' = failed /\ misuse = {}
          /\ have = {"pool", "queue", "mutex", "cond"} \cup Create!LeftBehind
      BY <2>2 DEF CreateInv, FailedInOrder, HaveInOrder, MisuseInOrder
    <3> QED
      BY <2>2, <3>1 DEF HaveInOrder, MisuseInOrder, Create!LeftBehind, Create!Misused
  <2>3. CASE Create!FailPool
    <3>1. failed' = failed /\ misuse = Create!Misused /\ have = {"pool"} \cup Create!LeftBehind
      BY <2>3 DEF CreateInv, HaveInOrder, MisuseInOrder
    <3> QED
      BY <2>3, <3>1 DEF HaveInOrder, MisuseInOrder, Create!LeftBehind, Create!Misused
  <2>4. CASE Create!FreeAll
    <3>1. have = AllButAttr /\ misuse = {}
      BY <2>4 DEF CreateInv, HaveInOrder, MisuseInOrder
    <3> QED
      BY <2>4, <3>1 DEF HaveInOrder, MisuseInOrder, AllButAttr, Create!Resources
  <2> QED
    BY <2>1, <2>2, <2>3, <2>4
<1> QED
  BY <1>4, <1>5, <1>6, <1>7 DEF CreateInv

LEMMA CreateInvStep ==
  ASSUME CreateInv, [Create!Next]_(Create!vars)
  PROVE  CreateInv'
<1>1. CASE UNCHANGED Create!vars
  BY <1>1 DEF Create!vars, CreateInv, Create!TypeOK, FailedInOrder, HaveInOrder, MisuseInOrder,
     WorkersInOrder, Create!LeftBehind, Create!Misused
<1> QED
  BY <1>1, AcquireStep, UndoQueueStep, WorkersStep, GoOnStep, GiveBackStep
     DEF Create!Next, Create!Creating

(* The inductive invariant of thrdpool_create and thrdpool_waitdone. *)
THEOREM CreateInvariant == Create!Spec => []CreateInv
<1>1. Create!Init => CreateInv
  BY SizesAssumption DEF Create!Init, CreateInv, Create!TypeOK, Create!PCs, Create!Resources,
     FailedInOrder, HaveInOrder, MisuseInOrder, WorkersInOrder, AllButAttr, Unstarted, Acquiring,
     Returned, AllJoined
<1> QED
  BY <1>1, CreateInvStep, PTL DEF Create!Spec

(* Whatever thrdpool_create cannot have, its memory, an init, or its first or *)
(* a later worker, it gives back all but LeftBehind, once, after the workers  *)
(* that it started have ended; and thrdpool_waitdone gives back everything.   *)
THEOREM FailedCreateIsUndone == Create!Spec => []CreateFailureIsUndone
<1>1. ASSUME CreateInv
      PROVE  CreateFailureIsUndone
  <2>1. Create!TypeOK
    BY <1>1 DEF CreateInv
  <2>2. Create!WorkersHaveAPool
    <3>1. SUFFICES ASSUME running # {}
                   PROVE  {"pool", "queue", "mutex", "cond"} \subseteq have
      BY DEF Create!WorkersHaveAPool
    <3>2. createPc \in {"spawn", "fail_join", "returned", "join"}
      BY <1>1, <2>1, <3>1, NobodyRuns DEF Create!TypeOK, Create!PCs, Unstarted, AllJoined
    <3> QED
      BY <1>1, <3>2 DEF CreateInv, HaveInOrder, AllButAttr, Create!Resources
  <2>3. /\ createPc = "null" => have = Create!LeftBehind /\ misuse = Create!Misused
        /\ createPc = "done" => have = {} /\ misuse = {}
    BY <1>1 DEF CreateInv, HaveInOrder, MisuseInOrder
  <2> QED
    BY <2>1, <2>2, <2>3 DEF CreateFailureIsUndone, Create!CreateFailureIsUndone
<1> QED
  BY <1>1, CreateInvariant, PTL
-----------------------------------------------------------------------------
(* m_mutex is held by the caller that looks at m_initialized or starts the  *)
(* threads, and by nobody else.                                             *)
OneInitializes == \A c \in Callers : poolPc[c] \in {"check", "start"} <=> m_mutex = c

(* The vector has the threads that were started, *)
VectorExact == /\ IsFiniteSet(m_threads)
               /\ \A t \in ThreadIds : t \in m_threads <=> thread[t] # "unborn"

(* ... and how many these are is the batch less what is left to start.      *)
BatchCounted ==
    /\ \A c \in Callers : poolPc[c] = "start" =>
          ~m_initialized /\ Cardinality(m_threads) + left = BatchSize
    /\ m_initialized => Cardinality(m_threads) = BatchSize
    /\ ~m_initialized /\ (\A c \in Callers : poolPc[c] # "start") => Cardinality(m_threads) = 0

CxxInv == CxxPool!TypeOK /\ OneInitializes /\ VectorExact /\ BatchCounted

(* initialize takes and releases m_mutex. *)
LEMMA MutexHandover ==
  ASSUME CxxInv, NEW c \in Callers,
         \/ CxxPool!InitializeCall(c) \/ CxxPool!InitializeLock(c)
         \/ CxxPool!InitializeAgain(c) \/ CxxPool!InitializeFirst(c)
         \/ CxxPool!InitializeReturn(c)
  PROVE  CxxPool!TypeOK' /\ OneInitializes'
<1> USE DEF CxxPool!InitializeCall, CxxPool!InitializeLock, CxxPool!InitializeAgain,
            CxxPool!InitializeFirst, CxxPool!InitializeReturn, CxxPool!Goto,
            CxxPool!Lock!Acquire, CxxPool!Lock!Release
<1>1. CxxPool!TypeOK'
  <2>1. /\ m_initialized' \in BOOLEAN /\ m_mutex' \in Callers \cup {Free}
        /\ UNCHANGED <<m_threads, m_tasks, thread, task, status>>
    BY DEF CxxInv, CxxPool!TypeOK, CxxPool!Lock!MutexTypeOK
  <2>2. poolPc' \in [Callers -> {"idle", "lock", "check", "start"}]
    BY DEF CxxInv, CxxPool!TypeOK
  <2>3. left' \in 0..BatchSize
    BY SizesAssumption DEF CxxInv, CxxPool!TypeOK
  <2> QED
    BY <2>1, <2>2, <2>3 DEF CxxInv, CxxPool!TypeOK, CxxPool!Lock!MutexTypeOK
<1>2. OneInitializes'
  BY CallersAssumption DEF CxxInv, CxxPool!TypeOK, OneInitializes
<1> QED
  BY <1>1, <1>2

(* The batch is counted from the first initialize on. *)
LEMMA InitializeStep ==
  ASSUME CxxInv, NEW c \in Callers,
         \/ CxxPool!InitializeCall(c) \/ CxxPool!InitializeLock(c)
         \/ CxxPool!InitializeAgain(c) \/ CxxPool!InitializeFirst(c)
         \/ CxxPool!InitializeReturn(c)
  PROVE  CxxInv'
<1> USE DEF CxxPool!Goto
<1>1. CxxPool!TypeOK' /\ OneInitializes'
  BY MutexHandover
<1>2. UNCHANGED <<m_threads, thread>>
  BY DEF CxxPool!InitializeCall, CxxPool!InitializeLock, CxxPool!InitializeAgain,
         CxxPool!InitializeFirst, CxxPool!InitializeReturn
<1>3. VectorExact'
  BY <1>2 DEF CxxInv, VectorExact
<1>4. poolPc \in [Callers -> {"idle", "lock", "check", "start"}]
  BY DEF CxxInv, CxxPool!TypeOK
<1>5. BatchCounted'
  <2>1. CASE CxxPool!InitializeCall(c) \/ CxxPool!InitializeLock(c) \/ CxxPool!InitializeAgain(c)
    BY <1>2, <1>4, <2>1 DEF CxxInv, BatchCounted, CxxPool!InitializeCall,
       CxxPool!InitializeLock, CxxPool!InitializeAgain
  <2>2. CASE CxxPool!InitializeFirst(c)
    <3>1. \A d \in Callers : poolPc[d] # "start"
      BY <2>2 DEF CxxInv, OneInitializes, CxxPool!InitializeFirst
    <3>2. Cardinality(m_threads) = 0
      BY <2>2, <3>1 DEF CxxInv, BatchCounted, CxxPool!InitializeFirst
    <3> QED
      BY <1>2, <1>4, <2>2, <3>1, <3>2, SizesAssumption DEF BatchCounted, CxxPool!InitializeFirst
  <2>3. CASE CxxPool!InitializeReturn(c)
    <3>1. \A d \in Callers : poolPc'[d] # "start"
      BY <1>4, <2>3 DEF CxxInv, OneInitializes, CxxPool!InitializeReturn
    <3>2. Cardinality(m_threads) + 0 = BatchSize
      BY <2>3 DEF CxxInv, BatchCounted, CxxPool!InitializeReturn
    <3>3. Cardinality(m_threads) = BatchSize
      BY <3>2, FS_CardinalityType, SizesAssumption DEF CxxInv, VectorExact
    <3> QED
      BY <1>2, <2>3, <3>1, <3>3 DEF BatchCounted, CxxPool!InitializeReturn
  <2> QED
    BY <2>1, <2>2, <2>3
<1> QED
  BY <1>1, <1>3, <1>5 DEF CxxInv

(* m_threads.emplace_back adds one, and one less is left. *)
LEMMA StartThreadStep ==
  ASSUME CxxInv, NEW c \in Callers, CxxPool!StartThread(c)
  PROVE  CxxInv'
<1>1. /\ poolPc[c] = "start" /\ left > 0 /\ left' = left - 1 /\ left \in Nat
      /\ UNCHANGED <<m_initialized, m_mutex, m_tasks, poolPc, task, status>>
  BY SizesAssumption DEF CxxPool!StartThread, CxxInv, CxxPool!TypeOK
<1>2. PICK t \in ThreadIds : /\ thread[t] = "unborn"
                             /\ thread' = [thread EXCEPT ![t] = "loop"]
                             /\ m_threads' = m_threads \cup {t}
  BY DEF CxxPool!StartThread
<1>3. t \notin m_threads
  BY <1>2 DEF CxxInv, VectorExact
<1>4. /\ IsFiniteSet(m_threads') /\ Cardinality(m_threads') = Cardinality(m_threads) + 1
      /\ Cardinality(m_threads) \in Nat
  BY <1>2, <1>3, FS_AddElement, FS_CardinalityType DEF CxxInv, VectorExact
<1>5. CxxPool!TypeOK' /\ OneInitializes'
  BY <1>1, <1>2, SizesAssumption
     DEF CxxInv, CxxPool!TypeOK, OneInitializes, CxxPool!Lock!MutexTypeOK
<1>6. VectorExact'
  BY <1>2, <1>4 DEF CxxInv, CxxPool!TypeOK, VectorExact
<1>7. BatchCounted'
  BY <1>1, <1>4, SizesAssumption DEF CxxInv, BatchCounted
<1> QED
  BY <1>5, <1>6, <1>7 DEF CxxInv

(* Tasks and threads that run leave the batch as it is. *)
LEMMA TaskSteps ==
  ASSUME CxxInv,
         \/ \E c \in Callers, k \in Tasks : CxxPool!SubmitTask(c, k)
         \/ \E t \in ThreadIds : CxxPool!TakeTask(t) \/ CxxPool!Break(t) \/ CxxPool!TaskReturns(t)
  PROVE  CxxInv'
<1>1. /\ UNCHANGED <<m_initialized, m_mutex, m_threads, poolPc, left>>
      /\ \/ UNCHANGED thread
         \/ \E t \in ThreadIds, s \in {"loop", "running", "ended"} :
               thread[t] # "unborn" /\ thread' = [thread EXCEPT ![t] = s]
  BY DEF CxxPool!SubmitTask, CxxPool!TakeTask, CxxPool!Break, CxxPool!TaskReturns
<1>2. m_tasks' \in Seq(Tasks)
  <2>1. \/ UNCHANGED m_tasks
        \/ \E k \in Tasks : m_tasks' = Append(m_tasks, k)
        \/ m_tasks # <<>> /\ m_tasks' = Tail(m_tasks)
    BY DEF CxxPool!SubmitTask, CxxPool!TakeTask, CxxPool!Break, CxxPool!TaskReturns
  <2>2. m_tasks \in Seq(Tasks)
    BY DEF CxxInv, CxxPool!TypeOK
  <2> QED
    BY <2>1, <2>2
<1>3. task' \in [ThreadIds -> Tasks \cup {Null}]
  BY DEF CxxInv, CxxPool!TypeOK, CxxPool!SubmitTask, CxxPool!TakeTask, CxxPool!Break,
         CxxPool!TaskReturns
<1>4. status' \in [Tasks -> {"new", "queued", "running", "done"}]
  BY DEF CxxInv, CxxPool!TypeOK, CxxPool!SubmitTask, CxxPool!TakeTask, CxxPool!Break,
         CxxPool!TaskReturns
<1>5. thread' \in [ThreadIds -> {"unborn", "loop", "running", "ended"}] /\ VectorExact'
  BY <1>1 DEF CxxInv, CxxPool!TypeOK, VectorExact
<1>6. CxxPool!TypeOK'
  BY <1>1, <1>2, <1>3, <1>4, <1>5 DEF CxxInv, CxxPool!TypeOK, CxxPool!Lock!MutexTypeOK
<1>7. OneInitializes' /\ BatchCounted'
  BY <1>1 DEF CxxInv, OneInitializes, BatchCounted
<1> QED
  BY <1>5, <1>6, <1>7 DEF CxxInv

(* The inductive invariant of the C++ pool. *)
THEOREM CxxPoolInvariant == CxxPool!Spec => []CxxInv
<1>1. ASSUME CxxPool!Init
      PROVE  CxxInv
  <2>1. CxxPool!TypeOK
    <3>1. m_tasks \in Seq(Tasks)
      BY <1>1 DEF CxxPool!Init
    <3>2. left \in 0..BatchSize
      BY <1>1, SizesAssumption DEF CxxPool!Init
    <3>3. /\ m_initialized \in BOOLEAN /\ m_mutex \in Callers \cup {Free}
          /\ m_threads \subseteq ThreadIds
          /\ poolPc \in [Callers -> {"idle", "lock", "check", "start"}]
          /\ thread \in [ThreadIds -> {"unborn", "loop", "running", "ended"}]
      BY <1>1 DEF CxxPool!Init, CxxPool!Lock!MutexInit
    <3>4. /\ task \in [ThreadIds -> Tasks \cup {Null}]
          /\ status \in [Tasks -> {"new", "queued", "running", "done"}]
      BY <1>1 DEF CxxPool!Init
    <3> QED
      BY <3>1, <3>2, <3>3, <3>4 DEF CxxPool!TypeOK, CxxPool!Lock!MutexTypeOK
  <2>2. OneInitializes
    BY <1>1, CallersAssumption DEF CxxPool!Init, OneInitializes, CxxPool!Lock!MutexInit
  <2>3. IsFiniteSet(m_threads) /\ Cardinality(m_threads) = 0
    BY <1>1, FS_EmptySet DEF CxxPool!Init
  <2> QED
    BY <1>1, <2>1, <2>2, <2>3 DEF CxxPool!Init, CxxInv, VectorExact, BatchCounted
<1>2. ASSUME CxxInv, UNCHANGED CxxPool!vars
      PROVE  CxxInv'
  BY <1>2 DEF CxxPool!vars, CxxInv, CxxPool!TypeOK, CxxPool!Lock!MutexTypeOK, OneInitializes,
     VectorExact, BatchCounted
<1>3. CxxInv /\ CxxPool!Next => CxxInv'
  BY InitializeStep, StartThreadStep, TaskSteps DEF CxxPool!Next, CxxPool!Initialize
<1> QED
  BY <1>1, <1>2, <1>3, PTL DEF CxxPool!Spec

(* However many callers initialize the C++ pool at once, one batch of       *)
(* threads is started, and it is complete when any initialize has returned. *)
THEOREM OneBatchOfThreads == CxxPool!Spec => []OneBatch
<1>1. ASSUME CxxInv
      PROVE  OneBatch
  <2>1. Cardinality(m_threads) \in Nat
    BY <1>1, FS_CardinalityType DEF CxxInv, VectorExact
  <2>2. left \in Nat
    BY <1>1, SizesAssumption DEF CxxInv, CxxPool!TypeOK
  <2>3. Cardinality(m_threads) <= BatchSize
    BY <1>1, <2>1, <2>2, SizesAssumption DEF CxxInv, BatchCounted
  <2>4. CxxPool!TypeOK /\ (m_initialized => Cardinality(m_threads) = BatchSize)
    BY <1>1 DEF CxxInv, BatchCounted
  <2>5. CxxPool!Cardinality(m_threads) = Cardinality(m_threads)
    BY DEF CxxPool!Cardinality, Cardinality
  <2> QED
    BY <2>3, <2>4, <2>5 DEF OneBatch, CxxPool!OneBatch
<1> QED
  BY <1>1, CxxPoolInvariant, PTL
-----------------------------------------------------------------------------
(* Main has a job in hand while it adds it, a worker while it runs it. *)
Hands == /\ job[Main] \in Jobs <=> workPc[Main] \in {"add_lock", "add"}
         /\ \A w \in Workers : job[w] \in Jobs <=> workPc[w] = "run"

(* Workers leave only when they were told. *)
LeaveWhenTold == \A w \in Workers : terminate[w] \/ workPc[w] \in {"left", "gone"} => flagged # <<>>

JobInv == Work!JobCustody /\ Hands /\ LeaveWhenTold /\ Work!JobsHaveAWorker

(* A list with a new head: the others move up by one. *)
LEMMA ConsFacts ==
  ASSUME NEW S, NEW s \in Seq(S), NEW e \in S
  PROVE  /\ <<e>> \o s \in Seq(S)
         /\ Len(s) \in Nat /\ Len(<<e>> \o s) = Len(s) + 1
         /\ (<<e>> \o s)[1] = e
         /\ \A i \in 1..Len(s) : (<<e>> \o s)[i + 1] = s[i]
  OBVIOUS

LEMMA TailFacts ==
  ASSUME NEW S, NEW s \in Seq(S), s # <<>>
  PROVE  /\ Tail(s) \in Seq(S) /\ Head(s) \in S /\ Head(s) = s[1]
         /\ Len(s) \in Nat \ {0} /\ Len(Tail(s)) = Len(s) - 1
         /\ \A i \in 1..Len(s) - 1 : Tail(s)[i] = s[i + 1]
  OBVIOUS

LEMMA AppendFacts ==
  ASSUME NEW S, NEW s \in Seq(S), NEW e \in S
  PROVE  Append(s, e) \in Seq(S) /\ Append(s, e) # <<>>
<1>1. Append(s, e) \in Seq(S) /\ Len(Append(s, e)) = Len(s) + 1 /\ Len(s) \in Nat
  OBVIOUS
<1>2. Len(<<>>) = 0
  OBVIOUS
<1> QED
  BY <1>1, <1>2

LEMMA WorkKinds == /\ Workers \subseteq Work!Everybody /\ Main \in Work!Everybody /\ Main \notin Workers
               /\ Free \notin Work!Everybody /\ NoJob \notin Jobs /\ Workers # {}
               /\ \A t \in Work!Everybody : t = Main \/ t \in Workers
BY WorkAssumption DEF Work!Everybody

(* Every action of the work queue keeps every variable in its type. *)
LEMMA WorkTypeStep ==
  ASSUME Work!TypeOK, Hands, [Work!Next]_(Work!vars)
  PROVE  Work!TypeOK'
<1> USE WorkKinds DEF Work!TypeOK, Work!Goto, Work!WorkerPCs, Work!MainPCs, Work!Lock!MutexTypeOK, Work!Lock!Acquire, Work!Lock!Release
<1>1. CASE UNCHANGED Work!vars
  BY <1>1 DEF Work!vars
<1>2. ASSUME NEW w \in Workers,
                    Work!WorkerLock(w) \/ Work!WorkerStep(w) \/ Work!JobReturns(w) \/ Work!SpuriousWakeup(w)
      PROVE  Work!TypeOK'
  <2>1. CASE Work!WorkerTake(w)
    BY <2>1, TailFacts DEF Work!WorkerTake
  <2>2. CASE Work!JobReturns(w)
    BY <2>2 DEF Work!JobReturns
  <2>3. CASE Work!WorkerLock(w) \/ Work!WorkerWait(w) \/ Work!WorkerBreak(w) \/ Work!WorkerExit(w) \/ Work!SpuriousWakeup(w)
    BY <2>3 DEF Work!WorkerLock, Work!WorkerWait, Work!WorkerBreak, Work!WorkerExit, Work!SpuriousWakeup
  <2> QED
    BY <1>2, <2>1, <2>2, <2>3 DEF Work!WorkerStep
<1>3. CASE Work!MainStep
  <2>1. CASE Work!AddJob
    <3>1. job[Main] \in Jobs
      BY <2>1 DEF Work!AddJob, Work!AddWaking, Hands
    <3>2. waiting_jobs' \in Seq(Jobs) /\ jobs_mutex' = Free
      BY <2>1, <3>1, ConsFacts DEF Work!AddJob, Work!AddWaking
    <3>3. job' \in [Work!Everybody -> Jobs \cup {NoJob}]
      BY <2>1 DEF Work!AddJob, Work!AddWaking
    <3>4. jobStatus' \in [Jobs -> {"new", "made", "waiting", "running", "done", "dropped"}]
      BY <2>1, <3>1 DEF Work!AddJob, Work!AddWaking
    <3>5. /\ workPc' \in [Work!Everybody -> Work!WorkerPCs \cup Work!MainPCs]
          /\ workPc'[Main] \in Work!MainPCs
          /\ \A w \in Workers : workPc'[w] \in Work!WorkerPCs
      BY <2>1 DEF Work!AddJob, Work!AddWaking, Work!Waiting
    <3> QED
      BY <2>1, <3>2, <3>3, <3>4, <3>5 DEF Work!AddJob, Work!AddWaking
  <2>2. ASSUME NEW w \in Workers, Work!SetFlag(w)
        PROVE  Work!TypeOK'
    BY <2>2, AppendFacts DEF Work!SetFlag
  <2>3. CASE Work!FlagsWild \/ Work!FlagsSet
    BY <2>3 DEF Work!FlagsWild, Work!FlagsSet
  <2>4. CASE Work!Down
    BY <2>4 DEF Work!Down, Work!Waiting
  <2> QED
    BY <1>3, <2>1, <2>2, <2>3, <2>4 DEF Work!MainStep
<1>4. CASE Work!AddLock \/ Work!DownLock \/ Work!Shutdown \/ \E j \in Jobs : Work!MakeJob(j)
  BY <1>4 DEF Work!AddLock, Work!DownLock, Work!Shutdown, Work!MakeJob
<1> QED
  BY <1>1, <1>2, <1>3, <1>4 DEF Work!Next

LEMMA WorkHandsStep ==
  ASSUME Work!TypeOK, Hands, [Work!Next]_(Work!vars)
  PROVE  Hands'
<1> USE WorkKinds DEF Work!TypeOK, Hands, Work!Goto, Work!WorkerPCs, Work!MainPCs
<1>1. CASE UNCHANGED Work!vars
  BY <1>1 DEF Work!vars
<1>2. ASSUME NEW w \in Workers,
                    Work!WorkerLock(w) \/ Work!WorkerStep(w) \/ Work!JobReturns(w) \/ Work!SpuriousWakeup(w)
      PROVE  Hands'
  <2>1. CASE Work!WorkerTake(w)
    BY <2>1, TailFacts DEF Work!WorkerTake
  <2>2. CASE Work!JobReturns(w)
    BY <2>2 DEF Work!JobReturns
  <2>3. CASE Work!WorkerLock(w) \/ Work!WorkerWait(w) \/ Work!WorkerBreak(w) \/ Work!WorkerExit(w) \/ Work!SpuriousWakeup(w)
    BY <2>3 DEF Work!WorkerLock, Work!WorkerWait, Work!WorkerBreak, Work!WorkerExit, Work!SpuriousWakeup
  <2> QED
    BY <1>2, <2>1, <2>2, <2>3 DEF Work!WorkerStep
<1>3. CASE Work!MainStep
  BY <1>3 DEF Work!MainStep, Work!AddJob, Work!AddWaking, Work!Waiting, Work!SetFlag, Work!FlagsWild, Work!FlagsSet, Work!Down
<1>4. CASE Work!AddLock \/ Work!DownLock \/ Work!Shutdown \/ \E j \in Jobs : Work!MakeJob(j)
  BY <1>4 DEF Work!AddLock, Work!DownLock, Work!Shutdown, Work!MakeJob
<1> QED
  BY <1>1, <1>2, <1>3, <1>4 DEF Work!Next

LEMMA WorkToldStep ==
  ASSUME Work!TypeOK, LeaveWhenTold, [Work!Next]_(Work!vars)
  PROVE  LeaveWhenTold'
<1> USE WorkKinds DEF Work!TypeOK, LeaveWhenTold, Work!Goto, Work!WorkerPCs, Work!MainPCs
<1>1. CASE UNCHANGED Work!vars
  BY <1>1 DEF Work!vars
<1>2. ASSUME NEW w \in Workers,
                    Work!WorkerLock(w) \/ Work!WorkerStep(w) \/ Work!JobReturns(w) \/ Work!SpuriousWakeup(w)
      PROVE  LeaveWhenTold'
  BY <1>2 DEF Work!WorkerStep, Work!WorkerLock, Work!WorkerWait, Work!WorkerBreak, Work!WorkerExit, Work!WorkerTake,
              Work!JobReturns, Work!SpuriousWakeup
<1>3. CASE Work!MainStep
  <2>1. ASSUME NEW w \in Workers, Work!SetFlag(w)
        PROVE  LeaveWhenTold'
    BY <2>1, AppendFacts DEF Work!SetFlag
  <2>2. CASE Work!AddJob \/ Work!FlagsWild \/ Work!FlagsSet \/ Work!Down
    BY <2>2 DEF Work!AddJob, Work!AddWaking, Work!Waiting, Work!FlagsWild, Work!FlagsSet, Work!Down
  <2> QED
    BY <1>3, <2>1, <2>2 DEF Work!MainStep
<1>4. CASE Work!AddLock \/ Work!DownLock \/ Work!Shutdown \/ \E j \in Jobs : Work!MakeJob(j)
  BY <1>4 DEF Work!AddLock, Work!DownLock, Work!Shutdown, Work!MakeJob
<1> QED
  BY <1>1, <1>2, <1>3, <1>4 DEF Work!Next

(* A job stays in one place, or moves from one to the next. *)
LEMMA WorkCustodyStep ==
  ASSUME Work!JobCustody, Hands, [Work!Next]_(Work!vars)
  PROVE  Work!JobCustody'
<1> USE WorkKinds DEF Work!JobCustody, Work!InList, Work!Goto
<1>0. Work!TypeOK'
  BY WorkTypeStep
<1>1. CASE UNCHANGED Work!vars
  BY <1>0, <1>1 DEF Work!vars
<1>2. ASSUME NEW w \in Workers, Work!WorkerTake(w)
      PROVE  Work!JobCustody'
  <2> DEFINE h == Head(waiting_jobs)
  <2>1. waiting_jobs \in Seq(Jobs) /\ waiting_jobs # <<>> /\ waiting_jobs' = Tail(waiting_jobs)
    BY <1>2 DEF Work!WorkerTake, Work!TypeOK
  <2>2. /\ h \in Jobs /\ h = waiting_jobs[1] /\ Len(waiting_jobs) \in Nat \ {0}
        /\ Len(waiting_jobs') = Len(waiting_jobs) - 1
        /\ \A i \in 1..Len(waiting_jobs) - 1 : waiting_jobs'[i] = waiting_jobs[i + 1]
    BY <2>1, TailFacts
  <2>3. \A i, k \in 1..Len(waiting_jobs') : waiting_jobs'[i] = waiting_jobs'[k] => i = k
    BY <2>2
  <2>4. \A j \in Jobs : Work!InList(j)' <=> Work!InList(j) /\ j # h
    <3>1. ASSUME NEW j \in Jobs, Work!InList(j)'
          PROVE  Work!InList(j) /\ j # h
      <4>1. PICK i \in 1..Len(waiting_jobs') : waiting_jobs'[i] = j
        BY <3>1
      <4>2. i + 1 \in 1..Len(waiting_jobs) /\ waiting_jobs[i + 1] = j /\ i + 1 # 1
        BY <4>1, <2>2
      <4>3. 1 \in 1..Len(waiting_jobs)
        BY <2>2
      <4> QED
        BY <4>2, <4>3, <2>2
    <3>2. ASSUME NEW j \in Jobs, Work!InList(j), j # h
          PROVE  Work!InList(j)'
      <4>1. PICK i \in 1..Len(waiting_jobs) : waiting_jobs[i] = j
        BY <3>2
      <4>2. i - 1 \in 1..Len(waiting_jobs') /\ i = (i - 1) + 1 /\ i - 1 \in 1..Len(waiting_jobs) - 1
        BY <4>1, <3>2, <2>2
      <4>3. waiting_jobs'[i - 1] = waiting_jobs[(i - 1) + 1]
        BY <4>2, <2>2
      <4> QED
        BY <4>1, <4>2, <4>3
    <3> QED
      BY <3>1, <3>2
  <2>5. jobStatus[h] = "waiting"
    BY <2>2
  <2>6. job' = [job EXCEPT ![w] = h] /\ jobStatus' = [jobStatus EXCEPT ![h] = "running"]
    BY <1>2 DEF Work!WorkerTake
  <2>7. job[w] \notin Jobs
    BY <1>2 DEF Work!WorkerTake, Hands, Work!TypeOK
  <2>8. \A j \in Jobs : (jobStatus[j] = "waiting")' <=> Work!InList(j)'
    BY <2>2, <2>4, <2>6 DEF Work!TypeOK
  <2>9. \A j \in Jobs : /\ (jobStatus[j] = "made" <=> job[Main] = j)'
                        /\ (jobStatus[j] = "running" <=> \E v \in Workers : job[v] = j)'
    BY <2>2, <2>5, <2>6, <2>7 DEF Work!TypeOK
  <2>10. \A u, v \in Workers : u # v /\ job'[u] # NoJob => job'[u] # job'[v]
    BY <2>2, <2>5, <2>6 DEF Work!TypeOK
  <2> QED
    BY <1>0, <2>3, <2>8, <2>9, <2>10
<1>3. ASSUME NEW w \in Workers, Work!JobReturns(w)
      PROVE  Work!JobCustody'
  <2>1. job[w] \in Jobs /\ jobStatus[job[w]] = "running"
    BY <1>3 DEF Work!JobReturns, Hands, Work!TypeOK
  <2>2. /\ job' = [job EXCEPT ![w] = NoJob] /\ jobStatus' = [jobStatus EXCEPT ![job[w]] = "done"]
        /\ UNCHANGED waiting_jobs
    BY <1>3 DEF Work!JobReturns
  <2>3. \A j \in Jobs : /\ (jobStatus[j] = "waiting" <=> Work!InList(j))'
                        /\ (jobStatus[j] = "made" <=> job[Main] = j)'
                        /\ (jobStatus[j] = "running" <=> \E v \in Workers : job[v] = j)'
    BY <2>1, <2>2 DEF Work!TypeOK
  <2>4. \A u, v \in Workers : u # v /\ job'[u] # NoJob => job'[u] # job'[v]
    BY <2>2 DEF Work!TypeOK
  <2> QED
    BY <1>0, <2>2, <2>3, <2>4
<1>4. CASE Work!AddJob
  <2> DEFINE n == job[Main]
  <2>1. n \in Jobs /\ jobStatus[n] = "made"
    BY <1>4 DEF Work!AddJob, Work!AddWaking, Hands, Work!TypeOK
  <2>2. /\ waiting_jobs' = <<n>> \o waiting_jobs /\ jobStatus' = [jobStatus EXCEPT ![n] = "waiting"]
        /\ job' = [job EXCEPT ![Main] = NoJob]
    BY <1>4 DEF Work!AddJob, Work!AddWaking
  <2>3. /\ Len(waiting_jobs) \in Nat /\ Len(waiting_jobs') = Len(waiting_jobs) + 1
        /\ waiting_jobs'[1] = n
        /\ \A i \in 1..Len(waiting_jobs) : waiting_jobs'[i + 1] = waiting_jobs[i]
    BY <2>1, <2>2, ConsFacts DEF Work!TypeOK
  <2>4. \A i \in 1..Len(waiting_jobs) : waiting_jobs[i] # n
    BY <2>1
  <2>5. \A i \in 1..Len(waiting_jobs') : i = 1 \/ (i - 1 \in 1..Len(waiting_jobs)
                                                 /\ waiting_jobs'[i] = waiting_jobs[i - 1])
    BY <2>3
  <2>6. \A i, k \in 1..Len(waiting_jobs') : waiting_jobs'[i] = waiting_jobs'[k] => i = k
    BY <2>3, <2>4, <2>5
  <2>7. \A j \in Jobs : Work!InList(j)' <=> Work!InList(j) \/ j = n
    <3>1. \A j \in Jobs : Work!InList(j)' => Work!InList(j) \/ j = n
      BY <2>3, <2>5
    <3>2. ASSUME NEW j \in Jobs, Work!InList(j)
          PROVE  Work!InList(j)'
      <4>1. PICK i \in 1..Len(waiting_jobs) : waiting_jobs[i] = j
        BY <3>2
      <4>2. i + 1 \in 1..Len(waiting_jobs') /\ waiting_jobs'[i + 1] = j
        BY <4>1, <2>3
      <4> QED
        BY <4>2
    <3>3. 1 \in 1..Len(waiting_jobs') /\ waiting_jobs'[1] = n
      BY <2>3
    <3> QED
      BY <3>1, <3>2, <3>3
  <2>8. \A j \in Jobs : /\ (jobStatus[j] = "waiting" <=> Work!InList(j))'
                        /\ (jobStatus[j] = "made" <=> job[Main] = j)'
    BY <2>1, <2>2, <2>7 DEF Work!TypeOK
  <2>9. \A j \in Jobs : (jobStatus[j] = "running" <=> \E v \in Workers : job[v] = j)'
    BY <2>1, <2>2 DEF Work!TypeOK
  <2>10. \A u, v \in Workers : u # v /\ job'[u] # NoJob => job'[u] # job'[v]
    BY <2>2 DEF Work!TypeOK
  <2> QED
    BY <1>0, <2>6, <2>8, <2>9, <2>10
<1>5. CASE Work!Down
  <2>1. /\ waiting_jobs' = <<>> /\ UNCHANGED job
        /\ jobStatus' = [j \in Jobs |-> IF jobStatus[j] = "waiting" THEN "dropped" ELSE jobStatus[j]]
    BY <1>5 DEF Work!Down
  <2>2. Len(waiting_jobs') = 0
    BY <2>1
  <2> QED
    BY <1>0, <2>1, <2>2
<1>6. ASSUME NEW j \in Jobs, Work!MakeJob(j)
      PROVE  Work!JobCustody'
  <2>1. job[Main] \notin Jobs
    BY <1>6 DEF Work!MakeJob, Hands
  <2>2. /\ jobStatus[j] \in {"new", "done"} /\ jobStatus' = [jobStatus EXCEPT ![j] = "made"]
        /\ job' = [job EXCEPT ![Main] = j] /\ UNCHANGED waiting_jobs
    BY <1>6 DEF Work!MakeJob
  <2> QED
    BY <1>0, <2>1, <2>2 DEF Work!TypeOK
<1>7. CASE UNCHANGED <<waiting_jobs, job, jobStatus>>
  BY <1>0, <1>7
<1>8. ASSUME NEW w \in Workers, \/ Work!WorkerLock(w) \/ Work!WorkerStep(w) \/ Work!JobReturns(w)
                                       \/ Work!SpuriousWakeup(w) \/ Work!SetFlag(w)
      PROVE  Work!JobCustody'
  BY <1>2, <1>3, <1>7, <1>8 DEF Work!WorkerStep, Work!WorkerLock, Work!WorkerWait, Work!WorkerBreak, Work!WorkerExit,
     Work!SpuriousWakeup, Work!SetFlag
<1> QED
  BY <1>1, <1>4, <1>5, <1>6, <1>7, <1>8
  DEF Work!Next, Work!MainStep, Work!FlagsWild, Work!FlagsSet, Work!AddLock, Work!DownLock, Work!Shutdown

(* Main wakes a worker when it adds a job, and a worker that is awake stays  *)
(* so until it has seen an empty list.                                       *)
LEMMA WorkAwakeStep ==
  ASSUME Work!TypeOK, LeaveWhenTold, Work!JobsHaveAWorker, [Work!Next]_(Work!vars)
  PROVE  Work!JobsHaveAWorker'
<1> USE WorkKinds DEF Work!TypeOK, Work!JobsHaveAWorker, Work!Awake, Work!Goto
<1>1. CASE UNCHANGED Work!vars
  BY <1>1 DEF Work!vars
<1>2. ASSUME NEW w \in Workers,
                    Work!WorkerLock(w) \/ Work!WorkerStep(w) \/ Work!JobReturns(w) \/ Work!SpuriousWakeup(w)
      PROVE  Work!JobsHaveAWorker'
  <2>1. CASE Work!WorkerWait(w)
    BY <2>1 DEF Work!WorkerWait
  <2>2. CASE Work!WorkerBreak(w) \/ Work!WorkerExit(w)
    BY <2>2 DEF Work!WorkerBreak, Work!WorkerExit, LeaveWhenTold
  <2>3. CASE Work!WorkerTake(w)
    BY <2>3 DEF Work!WorkerTake
  <2>4. CASE Work!WorkerLock(w) \/ Work!JobReturns(w) \/ Work!SpuriousWakeup(w)
    BY <2>4 DEF Work!WorkerLock, Work!JobReturns, Work!SpuriousWakeup
  <2> QED
    BY <1>2, <2>1, <2>2, <2>3, <2>4 DEF Work!WorkerStep
<1>3. CASE Work!AddJob
  <2>1. CASE Work!Waiting = {}
    <3>1. PICK w \in Workers : TRUE
      OBVIOUS
    <3>2. flagged = <<>> => Work!Awake(w)
      BY <2>1 DEF Work!Waiting, LeaveWhenTold, Work!WorkerPCs
    <3> QED
      BY <1>3, <2>1, <3>2 DEF Work!AddJob, Work!AddWaking, Work!Waiting
  <2>2. ASSUME NEW w \in Work!Waiting, workPc' = [workPc EXCEPT ![Main] = "events", ![w] = "relock"]
        PROVE  Work!JobsHaveAWorker'
    BY <2>2 DEF Work!Waiting
  <2> QED
    BY <1>3, <2>1, <2>2 DEF Work!AddJob, Work!AddWaking
<1>4. ASSUME NEW w \in Workers, Work!SetFlag(w)
      PROVE  Work!JobsHaveAWorker'
  BY <1>4, AppendFacts DEF Work!SetFlag
<1>5. CASE Work!Down
  BY <1>5 DEF Work!Down
<1>6. CASE Work!FlagsWild \/ Work!FlagsSet \/ Work!AddLock \/ Work!DownLock \/ Work!Shutdown \/ \E j \in Jobs : Work!MakeJob(j)
  BY <1>6 DEF Work!FlagsWild, Work!FlagsSet, Work!AddLock, Work!DownLock, Work!Shutdown, Work!MakeJob
<1> QED
  BY <1>1, <1>2, <1>3, <1>4, <1>5, <1>6 DEF Work!Next, Work!MainStep

(* The inductive invariant: custody, whose hands hold a job, who may have    *)
(* left, and that a list with jobs has a worker awake.                       *)
THEOREM WorkQueueInvariant == Work!Spec => []JobInv
<1>1. Work!Init => JobInv
  <2> SUFFICES ASSUME Work!Init
               PROVE  JobInv
    OBVIOUS
  <2> USE WorkKinds DEF Work!Init
  <2>1. Work!TypeOK
    BY DEF Work!TypeOK, Work!WorkerPCs, Work!MainPCs, Work!Lock!MutexTypeOK, Work!Lock!MutexInit
  <2>2. Len(waiting_jobs) = 0
    OBVIOUS
  <2>3. Work!JobCustody
    BY <2>1, <2>2 DEF Work!JobCustody, Work!InList
  <2> QED
    BY <2>3 DEF JobInv, Hands, LeaveWhenTold, Work!JobsHaveAWorker
<1>2. JobInv /\ [Work!Next]_(Work!vars) => JobInv'
  <2> SUFFICES ASSUME JobInv, [Work!Next]_(Work!vars)
               PROVE  JobInv'
    OBVIOUS
  <2>1. Work!JobCustody /\ Work!TypeOK /\ Hands /\ LeaveWhenTold /\ Work!JobsHaveAWorker
    BY DEF JobInv, Work!JobCustody
  <2>2. Work!JobCustody'
    BY <2>1, WorkCustodyStep
  <2>3. Hands' /\ LeaveWhenTold' /\ Work!JobsHaveAWorker'
    BY <2>1, WorkHandsStep, WorkToldStep, WorkAwakeStep
  <2> QED
    BY <2>2, <2>3 DEF JobInv
<1> QED
  BY <1>1, <1>2, PTL DEF Work!Spec

(* The queue's state is of its type (workqueue_t, worker_t and job_t). *)
THEOREM WorkTypeCorrect == Work!Spec => []Work!TypeOK
<1>1. JobInv => Work!TypeOK
  BY DEF JobInv, Work!JobCustody
<1> QED
  BY <1>1, WorkQueueInvariant, PTL

(* No job is lost between workqueue_add_job and the worker that frees it,    *)
(* and none is run by two workers.                                           *)
THEOREM JobsInCustody == Work!Spec => []JobCustody
<1>1. JobInv => JobCustody
  BY DEF JobInv, JobCustody
<1> QED
  BY <1>1, WorkQueueInvariant, PTL

(* Until a shutdown begins no job is left with workers that all sleep.       *)
THEOREM NoLostWakeup == Work!Spec => []JobsHaveAWorker
<1>1. JobInv => JobsHaveAWorker
  BY DEF JobInv, JobsHaveAWorker
<1> QED
  BY <1>1, WorkQueueInvariant, PTL
=============================================================================
