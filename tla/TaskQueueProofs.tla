--------------------------- MODULE TaskQueueProofs ---------------------------
(* The linked list of thrd_pool.c is a first-in first-out queue, for any    *)
(* number of threads and of task addresses.                                 *)
EXTENDS TaskQueue, TLAPS

(* Appending to a sequence keeps what is there and adds one element. *)
LEMMA AppendFacts ==
  ASSUME NEW S, NEW s \in Seq(S), NEW e \in S
  PROVE  /\ Append(s, e) \in Seq(S)
         /\ Len(Append(s, e)) = Len(s) + 1
         /\ \A i \in 1..Len(s) : Append(s, e)[i] = s[i]
         /\ Append(s, e)[Len(s) + 1] = e
         /\ Append(s, e) # <<>>
  OBVIOUS

(* Dropping the first element moves all others down by one. *)
LEMMA TailFacts ==
  ASSUME NEW S, NEW s \in Seq(S), s # <<>>
  PROVE  /\ Tail(s) \in Seq(S)
         /\ Len(Tail(s)) = Len(s) - 1
         /\ \A i \in 1..Len(s) - 1 : Tail(s)[i] = s[i + 1]
         /\ Head(s) = s[1]
  OBVIOUS

(* The length of a sequence is a natural number, 0 for the empty one only. *)
LEMMA LenFacts ==
  ASSUME NEW S, NEW s \in Seq(S)
  PROVE  /\ Len(s) \in Nat
         /\ Len(s) = 0 <=> s = <<>>
         /\ \A i \in 1..Len(s) : s[i] \in S
  OBVIOUS
-----------------------------------------------------------------------------
ListInv == Ownership /\ ListIsFifo /\ TailIsLast /\ LocalFacts

(* Every variable keeps its type: the fifo stays a sequence of addresses,   *)
(* because only a thread at "add_link", whose task is an address, adds one. *)
LEMMA TypeStep ==
  ASSUME TypeOK, ListInv, [Next]_vars
  PROVE  TypeOK'
<1> USE FreeAssumption, AddrAssumption DEF TypeOK, MutexTypeOK, PCs, Goto, Acquire,
        Release, queueVars
<1>1. CASE UNCHANGED vars
  BY <1>1 DEF vars
<1>2. ASSUME NEW t \in Threads, Post(t)
      PROVE  TypeOK'
  <2>1. pc[t] \in {"link", "add_link"} => task[t] \in Addr
    BY DEF ListInv, Ownership, Private
  <2>2. CASE Malloc(t)
    BY <2>2 DEF Malloc
  <2>3. CASE ClearLink(t)
    BY <2>1, <2>3 DEF ClearLink
  <2>4. CASE AddLock(t)
    BY <2>4 DEF AddLock
  <2>5. CASE AddLink(t)
    <3>1. pc[t] = "add_link" /\ task[t] \in Addr
      BY <2>1, <2>5 DEF AddLink
    <3>2. fifo' \in Seq(Addr)
      BY <2>5, <3>1, AppendFacts DEF AddLink
    <3> QED
      BY <2>5, <3>1, <3>2 DEF AddLink
  <2>6. CASE AddTail(t)
    <3>1. fifo # <<>> /\ task[t] = fifo[Len(fifo)]
      BY <2>6 DEF AddTail, ListInv, TailIsLast
    <3>2. task[t] \in Addr
      BY <3>1, LenFacts
    <3> QED
      BY <2>6, <3>2 DEF AddTail
  <2>7. CASE AddUnlock(t)
    BY <2>7 DEF AddUnlock
  <2> QED
    BY <1>2, <2>2, <2>3, <2>4, <2>5, <2>6, <2>7 DEF Post
<1>3. ASSUME NEW t \in Threads, Pop(t)
      PROVE  TypeOK'
  <2>1. CASE PopLock(t)
    BY <2>1 DEF PopLock
  <2>2. CASE PopEmpty(t)
    BY <2>2 DEF PopEmpty
  <2>3. CASE PopEmptyUnlock(t)
    BY <2>3 DEF PopEmptyUnlock
  <2>4. CASE SeeNone(t)
    BY <2>4 DEF SeeNone
  <2>5. CASE PopTest(t)
    BY <2>5 DEF PopTest
  <2>6. CASE PopHead(t)
    <3>1. fifo # <<>> /\ head = task[t] /\ head \in Addr
      BY <2>6 DEF PopHead, ListInv, LocalFacts, ListIsFifo
    <3>2. fifo' \in Seq(Addr)
      BY <2>6, <3>1, TailFacts DEF PopHead
    <3> QED
      BY <2>6, <3>1, <3>2 DEF PopHead
  <2>7. CASE PopTail(t)
    BY <2>7 DEF PopTail
  <2>8. CASE PopUnlock(t)
    BY <2>8 DEF PopUnlock
  <2>9. CASE FreeTask(t)
    BY <2>9 DEF FreeTask
  <2> QED
    BY <1>3, <2>1, <2>2, <2>3, <2>4, <2>5, <2>6, <2>7, <2>8, <2>9 DEF Pop
<1> QED
  BY <1>1, <1>2, <1>3 DEF Next

(* The lock is held exactly by the thread between its Acquire and Release.  *)
LEMMA LockStep ==
  ASSUME TypeOK, LockHeld, [Next]_vars
  PROVE  LockHeld'
<1> USE FreeAssumption DEF TypeOK, MutexTypeOK, LockHeld, Locked, Goto, Acquire, Release
<1>1. CASE UNCHANGED vars
  BY <1>1 DEF vars
<1>2. ASSUME NEW t \in Threads, Post(t)
      PROVE  LockHeld'
  BY <1>2 DEF Post, Malloc, ClearLink, AddLock, AddLink, AddTail, AddUnlock
<1>3. ASSUME NEW t \in Threads, Pop(t)
      PROVE  LockHeld'
  BY <1>3 DEF Pop, PopLock, PopEmpty, PopEmptyUnlock, SeeNone, PopTest, PopHead,
              PopTail, PopUnlock, FreeTask
<1> QED
  BY <1>1, <1>2, <1>3 DEF Next

(* While a thread is between lock and unlock, no other one is. *)
LEMMA OneInside ==
  ASSUME LockHeld, NEW t \in Threads, NEW u \in Threads,
         pc[t] \in Locked, pc[u] \in Locked
  PROVE  t = u
  BY DEF LockHeld
-----------------------------------------------------------------------------
(* Malloc hands out memory that nobody uses. *)
LEMMA MallocStep ==
  ASSUME TypeOK, LockHeld, ListInv, NEW t \in Threads, Malloc(t)
  PROVE  ListInv'
<1> USE DEF TypeOK, ListInv, Malloc, Goto, queueVars
<1>1. PICK a \in Addr \ live : live' = live \cup {a} /\ task' = [task EXCEPT ![t] = a]
  OBVIOUS
<1>2. ~InFifo(a)
  BY DEF Ownership, InFifo
<1>3. Ownership'
  BY <1>1, <1>2 DEF Ownership, Private, InFifo
<1>4. ListIsFifo'
  BY DEF ListIsFifo
<1>5. TailIsLast'
  BY <1>1 DEF TailIsLast, LastLink
<1>6. LocalFacts'
  BY <1>1 DEF LocalFacts
<1> QED
  BY <1>3, <1>4, <1>5, <1>6

(* Writing the link of a task nobody else knows of disturbs no link of the  *)
(* list and no other thread's task.                                         *)
LEMMA PrivateWriteStep ==
  ASSUME TypeOK, LockHeld, ListInv, NEW t \in Threads, ClearLink(t) \/ FreeTask(t)
  PROVE  ListInv'
<1> USE DEF TypeOK, ListInv, Goto
<1>1. /\ pc[t] \in {"link", "pop_free"} /\ Private(t)
      /\ task[t] \in Addr /\ ~InFifo(task[t])
  BY DEF ClearLink, FreeTask, Ownership, Private
<1>2. \A b \in Addr : b # task[t] => next'[b] = next[b]
  BY DEF ClearLink, FreeTask
<1>3. Ownership'
  <2>1. CASE ClearLink(t)
    <3>1. live' = live /\ task' = task /\ fifo' = fifo
      BY <2>1 DEF ClearLink
    <3>2. \A u \in Threads : Private(u)' => Private(u)
      BY <2>1 DEF ClearLink, Private
    <3> QED
      BY <3>1, <3>2 DEF Ownership, InFifo
  <2>2. CASE FreeTask(t)
    BY <1>1, <2>2 DEF FreeTask, Ownership, Private, InFifo
  <2> QED
    BY <2>1, <2>2
<1>4. ListIsFifo'
  <2>1. head' = head /\ fifo' = fifo
    BY DEF ClearLink, FreeTask
  <2>2. \A i \in 1..Len(fifo) : next'[fifo[i]] = next[fifo[i]]
    BY <1>1, <1>2, LenFacts DEF InFifo
  <2>3. Len(fifo) \in Nat /\ (fifo # <<>> => Len(fifo) \in 1..Len(fifo))
    BY LenFacts
  <2> QED
    BY <2>1, <2>2, <2>3 DEF ListIsFifo
<1>5. TailIsLast'
  BY <1>1 DEF TailIsLast, LastLink, ClearLink, FreeTask
<1>6. LocalFacts'
  <2>1. \A u \in Threads : u # t /\ Private(u) => next'[task[u]] = next[task[u]]
    BY <1>1, <1>2 DEF Ownership
  <2>2. CASE ClearLink(t)
    <3>1. /\ next'[task[t]] = Null /\ task' = task /\ head' = head /\ fifo' = fifo
          /\ pc' = [pc EXCEPT ![t] = "add_lock"]
      BY <1>1, <2>2 DEF ClearLink
    <3> SUFFICES ASSUME NEW u \in Threads
                 PROVE  /\ pc'[u] \in {"add_lock", "add_link"} => next'[task[u]] = Null
                        /\ pc'[u] = "pop_head" => head = task[u] /\ fifo # <<>>
      BY <3>1 DEF LocalFacts
    <3>2. CASE u = t
      BY <3>1, <3>2
    <3>3. CASE u # t
      BY <2>1, <3>1, <3>3 DEF LocalFacts, Private
    <3> QED
      BY <3>2, <3>3
  <2>3. CASE FreeTask(t)
    BY <2>1, <2>3 DEF FreeTask, LocalFacts, Private
  <2> QED
    BY <2>2, <2>3
<1> QED
  BY <1>3, <1>4, <1>5, <1>6

(* Taking and leaving the lock, and reading head, change no link and hand   *)
(* no task from one thread to another.                                      *)
LEMMA QuietStep ==
  ASSUME TypeOK, LockHeld, ListInv, NEW t \in Threads,
         \/ AddLock(t) \/ AddUnlock(t) \/ PopLock(t) \/ PopEmpty(t)
         \/ PopEmptyUnlock(t) \/ SeeNone(t) \/ PopTest(t) \/ PopUnlock(t)
  PROVE  ListInv'
<1> USE DEF TypeOK, ListInv, Goto, queueVars, AddLock, AddUnlock, PopLock, PopEmpty,
            PopEmptyUnlock, SeeNone, PopTest, PopUnlock
<1>1. Ownership'
  BY DEF Ownership, Private, InFifo
<1>2. ListIsFifo'
  BY DEF ListIsFifo
<1>3. TailIsLast'
  BY DEF TailIsLast, LastLink
<1>4. LocalFacts'
  BY DEF LocalFacts, ListIsFifo
<1> QED
  BY <1>1, <1>2, <1>3, <1>4

(* *tail = link appends the task to the list: the old last link, or head,   *)
(* now leads to it, and its own link is still NULL.                         *)
LEMMA AddLinkStep ==
  ASSUME TypeOK, LockHeld, ListInv, NEW t \in Threads, AddLink(t)
  PROVE  ListInv'
<1> USE DEF TypeOK, ListInv, Goto
<1> DEFINE n == Len(fifo)
<1>1. /\ pc[t] = "add_link" /\ Private(t) /\ task[t] \in Addr /\ task[t] \in live
      /\ ~InFifo(task[t]) /\ next[task[t]] = Null
  BY DEF AddLink, Ownership, Private, LocalFacts
<1>2. \A u \in Threads : u # t => pc[u] \notin Locked /\ pc'[u] = pc[u]
  BY <1>1, OneInside DEF Locked, AddLink
<1>3. tail = LastLink
  BY <1>1, <1>2 DEF TailIsLast, Locked
<1>4. /\ fifo' \in Seq(Addr) /\ fifo' # <<>>
      /\ n \in Nat /\ Len(fifo') = n + 1
      /\ \A i \in 1..n : fifo'[i] = fifo[i]
      /\ fifo'[n + 1] = task[t]
  BY <1>1, AppendFacts, LenFacts DEF AddLink
<1>5. /\ n = 0 <=> fifo = <<>>
      /\ \A i \in 1..n : fifo[i] \in Addr /\ fifo[i] # task[t]
  BY <1>1, LenFacts DEF InFifo
<1>6. pc'[t] = "add_tail" /\ task' = task /\ live' = live /\ tail' = tail
  BY DEF AddLink
<1>7. Ownership'
  <2>1. \A u \in Threads : Private(u)' => u # t /\ Private(u)
    BY <1>2, <1>6 DEF Private
  <2>2. \A u \in Threads : Private(u)' => task[u] # task[t] /\ ~InFifo(task[u])
    BY <1>1, <2>1 DEF Ownership
  <2>3. \A u \in Threads : Private(u)' => task[u] \in live /\ ~InFifo(task[u])'
    <3> SUFFICES ASSUME NEW u \in Threads, Private(u)', NEW i \in 1..n + 1
                 PROVE  task[u] \in live /\ fifo'[i] # task[u]
      BY <1>4, <1>6 DEF InFifo
    <3>1. CASE i = n + 1
      BY <1>4, <2>1, <2>2, <3>1 DEF Ownership
    <3>2. CASE i # n + 1
      BY <1>4, <2>1, <2>2, <3>2 DEF Ownership, InFifo
    <3> QED
      BY <3>1, <3>2
  <2>4. \A u, v \in Threads : Private(u)' /\ Private(v)' /\ u # v => task[u] # task[v]
    BY <2>1 DEF Ownership
  <2>5. \A i \in 1..n + 1 : fifo'[i] \in live
    <3> SUFFICES ASSUME NEW i \in 1..n + 1 PROVE fifo'[i] \in live
      OBVIOUS
    <3>1. CASE i = n + 1
      BY <1>1, <1>4, <3>1
    <3>2. CASE i # n + 1
      BY <1>4, <3>2 DEF Ownership
    <3> QED
      BY <3>1, <3>2
  <2>6. \A i, j \in 1..n + 1 : fifo'[i] = fifo'[j] => i = j
    <3> SUFFICES ASSUME NEW i \in 1..n + 1, NEW j \in 1..n + 1, i < j
                 PROVE  fifo'[i] # fifo'[j]
      BY <1>4
    <3>1. i \in 1..n
      BY <1>4
    <3>2. CASE j = n + 1
      BY <1>4, <1>5, <3>1, <3>2
    <3>3. CASE j # n + 1
      BY <1>4, <3>1, <3>3 DEF Ownership
    <3> QED
      BY <3>2, <3>3
  <2> QED
    BY <1>4, <1>6, <2>3, <2>4, <2>5, <2>6 DEF Ownership
<1>8. ListIsFifo'
  <2>1. CASE tail = HeadLink
    <3>1. fifo = <<>> /\ n = 0
      BY <1>3, <1>4, <1>5, <2>1, AddrAssumption DEF LastLink
    <3>2. head' = task[t] /\ next' = next
      BY <2>1 DEF AddLink
    <3> QED
      BY <1>1, <1>4, <3>1, <3>2, AddrAssumption DEF ListIsFifo
  <2>2. CASE tail # HeadLink
    <3>1. fifo # <<>> /\ n \in 1..n /\ tail = fifo[n] /\ tail # task[t]
      BY <1>3, <1>4, <1>5, <2>2 DEF LastLink
    <3>2. head' = head /\ next' = [next EXCEPT ![tail] = task[t]]
      BY <2>2 DEF AddLink
    <3>3. \A i \in 1..n : i # n => next'[fifo[i]] = fifo[i + 1]
      <4> SUFFICES ASSUME NEW i \in 1..n, i # n
                   PROVE  next'[fifo[i]] = fifo[i + 1]
        OBVIOUS
      <4>1. fifo[i] # tail /\ fifo[i] \in Addr
        BY <1>5, <3>1 DEF Ownership
      <4>2. next[fifo[i]] = fifo[i + 1]
        BY <1>4 DEF ListIsFifo
      <4> QED
        BY <3>2, <4>1, <4>2
    <3>4. next'[fifo[n]] = task[t] /\ next'[task[t]] = Null
      BY <1>1, <1>5, <3>1, <3>2
    <3>5. \A i \in 1..n : next'[fifo'[i]] = fifo'[i + 1]
      <4> SUFFICES ASSUME NEW i \in 1..n PROVE next'[fifo'[i]] = fifo'[i + 1]
        OBVIOUS
      <4>1. CASE i = n
        BY <1>4, <3>4, <4>1
      <4>2. CASE i # n
        <5>1. i + 1 \in 1..n
          BY <1>4, <4>2
        <5> QED
          BY <1>4, <3>3, <4>2, <5>1
      <4> QED
        BY <4>1, <4>2
    <3>6. fifo'[1] = fifo[1] /\ head = fifo[1] /\ head # Null
      BY <1>4, <3>1 DEF ListIsFifo
    <3> QED
      BY <1>4, <3>2, <3>4, <3>5, <3>6 DEF ListIsFifo
  <2> QED
    BY <2>1, <2>2
<1>9. TailIsLast'
  <2>1. tail = IF n + 1 = 1 THEN HeadLink ELSE fifo'[n]
    BY <1>3, <1>4, <1>5 DEF LastLink
  <2> QED
    BY <1>2, <1>4, <1>6, <2>1 DEF TailIsLast, Locked
<1>10. LocalFacts'
  <2> SUFFICES ASSUME NEW u \in Threads, pc'[u] \in {"add_lock", "add_link"}
               PROVE  next'[task[u]] = Null
    BY <1>2, <1>6 DEF LocalFacts, Locked
  <2>1. u # t /\ pc[u] = "add_lock" /\ Private(u)
    BY <1>2, <1>6 DEF Locked, Private
  <2>2. task[u] # tail /\ next[task[u]] = Null
    <3>1. task[u] \in Addr /\ ~InFifo(task[u]) /\ next[task[u]] = Null
      BY <2>1 DEF Ownership, LocalFacts
    <3>2. tail = HeadLink \/ InFifo(tail)
      BY <1>3, <1>4, <1>5 DEF LastLink, InFifo
    <3> QED
      BY <3>1, <3>2, AddrAssumption
  <2>3. CASE tail = HeadLink
    BY <2>2, <2>3 DEF AddLink
  <2>4. CASE tail # HeadLink
    <3>1. next' = [next EXCEPT ![tail] = task[t]] /\ task[u] \in Addr
      BY <2>1, <2>4 DEF AddLink, Ownership
    <3> QED
      BY <2>2, <3>1
  <2> QED
    BY <2>3, <2>4
<1> QED
  BY <1>7, <1>8, <1>9, <1>10

(* tail = link makes up for what tail lagged behind. *)
LEMMA AddTailStep ==
  ASSUME TypeOK, LockHeld, ListInv, NEW t \in Threads, AddTail(t)
  PROVE  ListInv'
<1> USE DEF TypeOK, ListInv, AddTail, Goto
<1>1. /\ fifo # <<>> /\ task[t] = fifo[Len(fifo)]
      /\ \A u \in Threads : u # t => pc[u] \notin Locked /\ pc'[u] = pc[u]
  BY OneInside DEF TailIsLast, Locked
<1>2. Ownership'
  BY DEF Ownership, Private, InFifo
<1>3. ListIsFifo'
  BY DEF ListIsFifo
<1>4. TailIsLast'
  BY <1>1 DEF TailIsLast, LastLink, Locked
<1>5. LocalFacts'
  BY DEF LocalFacts
<1> QED
  BY <1>2, <1>3, <1>4, <1>5

(* head = task->next takes the first task out of the list. *)
LEMMA PopHeadStep ==
  ASSUME TypeOK, LockHeld, ListInv, NEW t \in Threads, PopHead(t)
  PROVE  ListInv'
<1> USE DEF TypeOK, ListInv, PopHead, Goto
<1> DEFINE n == Len(fifo)
<1>1. /\ pc[t] = "pop_head" /\ fifo # <<>> /\ head = task[t] /\ task[t] = fifo[1]
      /\ task' = task /\ live' = live /\ next' = next /\ tail' = tail
  BY DEF LocalFacts, ListIsFifo
<1>2. \A u \in Threads : u # t => pc[u] \notin Locked /\ pc'[u] = pc[u]
  BY OneInside DEF Locked
<1>3. /\ n \in Nat \ {0} /\ fifo' \in Seq(Addr) /\ Len(fifo') = n - 1
      /\ \A i \in 1..n - 1 : fifo'[i] = fifo[i + 1]
      /\ fifo' = <<>> <=> n = 1
  <2>1. /\ n \in Nat \ {0} /\ fifo' \in Seq(Addr) /\ Len(fifo') = n - 1
        /\ \A i \in 1..n - 1 : fifo'[i] = fifo[i + 1]
    BY <1>1, TailFacts, LenFacts
  <2>2. Len(fifo') = 0 <=> fifo' = <<>>
    BY <2>1, LenFacts
  <2> QED
    BY <2>1, <2>2
<1>4. tail = fifo[n]
  BY <1>1, <1>2 DEF TailIsLast, LastLink, Locked
<1>5. Ownership'
  <2>1. \A u \in Threads : u # t /\ Private(u)' => Private(u)
    BY <1>2 DEF Private
  <2>2. \A a \in Addr : InFifo(a)' => InFifo(a)
    BY <1>3 DEF InFifo
  <2>3. \A i \in 1..n - 1 : fifo'[i] # fifo[1]
    BY <1>3 DEF Ownership
  <2>4. ~InFifo(task[t])'
    BY <1>1, <1>3, <2>3 DEF InFifo
  <2>5. InFifo(task[t]) /\ task[t] \in live
    BY <1>1, <1>3 DEF InFifo, Ownership
  <2>6. \A u \in Threads : Private(u)' => task[u] \in live /\ ~InFifo(task[u])'
    <3> SUFFICES ASSUME NEW u \in Threads, Private(u)'
                 PROVE  task[u] \in live /\ ~InFifo(task[u])'
      OBVIOUS
    <3>1. CASE u = t
      BY <2>4, <2>5, <3>1
    <3>2. CASE u # t
      <4>1. task[u] \in live /\ ~InFifo(task[u])
        BY <2>1, <3>2 DEF Ownership
      <4> QED
        BY <1>1, <2>2, <4>1
    <3> QED
      BY <3>1, <3>2
  <2>7. \A u, v \in Threads : Private(u)' /\ Private(v)' /\ u # v => task[u] # task[v]
    <3>1. \A u \in Threads : u # t /\ Private(u) => task[u] # task[t]
      BY <2>5 DEF Ownership
    <3> QED
      BY <2>1, <3>1 DEF Ownership
  <2>8. \A i \in 1..n - 1 : fifo'[i] \in live
    BY <1>3 DEF Ownership
  <2>9. \A i, j \in 1..n - 1 : fifo'[i] = fifo'[j] => i = j
    <3> SUFFICES ASSUME NEW i \in 1..n - 1, NEW j \in 1..n - 1, fifo'[i] = fifo'[j]
                 PROVE  i = j
      OBVIOUS
    <3>1. fifo[i + 1] = fifo[j + 1] /\ i + 1 \in 1..n /\ j + 1 \in 1..n
      BY <1>3
    <3> QED
      BY <3>1 DEF Ownership
  <2> QED
    BY <1>1, <1>3, <2>6, <2>7, <2>8, <2>9 DEF Ownership
<1>6. ListIsFifo'
  <2>1. CASE n = 1
    BY <1>1, <1>3, <2>1 DEF ListIsFifo
  <2>2. CASE n # 1
    <3>1. head' = fifo[2] /\ fifo'[1] = fifo[2] /\ fifo[2] \in Addr
      BY <1>1, <1>3, <2>2, LenFacts DEF ListIsFifo
    <3>2. next[fifo'[n - 1]] = Null
      BY <1>1, <1>3, <2>2 DEF ListIsFifo
    <3>3. \A i \in 1..n - 2 : next[fifo'[i]] = fifo'[i + 1]
      <4> SUFFICES ASSUME NEW i \in 1..n - 2
                   PROVE  next[fifo'[i]] = fifo'[i + 1]
        OBVIOUS
      <4>1. i \in 1..n - 1 /\ i + 1 \in 1..n - 1
        BY <1>3
      <4>2. next[fifo[i + 1]] = fifo[i + 1 + 1]
        BY <4>1 DEF ListIsFifo
      <4> QED
        BY <1>3, <4>1, <4>2
    <3> QED
      BY <1>1, <1>3, <2>2, <3>1, <3>2, <3>3, AddrAssumption DEF ListIsFifo
  <2> QED
    BY <2>1, <2>2
<1>7. TailIsLast'
  <2>1. tail = IF fifo' = <<>> THEN task[t] ELSE fifo'[n - 1]
    BY <1>1, <1>3, <1>4
  <2> QED
    BY <1>1, <1>2, <1>3, <2>1 DEF TailIsLast, Locked
<1>8. LocalFacts'
  BY <1>1, <1>2 DEF LocalFacts, Locked
<1> QED
  BY <1>5, <1>6, <1>7, <1>8

(* After a pop tail is &queue->head again if the list became empty, and it  *)
(* never goes on pointing into the task that is about to be freed.          *)
LEMMA PopTailStep ==
  ASSUME TypeOK, LockHeld, ListInv, NEW t \in Threads, PopTail(t)
  PROVE  ListInv'
<1> USE DEF TypeOK, ListInv, PopTail, Goto
<1>1. \A u \in Threads : u # t => pc[u] \notin Locked /\ pc'[u] = pc[u]
  BY OneInside DEF Locked
<1>2. tail' = LastLink
  BY DEF TailIsLast, LastLink, ListIsFifo
<1>3. Ownership'
  BY DEF Ownership, Private, InFifo
<1>4. ListIsFifo'
  BY DEF ListIsFifo
<1>5. TailIsLast'
  BY <1>1, <1>2 DEF TailIsLast, LastLink, Locked
<1>6. LocalFacts'
  BY DEF LocalFacts
<1> QED
  BY <1>3, <1>4, <1>5, <1>6
-----------------------------------------------------------------------------
(* QueueInv holds in every state of every execution: whoever holds the lock *)
(* is alone in it, every task has one owner, and the links spell the fifo.  *)
THEOREM QueueInvariant == Spec => []QueueInv
<1>1. Init => QueueInv
  BY FreeAssumption, AddrAssumption
  DEF Init, MutexInit, QueueInv, TypeOK, MutexTypeOK, PCs, LockHeld, Locked, Ownership,
      Private, InFifo, ListIsFifo, TailIsLast, LastLink, LocalFacts
<1>2. QueueInv /\ [Next]_vars => QueueInv'
  <2> SUFFICES ASSUME QueueInv, [Next]_vars PROVE QueueInv'
    OBVIOUS
  <2>1. TypeOK /\ LockHeld /\ ListInv
    BY DEF QueueInv, ListInv
  <2>2. TypeOK' /\ LockHeld'
    BY <2>1, TypeStep, LockStep
  <2>3. ASSUME UNCHANGED vars PROVE ListInv'
    <3> USE <2>3 DEF vars
    <3>1. Ownership'
      BY <2>1 DEF ListInv, Ownership, Private, InFifo
    <3>2. ListIsFifo'
      BY <2>1 DEF ListInv, ListIsFifo
    <3>3. TailIsLast'
      BY <2>1 DEF ListInv, TailIsLast, LastLink
    <3>4. LocalFacts'
      BY <2>1 DEF ListInv, LocalFacts
    <3> QED
      BY <3>1, <3>2, <3>3, <3>4 DEF ListInv
  <2>4. ASSUME NEW t \in Threads, Post(t) PROVE ListInv'
    BY <2>1, <2>4, MallocStep, PrivateWriteStep, QuietStep, AddLinkStep, AddTailStep
    DEF Post
  <2>5. ASSUME NEW t \in Threads, Pop(t) PROVE ListInv'
    BY <2>1, <2>5, PrivateWriteStep, QuietStep, PopHeadStep, PopTailStep DEF Pop
  <2>6. ListInv'
    <3>1. CASE Next
      BY <2>4, <2>5, <3>1 DEF Next
    <3>2. CASE UNCHANGED vars
      BY <2>3, <3>2
    <3> QED
      BY <3>1, <3>2
  <2> QED
    BY <2>2, <2>6 DEF QueueInv, ListInv
<1> QED
  BY <1>1, <1>2, PTL DEF Spec

(* Spec keeps every variable in its type. *)
COROLLARY TypeCorrect == Spec => []TypeOK
<1>1. QueueInv => TypeOK
  BY DEF QueueInv
<1> QED
  BY <1>1, QueueInvariant, PTL

(* No link of a freed task is read or written, by any number of threads. *)
COROLLARY MemorySafe == Spec => []NoUseAfterFree
<1>1. QueueInv => NoUseAfterFree
  <2> SUFFICES ASSUME QueueInv, NEW t \in Threads
               PROVE  /\ pc[t] = "add_link" => tail \in live \cup {HeadLink}
                      /\ pc[t] \in {"link", "pop_head", "pop_free"} => task[t] \in live
    BY DEF NoUseAfterFree
  <2> USE DEF QueueInv, TypeOK
  <2>1. fifo # <<>> => Len(fifo) \in 1..Len(fifo) /\ 1 \in 1..Len(fifo)
    BY LenFacts
  <2>2. CASE pc[t] = "add_link"
    <3>1. \A u \in Threads : pc[u] \notin {"add_tail", "pop_tail"}
      BY <2>2, OneInside DEF Locked
    <3>2. tail = LastLink
      BY <3>1 DEF TailIsLast
    <3> QED
      BY <2>1, <2>2, <3>2 DEF LastLink, Ownership
  <2>3. CASE pc[t] \in {"link", "pop_free"}
    BY <2>3 DEF Ownership, Private
  <2>4. CASE pc[t] = "pop_head"
    BY <2>1, <2>4 DEF LocalFacts, ListIsFifo, Ownership
  <2> QED
    BY <2>2, <2>3, <2>4
<1> QED
  BY <1>1, QueueInvariant, PTL
-----------------------------------------------------------------------------
(* A thread's step changes what that thread has popped and nothing of the   *)
(* others'.                                                                  *)
LEMMA PoppedStep ==
  ASSUME TypeOK, TypeOK', NEW t \in Threads, NEW l, pc' = [pc EXCEPT ![t] = l],
         \A u \in Threads : u # t => task'[u] = task[u]
  PROVE  /\ l \in {"pop_tail", "pop_unlock", "pop_free"} =>
                  Popped' = [Popped EXCEPT ![t] = task'[t]]
         /\ l \in {"pop_none", "none"} => Popped' = [Popped EXCEPT ![t] = Null]
         /\ l \notin {"pop_tail", "pop_unlock", "pop_free", "pop_none", "none"} =>
                  Popped' = [Popped EXCEPT ![t] = Nothing]
<1> USE DEF TypeOK
<1>1. \A u \in Threads : u # t => Popped'[u] = Popped[u]
  BY DEF Popped
<1>2. /\ Popped = [u \in Threads |-> Popped[u]]
      /\ Popped' = [u \in Threads |-> Popped'[u]]
  BY DEF Popped
<1>3. /\ l \in {"pop_tail", "pop_unlock", "pop_free"} => Popped'[t] = task'[t]
      /\ l \in {"pop_none", "none"} => Popped'[t] = Null
      /\ l \notin {"pop_tail", "pop_unlock", "pop_free", "pop_none", "none"} =>
             Popped'[t] = Nothing
  BY DEF Popped
<1> QED
  BY <1>1, <1>2, <1>3

(* A step whose thread has popped after it what it had popped before, and   *)
(* that leaves the fifo alone, is invisible.                                *)
LEMMA InvisibleStep ==
  ASSUME TypeOK, TypeOK', NEW t \in Threads,
         \/ Malloc(t) \/ ClearLink(t) \/ AddLock(t) \/ AddTail(t) \/ AddUnlock(t)
         \/ PopLock(t) \/ PopTest(t) \/ PopEmptyUnlock(t) \/ PopTail(t) \/ PopUnlock(t)
  PROVE  UNCHANGED <<fifo, Popped>>
<1> USE DEF TypeOK, Goto, queueVars
<1>1. /\ fifo' = fifo
      /\ \A u \in Threads : u # t => task'[u] = task[u] /\ pc'[u] = pc[u]
  BY DEF Malloc, ClearLink, AddLock, AddTail, AddUnlock, PopLock, PopTest,
         PopEmptyUnlock, PopTail, PopUnlock
<1>2. \A u \in Threads : u # t => Popped'[u] = Popped[u]
  BY <1>1 DEF Popped
<1>3. Popped'[t] = Popped[t]
  <2>1. CASE \/ Malloc(t) \/ ClearLink(t) \/ AddLock(t) \/ AddTail(t) \/ AddUnlock(t)
             \/ PopLock(t) \/ PopTest(t)
    BY <2>1 DEF Popped, Malloc, ClearLink, AddLock, AddTail, AddUnlock, PopLock, PopTest
  <2>2. CASE PopEmptyUnlock(t) \/ PopTail(t) \/ PopUnlock(t)
    BY <2>2 DEF Popped, PopEmptyUnlock, PopTail, PopUnlock
  <2> QED
    BY <2>1, <2>2
<1>4. /\ Popped = [u \in Threads |-> Popped[u]]
      /\ Popped' = [u \in Threads |-> Popped'[u]]
  BY DEF Popped
<1> QED
  BY <1>1, <1>2, <1>3, <1>4

(* Every step of the linked list is a step of the queue, or invisible: the  *)
(* write of *tail pushes, the write of head takes, the read of a NULL head  *)
(* finds nothing, and the thread forgets what it popped when it is done.    *)
LEMMA FifoStep ==
  ASSUME QueueInv, QueueInv', [Next]_vars
  PROVE  [Abstract!FifoNext]_<<fifo, Popped>>
<1> USE DEF QueueInv
<1>1. ASSUME NEW t \in Threads, AddLink(t)
      PROVE  Abstract!Push(task[t]) /\ task[t] \in Addr
  <2>1. /\ pc[t] = "add_link" /\ pc' = [pc EXCEPT ![t] = "add_tail"] /\ task' = task
        /\ fifo' = Append(fifo, task[t])
    BY <1>1 DEF AddLink, Goto
  <2>2. Popped' = [Popped EXCEPT ![t] = Nothing] /\ Popped[t] = Nothing
    BY <2>1, PoppedStep DEF Popped
  <2>3. Popped' = Popped
    BY <2>2 DEF Popped
  <2>4. task[t] \in Addr
    BY <2>1 DEF Ownership, Private, TypeOK
  <2> QED
    BY <2>1, <2>3, <2>4 DEF Abstract!Push
<1>2. ASSUME NEW t \in Threads, PopHead(t)
      PROVE  Abstract!Take(t)
  <2>1. /\ pc[t] = "pop_head" /\ pc' = [pc EXCEPT ![t] = "pop_tail"] /\ task' = task
        /\ fifo' = Tail(fifo)
    BY <1>2 DEF PopHead, Goto
  <2>2. fifo # <<>> /\ task[t] = Head(fifo)
    BY <2>1, TailFacts DEF LocalFacts, ListIsFifo, TypeOK
  <2>3. Popped' = [Popped EXCEPT ![t] = task'[t]]
    BY <2>1, PoppedStep
  <2> QED
    BY <2>1, <2>2, <2>3 DEF Abstract!Take
<1>3. ASSUME NEW t \in Threads, PopEmpty(t)
      PROVE  Abstract!TakeNothing(t)
  <2>1. /\ pc' = [pc EXCEPT ![t] = "pop_none"] /\ task' = task
        /\ fifo' = fifo /\ fifo = <<>>
    BY <1>3 DEF PopEmpty, Goto, ListIsFifo, queueVars
  <2>2. Popped' = [Popped EXCEPT ![t] = Null]
    BY <2>1, PoppedStep
  <2> QED
    BY <2>1, <2>2 DEF Abstract!TakeNothing
<1>4. ASSUME NEW t \in Threads, SeeNone(t) \/ FreeTask(t)
      PROVE  Abstract!Forget(t)
  <2>1. /\ pc' = [pc EXCEPT ![t] = "idle"] /\ fifo' = fifo
        /\ \A u \in Threads : u # t => task'[u] = task[u]
    BY <1>4 DEF SeeNone, FreeTask, Goto, queueVars, TypeOK
  <2>2. "idle" \notin {"pop_tail", "pop_unlock", "pop_free", "pop_none", "none"}
    OBVIOUS
  <2>3. Popped' = [Popped EXCEPT ![t] = Nothing]
    BY <2>1, <2>2, PoppedStep, Zenon
  <2> QED
    BY <2>1, <2>3 DEF Abstract!Forget
<1>5. CASE UNCHANGED vars
  BY <1>5 DEF vars, Popped
<1>6. ASSUME NEW t \in Threads, Post(t)
      PROVE  Abstract!FifoNext \/ UNCHANGED <<fifo, Popped>>
  <2>1. CASE AddLink(t)
    BY <1>1, <2>1 DEF Abstract!FifoNext
  <2>2. CASE ~AddLink(t)
    BY <1>6, <2>2, InvisibleStep DEF Post
  <2> QED
    BY <2>1, <2>2
<1>7. ASSUME NEW t \in Threads, Pop(t)
      PROVE  Abstract!FifoNext \/ UNCHANGED <<fifo, Popped>>
  <2>1. CASE PopHead(t) \/ PopEmpty(t) \/ SeeNone(t) \/ FreeTask(t)
    BY <1>2, <1>3, <1>4, <2>1 DEF Abstract!FifoNext
  <2>2. CASE ~(PopHead(t) \/ PopEmpty(t) \/ SeeNone(t) \/ FreeTask(t))
    BY <1>7, <2>2, InvisibleStep DEF Pop
  <2> QED
    BY <2>1, <2>2
<1> QED
  BY <1>5, <1>6, <1>7 DEF Next

(* thrd_pool.c's linked list is a first-in first-out queue. *)
THEOREM ListImplementsFifo == Spec => ImplementsFifo
<1>1. Init => Abstract!FifoInit
  BY DEF Init, Abstract!FifoInit, Popped
<1>2. QueueInv /\ QueueInv' /\ [Next]_vars => [Abstract!FifoNext]_<<fifo, Popped>>
  BY FifoStep
<1> QED
  BY <1>1, <1>2, QueueInvariant, PTL
  DEF Spec, ImplementsFifo, Abstract!FifoSpec, Abstract!fifoVars
=============================================================================
