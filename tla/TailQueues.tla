----------------------------- MODULE TailQueues ------------------------------
(***************************************************************************)
(* nty_queue.h: two tail queues, as the scheduler's ready and defer, that  *)
(* share their elements, through every sequence of the macros.             *)
(***************************************************************************)
EXTENDS Naturals, Sequences, SequencesExt

CONSTANTS Heads, Elems, Nil

VARIABLES q,      \* the links
          order   \* history: the elements of each queue, in order

T == INSTANCE TailQueue

vars == <<q, order>>

Init == q = T!NoQueues /\ order = [h \in Heads |-> <<>>]

In(h)  == {order[h][i] : i \in 1..Len(order[h])}
Out    == Elems \ UNION {In(h) : h \in Heads}
At(h, e) == CHOOSE i \in 1..Len(order[h]) : order[h][i] = e

InsertHead(h, e) == q' = T!InsertHead(q, h, e) /\ order' = [order EXCEPT ![h] = <<e>> \o @]

InsertTail(h, e) == q' = T!InsertTail(q, h, e) /\ order' = [order EXCEPT ![h] = Append(@, e)]

InsertAfter(h, at, e) == /\ q' = T!InsertAfter(q, h, at, e)
                         /\ order' = [order EXCEPT ![h] = InsertAt(@, At(h, at) + 1, e)]

InsertBefore(h, at, e) == /\ q' = T!InsertBefore(q, at, e)
                          /\ order' = [order EXCEPT ![h] = InsertAt(@, At(h, at), e)]

TakeOut(h, e) == /\ q' = T!Remove(q, h, e)
                /\ order' = [order EXCEPT ![h] = RemoveAt(@, At(h, e))]

Concat(h, other) == /\ q' = T!Concat(q, h, other)
                    /\ order' = [order EXCEPT ![h] = @ \o order[other], ![other] = <<>>]

Swap(h, other) == /\ q' = T!Swap(q, h, other)
                  /\ order' = [order EXCEPT ![h] = order[other], ![other] = order[h]]

Next == \/ \E h \in Heads, e \in Out :
              \/ InsertHead(h, e) \/ InsertTail(h, e)
              \/ \E at \in In(h) : InsertAfter(h, at, e) \/ InsertBefore(h, at, e)
        \/ \E h \in Heads : \E e \in In(h) : TakeOut(h, e)
        \/ \E h, other \in Heads : h # other /\ (Concat(h, other) \/ Swap(h, other))

Spec == Init /\ [][Next]_vars
-----------------------------------------------------------------------------
(* Walked along its links a queue has its elements in order, and walked    *)
(* back from TAILQ_LAST with TAILQ_PREV, which read a link as a head, in   *)
(* reverse; no element is lost or in both.                                 *)
LinksKeepOrder == \A h \in Heads : T!Visits(q, h, order[h]) /\ T!VisitsBack(q, h, order[h])
=============================================================================
