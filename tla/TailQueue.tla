------------------------------ MODULE TailQueue ------------------------------
(***************************************************************************)
(* cppNetwork/wlyCo/src/nty_queue.h: the tail queues, one of which is the  *)
(* scheduler's ready queue.                                                *)
(*                                                                         *)
(* A link points to an element; the back links and the last link of a head *)
(* point to a link.  A link is named after what holds it: a head, for its  *)
(* tqh_first, or an element, for its tqe_next.                             *)
(***************************************************************************)
EXTENDS Naturals, Sequences

CONSTANTS Heads, Elems, Nil

Links == Heads \cup Elems

(* link: the pointer each holds.  back: a head's tqh_last, an element's     *)
(* tqe_prev; head and entry have the same layout, on which TAILQ_LAST and   *)
(* TAILQ_PREV rely.                                                         *)
(* TAILQ_INIT of every head; calloc cleared the elements. *)
NoQueues == [link |-> [l \in Links |-> Nil],
             back |-> [l \in Links |-> IF l \in Heads THEN l ELSE Nil]]

First(q, h)   == q.link[h]
Empty(q, h)   == First(q, h) = Nil
NextOf(q, e)  == q.link[e]
PrevOf(q, l)  == q.link[q.back[q.back[l]]]
Last(q, h)    == PrevOf(q, h)

(* Sets whatever points back to the link l: that of the element behind it, *)
(* or, if there is none, of the head h.                                    *)
PointBack(q, h, l, to) == [q EXCEPT !.back[IF q.link[l] = Nil THEN h ELSE q.link[l]] = to]

(* e comes behind the link l, in front of what l pointed to. *)
Splice(q, h, l, e) ==
    LET q1 == PointBack([q EXCEPT !.link[e] = q.link[l]], h, e, e)
    IN  [q1 EXCEPT !.link[l] = e, !.back[e] = l]

InsertHead(q, h, e)         == Splice(q, h, h, e)
InsertAfter(q, h, at, e)    == Splice(q, h, at, e)

\* Wrong variant: the element behind keeps its back link.
InsertBeforeKeeps(q, at, e) ==
    [q EXCEPT !.link[e] = at, !.link[q.back[at]] = e, !.back[e] = q.back[at]]

InsertBefore(q, at, e) ==
    [q EXCEPT !.link[e] = at, !.link[q.back[at]] = e,
              !.back[e] = q.back[at], !.back[at] = e]

InsertTail(q, h, e) ==
    [q EXCEPT !.link[e] = Nil, !.back[e] = q.back[h], !.link[q.back[h]] = e, !.back[h] = e]

(* The removed element keeps its links, which nobody reads; here they are *)
(* cleared.                                                               *)
Remove(q, h, e) ==
    LET q1 == PointBack(q, h, e, q.back[e])
    IN  [q1 EXCEPT !.link[q.back[e]] = q.link[e], !.link[e] = Nil, !.back[e] = Nil]

Concat(q, h, other) ==
    IF Empty(q, other) THEN q
    ELSE [q EXCEPT !.link[q.back[h]] = First(q, other),
                   !.back[First(q, other)] = q.back[h],
                   !.back[h] = q.back[other],
                   !.link[other] = Nil, !.back[other] = other]

Swap(q, h, other) ==
    LET q1 == [q EXCEPT !.link[h] = q.link[other], !.back[h] = q.back[other],
                        !.link[other] = q.link[h], !.back[other] = q.back[h]]
    IN  PointBack(PointBack(q1, h, h, h), other, other, other)

(* TAILQ_FOREACH, from the link l on *)
Contents(q, h) ==
    LET from[l \in Links] == IF q.link[l] = Nil THEN <<>> ELSE <<q.link[l]>> \o from[q.link[l]]
    IN  from[h]

(* TAILQ_FOREACH visits the elements of s, in order. *)
Visits(q, h, s) == /\ First(q, h) = IF s = <<>> THEN Nil ELSE s[1]
                   /\ \A i \in 1..Len(s) : NextOf(q, s[i]) = IF i = Len(s) THEN Nil ELSE s[i + 1]

(* TAILQ_FOREACH_REVERSE visits them in the reverse order. *)
VisitsBack(q, h, s) ==
    /\ Last(q, h) = IF s = <<>> THEN Nil ELSE s[Len(s)]
    /\ \A i \in 1..Len(s) : PrevOf(q, s[i]) = IF i = 1 THEN Nil ELSE s[i - 1]
=============================================================================
