------------------------------ MODULE WaitTree -------------------------------
(***************************************************************************)
(* nty_schedule.c: the tree of the coroutines that wait for a descriptor,  *)
(* keyed by co->fd with nty_coroutine_wait_cmp.  Scheduler says who waits  *)
(* when; here the tree goes through every sequence of insertions and       *)
(* removals, at any place of it.  A coroutine waits for a descriptor of    *)
(* its own, so the descriptor, a node of RBTree, stands for the coroutine. *)
(***************************************************************************)
EXTENDS RBTree

ASSUME DescriptorsAssumption == Nodes \subseteq Int

VARIABLES tree,    \* sched->waiting
          waiters  \* history: the descriptors somebody waits for

waitVars == <<tree, waiters>>

fd == [f \in Nodes |-> f]

WaitInit == tree = EmptyTree /\ waiters = {}

(* nty_schedule_sched_wait, whose assert wants RB_INSERT to return NULL *)
SchedWait(f) == /\ f \notin waiters
                /\ tree' = Insert(tree, fd, f)
                /\ waiters' = waiters \cup {f}

(* nty_schedule_desched_wait *)
DeschedWait(f) == /\ Find(tree, fd, f) # Nil
                  /\ tree' = Remove(tree, Find(tree, fd, f))
                  /\ waiters' = waiters \ {f}

WaitNext == \E f \in Nodes : SchedWait(f) \/ DeschedWait(f)

WaitSpec == WaitInit /\ [][WaitNext]_waitVars
-----------------------------------------------------------------------------
Least(S)    == IF S = {} THEN Nil ELSE CHOOSE f \in S : \A g \in S : f <= g
Greatest(S) == IF S = {} THEN Nil ELSE CHOOSE f \in S : \A g \in S : f >= g

(* The tree is a red-black search tree of exactly those who wait, whatever *)
(* was inserted and removed before and in which order; and the searches    *)
(* and the steps to a neighbour, which go by its links, find what the set  *)
(* of waiters says they should.                                            *)
TreeOfWaiters ==
    /\ RedBlack(tree, fd) /\ Under(tree, tree.root) = waiters
    /\ MinMax(tree, "left") = Least(waiters)
    /\ MinMax(tree, "right") = Greatest(waiters)
    /\ \A f \in Nodes : /\ (Find(tree, fd, f) = f) <=> f \in waiters
                        /\ NFind(tree, fd, f) = Least({g \in waiters : g >= f})
    /\ \A f \in waiters : /\ Step(tree, f, "right") = Least({g \in waiters : g > f})
                          /\ Step(tree, f, "left") = Greatest({g \in waiters : g < f})
=============================================================================
