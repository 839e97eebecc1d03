------------------------------- MODULE RBTree --------------------------------
(***************************************************************************)
(* cppNetwork/wlyCo/src/nty_tree.h: the red-black trees of RB_GENERATE, in *)
(* which the scheduler keeps the coroutines that wait and that sleep.      *)
(*                                                                         *)
(* A tree is a record of the fields of its nodes.  Left and right are two  *)
(* directions, so that the two halves of each macro are one definition;    *)
(* its loops are turns of While.                                           *)
(***************************************************************************)
EXTENDS Integers, FiniteSets

CONSTANTS Nodes, Nil

ASSUME NodesAssumption == IsFiniteSet(Nodes) /\ Nil \notin Nodes

Dirs  == {"left", "right"}
Other == [left |-> "right", right |-> "left"]

(* RB_INIT, with the fields that calloc cleared *)
EmptyTree == [root   |-> Nil,
              kid    |-> [d \in Dirs |-> [n \in Nodes |-> Nil]],
              parent |-> [n \in Nodes |-> Nil],
              red    |-> [n \in Nodes |-> FALSE]]

(* Nothing is written for Nil: the code tests for NULL first. *)
Put(f, n, v) == [m \in DOMAIN f |-> IF m = n THEN v ELSE f[m]]

Paint(t, n, red)      == [t EXCEPT !.red = Put(@, n, red)]
SetParent(t, n, p)    == [t EXCEPT !.parent = Put(@, n, p)]
SetKid(t, d, n, k)    == [t EXCEPT !.kid[d][n] = k]
SetBlackRed(t, b, r)  == Paint(Paint(t, b, FALSE), r, TRUE)
IsRed(t, n)           == n # Nil /\ t.red[n]
Side(t, p, n)         == IF t.kid.left[p] = n THEN "left" ELSE "right"

(* The link from above to a node, in its parent or in the head *)
Relink(t, p, old, new) ==
    IF p = Nil THEN [t EXCEPT !.root = new]
    ELSE SetKid(t, Side(t, p, old), p, new)

(* RB_ROTATE_LEFT and RB_ROTATE_RIGHT: n goes down on side d, below up. *)
Lower(t, n, up, d) ==
    LET t1 == Relink(SetParent(t, up, t.parent[n]), t.parent[n], n, up)
    IN  SetParent(SetKid(t1, d, up, n), n, up)

Rotate(t, n, d) ==
    LET up  == t.kid[Other[d]][n]
        mid == t.kid[d][up]
    IN  Lower(SetParent(SetKid(t, Other[d], n, mid), mid, n), n, up, d)

Trees == [root : Nodes \cup {Nil}, kid : [Dirs -> [Nodes -> Nodes \cup {Nil}]],
          parent : [Nodes -> Nodes \cup {Nil}], red : [Nodes -> BOOLEAN]]

(* while (s \in go) s = turn[s].  A turn that leads out of S has followed *)
(* NULL; the loop stays where it is.                                      *)
While(S, go, turn, start) ==
    LET loop[s \in S] == IF s \notin go THEN s ELSE loop[IF turn[s] \in S THEN turn[s] ELSE s]
    IN  loop[start]

(* n is red, and its parent p too, which is the child of g on side d. *)
Straighten(t, p, g, d) == Rotate(SetBlackRed(t, p, g), g, Other[d])

InsertBelow(t, n, p, g, d) ==
    IF IsRed(t, t.kid[Other[d]][g])
    THEN <<SetBlackRed(Paint(t, t.kid[Other[d]][g], FALSE), p, g), g>>
    ELSE IF t.kid[Other[d]][p] = n THEN <<Straighten(Rotate(t, p, d), n, g, d), p>>
    ELSE <<Straighten(t, p, g, d), n>>

InsertTurn(t, n) ==
    LET p == t.parent[n]
        g == t.parent[p]
    IN  InsertBelow(t, n, p, g, Side(t, g, p))

InsertColor(t, n) ==
    LET S == Trees \X Nodes
        t1 == While(S, {s \in S : IsRed(s[1], s[1].parent[s[2]])},
                    [s \in S |-> InsertTurn(s[1], s[2])], <<t, n>>)[1]
    IN  Paint(t1, t1.root, FALSE)

(* One side lacks a black node: side d of p, where n (Nil, perhaps) is. *)
Borrow(t, sib, p, d) ==
    LET t1 == Paint(Paint(t, sib, t.red[p]), p, FALSE)
        t2 == Rotate(Paint(t1, t1.kid[Other[d]][sib], FALSE), p, d)
    IN  <<t2, p, t2.root>>

(* Its sibling is black. *)
RemoveBeside(t, sib, p, d) ==
    LET near == t.kid[d][sib]
    IN  IF \A e \in Dirs : ~IsRed(t, t.kid[e][sib]) THEN <<Paint(t, sib, TRUE), t.parent[p], p>>
        ELSE IF IsRed(t, t.kid[Other[d]][sib]) THEN Borrow(t, sib, p, d)
        ELSE Borrow(Rotate(SetBlackRed(t, near, sib), sib, Other[d]), near, p, d)

\* Wrong variant: a red sibling is not rotated away first.
RemoveBelowSkips(t, p, d) == RemoveBeside(t, t.kid[Other[d]][p], p, d)

RemoveBelow(t, p, d) ==
    LET sib == t.kid[Other[d]][p]
    IN  IF t.red[sib] THEN RemoveBeside(Rotate(SetBlackRed(t, sib, p), p, d),
                                        t.kid[d][sib], p, d)
        ELSE RemoveBeside(t, sib, p, d)

RemoveColor(t, p, n) ==
    LET S == Trees \X (Nodes \cup {Nil}) \X (Nodes \cup {Nil})
        s1 == While(S, {s \in S : ~IsRed(s[1], s[3]) /\ s[3] # s[1].root},
                    [s \in S |-> RemoveBelow(s[1], s[2], Side(s[1], s[2], s[3]))], <<t, p, n>>)
    IN  Paint(s1[1], s1[3], FALSE)

Outermost(t, n, d) == While(Nodes, {m \in Nodes : t.kid[d][m] # Nil}, t.kid[d], n)

(* The fields of a node that has left are not read before RB_SET of Insert. *)
Forget(t, n) == [t EXCEPT !.kid.left[n] = Nil, !.kid.right[n] = Nil,
                          !.parent[n] = Nil, !.red[n] = FALSE]

(* RB_REMOVE of a node with at most one child, and of one with two: the *)
(* next node, next, takes its place, its colour and its links.          *)
RemoveOuter(t, n) ==
    LET child == IF t.kid.left[n] = Nil THEN t.kid.right[n] ELSE t.kid.left[n]
        p  == t.parent[n]
        t1 == Relink(SetParent(t, child, p), p, n, child)
    IN  IF t.red[n] THEN t1 ELSE RemoveColor(t1, p, child)

RemoveInner(t, n) ==
    LET next  == Outermost(t, t.kid.right[n], "left")
        child == t.kid.right[next]
        p  == t.parent[next]
        t1 == Relink(SetParent(t, child, p), p, next, child)
        t2 == [root   |-> t1.root,
               kid    |-> [d \in Dirs |-> Put(t1.kid[d], next, t1.kid[d][n])],
               parent |-> Put(t1.parent, next, t1.parent[n]),
               red    |-> Put(t1.red, next, t1.red[n])]
        t3 == Relink(t2, t2.parent[n], n, next)
        t4 == SetParent(SetParent(t3, t3.kid.left[n], next), t3.kid.right[n], next)
    IN  IF t.red[next] THEN t4 ELSE RemoveColor(t4, IF p = n THEN next ELSE p, child)

Remove(t, n) ==
    Forget(IF Nil \in {t.kid[d][n] : d \in Dirs} THEN RemoveOuter(t, n) ELSE RemoveInner(t, n), n)

Toward(key, k, n) == IF k < key[n] THEN "left" ELSE "right"

(* Where the search for key k ends: at its node, or above its place *)
Locate(t, key, k, n) ==
    LET next == [m \in Nodes |-> t.kid[Toward(key, k, m)][m]]
    IN  While(Nodes, {m \in Nodes : key[m] # k /\ next[m] # Nil}, next, n)

Find(t, key, k) ==
    IF t.root = Nil THEN Nil
    ELSE LET at == Locate(t, key, k, t.root) IN IF key[at] = k THEN at ELSE Nil

(* RB_INSERT of a node whose key is not in the tree; if it is, RB_INSERT *)
(* returns what Find does and changes nothing.                           *)
Insert(t, key, n) ==
    LET p  == IF t.root = Nil THEN Nil ELSE Locate(t, key, key[n], t.root)
        t1 == SetKid(SetKid(SetParent(Paint(t, n, TRUE), n, p), "left", n, Nil), "right", n, Nil)
    IN  InsertColor(IF p = Nil THEN [t1 EXCEPT !.root = n]
                    ELSE SetKid(t1, Toward(key, key[n], p), p, n), n)

(* RB_NFIND, with the node passed last that is not before k *)
NFind(t, key, k) ==
    LET S == (Nodes \cup {Nil}) \X (Nodes \cup {Nil})
        s1 == While(S, {s \in S : s[1] # Nil /\ key[s[1]] # k},
                    [s \in S |-> <<t.kid[Toward(key, k, s[1])][s[1]],
                                   IF k < key[s[1]] THEN s[1] ELSE s[2]>>], <<t.root, Nil>>)
    IN  IF s1[1] = Nil THEN s1[2] ELSE s1[1]

(* RB_MIN and RB_MAX *)
MinMax(t, d) == IF t.root = Nil THEN Nil ELSE Outermost(t, t.root, d)

Climb(t, n, d) ==
    t.parent[While(Nodes, {m \in Nodes : /\ t.parent[m] # Nil
                                         /\ t.kid[d][t.parent[m]] = m}, t.parent, n)]

(* RB_NEXT (d is right) and RB_PREV *)
Step(t, n, d) == IF t.kid[d][n] # Nil THEN Outermost(t, t.kid[d][n], Other[d])
                 ELSE Climb(t, n, d)
-----------------------------------------------------------------------------
Under(t, n) ==
    LET under[m \in Nodes \cup {Nil}] ==
            IF m = Nil THEN {} ELSE {m} \cup under[t.kid.left[m]] \cup under[t.kid.right[m]]
    IN  under[n]

Blacks(t, n) ==
    LET blacks[m \in Under(t, t.root) \cup {Nil}] ==
            IF m = Nil THEN 0 ELSE blacks[t.kid.left[m]] + IF t.red[m] THEN 0 ELSE 1
    IN  blacks[n]

(* What makes it a red-black search tree of those nodes: links that agree, *)
(* keys in order, a black root, no red child of a red node, and as many    *)
(* black nodes on every way down.                                          *)
Linked(t) == \A n \in Under(t, t.root), d \in Dirs :
                 t.kid[d][n] # Nil => t.parent[t.kid[d][n]] = n

Ordered(t, key) == \A n \in Under(t, t.root) :
                       /\ \A m \in Under(t, t.kid.left[n]) : key[m] < key[n]
                       /\ \A m \in Under(t, t.kid.right[n]) : key[m] > key[n]

Balanced(t) == /\ ~IsRed(t, t.root)
               /\ \A n \in Under(t, t.root) :
                     /\ t.red[n] => \A d \in Dirs : ~IsRed(t, t.kid[d][n])
                     /\ Blacks(t, t.kid.left[n]) = Blacks(t, t.kid.right[n])

RedBlack(t, key) == Linked(t) /\ Ordered(t, key) /\ Balanced(t)
=============================================================================
