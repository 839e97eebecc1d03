--------------------------- MODULE TreeProofs --------------------------------
(***************************************************************************)
(* The trees and the ready queue of nty_schedule.c.  The tree of waiters   *)
(* is a red-black search tree of those who wait, and what its searches     *)
(* find is what the set of waiters says.  The tree of sleepers, keyed by   *)
(* times, and the links of the ready queue implement Timers.  Proved for   *)
(* any finite set of descriptors and coroutines, and any times.            *)
(***************************************************************************)
EXTENDS SleepTimer, WaitTree, SequenceTheorems, FiniteSetTheorems, NaturalsInduction, WellFoundedInduction, TLAPS

(* The pairs of a state and that in which a loop from it ends are the least *)
(* set with what ends at once and what ends a turn later.                   *)
Closed(S, go, turn, Q) ==
    /\ \A x \in S \ go : <<x, x>> \in Q
    /\ \A x \in S \cap go, y \in S : <<turn[x], y>> \in Q => <<x, y>> \in Q

Ends(S, go, turn) == {e \in S \X S : \A Q \in SUBSET (S \X S) : Closed(S, go, turn, Q) => e \in Q}

Any(A) == CHOOSE y : y \in A

Follows(S, go, turn, loop) ==
    \A s \in S : (s \notin go => loop[s] = s) /\ (s \in go => loop[s] = loop[turn[s]])

(* Ends has what ends at once and what ends a turn later. *)
LEMMA EndsClosed ==
  ASSUME NEW S, NEW go, NEW turn \in [S -> S]
  PROVE  Closed(S, go, turn, Ends(S, go, turn))
BY DEF Closed, Ends

(* ... and nothing else. *)
LEMMA EndsInverted ==
  ASSUME NEW S, NEW go, NEW turn \in [S -> S], NEW x \in S, NEW y \in S,
         <<x, y>> \in Ends(S, go, turn)
  PROVE  /\ x \in go => <<turn[x], y>> \in Ends(S, go, turn)
         /\ x \notin go => y = x
<1> DEFINE E == Ends(S, go, turn)
<1>1. CASE x \in go
  <2> SUFFICES ASSUME <<turn[x], y>> \notin E PROVE FALSE
    BY <1>1
  <2>1. Closed(S, go, turn, E \ {<<x, y>>})
    BY <1>1, EndsClosed DEF Closed
  <2> QED
    BY <2>1 DEF Ends
<1>2. CASE x \notin go
  <2> SUFFICES ASSUME y # x PROVE FALSE
    BY <1>2
  <2>1. Closed(S, go, turn, E \ {<<x, y>>})
    BY <1>2, EndsClosed DEF Closed
  <2> QED
    BY <2>1 DEF Ends
<1> QED
  BY <1>1, <1>2

(* A loop whose condition is false ends where it is. *)
LEMMA EndsAtOnce ==
  ASSUME NEW S, NEW go, NEW turn \in [S -> S], NEW x \in S \ go, NEW y \in S,
         <<x, y>> \in Ends(S, go, turn)
  PROVE  y = x
BY EndsInverted

(* It ends in one state at most. *)
LEMMA EndsUnique ==
  ASSUME NEW S, NEW go, NEW turn \in [S -> S], NEW x \in S, NEW y \in S, NEW z \in S,
         <<x, y>> \in Ends(S, go, turn), <<x, z>> \in Ends(S, go, turn)
  PROVE  y = z
<1> DEFINE E == Ends(S, go, turn)
           Q == {e \in E : \A w \in S : <<e[1], w>> \in E => w = e[2]}
<1>0. Q \subseteq S \X S
  BY DEF Ends
<1>1. ASSUME NEW a \in S \ go
      PROVE  <<a, a>> \in Q
  <2>1. <<a, a>> \in E
    BY <1>1, EndsClosed DEF Closed
  <2>2. ASSUME NEW w \in S, <<a, w>> \in E
        PROVE  w = a
    BY <1>1, <2>2, EndsAtOnce
  <2> QED
    BY <2>1, <2>2
<1>2. ASSUME NEW a \in S \cap go, NEW b \in S, <<turn[a], b>> \in Q
      PROVE  <<a, b>> \in Q
  <2>1. <<a, b>> \in E /\ turn[a] \in S
    BY <1>2, EndsClosed DEF Closed
  <2>2. \A w \in S : <<a, w>> \in E => <<turn[a], w>> \in E
    BY <1>2, EndsInverted
  <2> QED
    BY <1>2, <2>1, <2>2
<1>3. Closed(S, go, turn, Q)
  BY <1>1, <1>2 DEF Closed
<1>4. <<x, y>> \in Q
  BY <1>0, <1>3 DEF Ends
<1> QED
  BY <1>4

(* A loop that is a function of the states: the definition of While.        *)
LEMMA LoopExists ==
  ASSUME NEW S, NEW go, NEW turn \in [S -> S]
  PROVE  \E loop \in [S -> S] : Follows(S, go, turn, loop)
<1> DEFINE E == Ends(S, go, turn)
           none == CHOOSE c : c \in S
           ends == [s \in S |-> {y \in S : <<s, y>> \in E}]
           loop == [s \in S |-> IF ends[s] # {} THEN Any(ends[s]) ELSE none]
<1>1. ASSUME NEW s \in S
      PROVE  loop[s] = IF s \notin go THEN s ELSE loop[turn[s]]
  <2>1. CASE s \notin go
    <3>1. <<s, s>> \in E
      BY <2>1, EndsClosed DEF Closed
    <3>2. ends[s] = {s}
      BY <2>1, <3>1, EndsAtOnce
    <3>3. Any({s}) = s
      BY DEF Any
    <3> QED
      BY <2>1, <3>2, <3>3
  <2>2. CASE s \in go
    <3>1. turn[s] \in S /\ \A y \in S : <<s, y>> \in E <=> <<turn[s], y>> \in E
      BY <2>2, EndsClosed, EndsInverted DEF Closed
    <3>2. ends[s] = ends[turn[s]]
      BY <3>1
    <3> HIDE DEF ends
    <3> QED
      BY <2>2, <3>1, <3>2
  <2> QED
    BY <2>1, <2>2
<1>2. loop \in [S -> S]
  <2> SUFFICES ASSUME NEW s \in S PROVE loop[s] \in S
    OBVIOUS
  <2>1. ends[s] # {} => Any(ends[s]) \in ends[s]
    BY DEF Any
  <2>2. none \in S
    OBVIOUS
  <2> QED
    BY <2>1, <2>2
<1> HIDE DEF loop
<1> QED
  BY <1>1, <1>2 DEF Follows

(* A loop is a test and, if it holds, a turn and the same loop again. *)
LEMMA WhileUnfolds ==
  ASSUME NEW S, NEW go, NEW turn, NEW x \in S
  PROVE  While(S, go, turn, x) =
            IF x \notin go THEN x
            ELSE While(S, go, turn, IF turn[x] \in S THEN turn[x] ELSE x)
<1> DEFINE total == [s \in S |-> IF turn[s] \in S THEN turn[s] ELSE s]
           L == CHOOSE loop : loop = [s \in S |-> IF s \notin go THEN s
                                  ELSE loop[IF turn[s] \in S THEN turn[s] ELSE s]]
<1>1. total \in [S -> S]
  OBVIOUS
<1> HIDE DEF total
<1>2. PICK f \in [S -> S] : Follows(S, go, total, f)
  BY <1>1, LoopExists
<1>3. \A s \in S : total[s] = IF turn[s] \in S THEN turn[s] ELSE s
  BY DEF total
<1>4. \A s \in S : f[s] = IF s \notin go THEN s ELSE f[IF turn[s] \in S THEN turn[s] ELSE s]
  <2> SUFFICES ASSUME NEW s \in S
               PROVE  f[s] = IF s \notin go THEN s ELSE f[IF turn[s] \in S THEN turn[s] ELSE s]
    OBVIOUS
  <2>1. total[s] = IF turn[s] \in S THEN turn[s] ELSE s
    BY <1>3
  <2> QED
    BY <1>2, <2>1 DEF Follows
<1>5. f = [s \in S |-> IF s \notin go THEN s ELSE f[IF turn[s] \in S THEN turn[s] ELSE s]]
  BY <1>4
<1>6. L = [s \in S |-> IF s \notin go THEN s ELSE L[IF turn[s] \in S THEN turn[s] ELSE s]]
  BY <1>5
<1>7. \A y \in S : While(S, go, turn, y) = L[y]
  BY DEF While
<1> QED
  BY <1>6, <1>7

(* Of a family of sets of nodes one has no other in it. *)
LEMMA LeastSet ==
  ASSUME NEW F, F \subseteq SUBSET Nodes, F # {}
  PROVE  \E A \in F : \A B \in F : B \subseteq A => B = A
<1> DEFINE Sizes == {Cardinality(A) : A \in F}
<1>1. \A A \in SUBSET Nodes : IsFiniteSet(A) /\ Cardinality(A) \in Nat
  BY NodesAssumption, FS_Subset, FS_CardinalityType
<1>2. Sizes \subseteq Nat /\ Sizes # {}
  BY <1>1
<1> HIDE DEF Sizes
<1>3. PICK x \in Sizes : \A y \in Sizes : ~(<<y, x>> \in OpToRel(<, Nat))
  BY <1>2, NatLessThanWellFounded, WFMin, Zenon
<1> USE DEF Sizes
<1>4. \A y \in Sizes : ~(y < x)
  <2> SUFFICES ASSUME NEW y \in Sizes, y < x PROVE FALSE
    OBVIOUS
  <2>1. <<y, x>> \in OpToRel(<, Nat)
    BY <1>2, Zenon DEF OpToRel
  <2> QED
    BY <1>3, <2>1
<1>5. PICK A \in F : Cardinality(A) = x
  OBVIOUS
<1>6. ASSUME NEW B \in F, B \subseteq A
      PROVE  B = A
  <2>1. Cardinality(B) \in Sizes /\ Cardinality(B) \in Nat /\ Cardinality(A) \in Nat
    BY <1>1
  <2>2. IsFiniteSet(A) /\ B \in SUBSET A
    BY <1>1, <1>6
  <2>3. Cardinality(B) <= Cardinality(A) /\ (Cardinality(A) = Cardinality(B) => A = B)
    BY <2>2, FS_Subset
  <2>4. ~(Cardinality(B) < Cardinality(A))
    BY <1>4, <1>5, <2>1
  <2> QED
    BY <2>1, <2>3, <2>4
<1> QED
  BY <1>6

(* A loop whose turns lead from one of the sets I[A] to that of a smaller A *)
(* ends in one of them.                                                     *)
LEMMA LoopRule ==
  ASSUME NEW S, NEW go, NEW turn, NEW I \in [SUBSET Nodes -> SUBSET S],
         \A A \in SUBSET Nodes : \A s \in I[A] \cap go :
             \E B \in SUBSET A : B # A /\ turn[s] \in I[B],
         NEW A \in SUBSET Nodes, NEW x \in I[A]
  PROVE  \E B \in SUBSET Nodes : While(S, go, turn, x) \in I[B] \ go
<1> DEFINE End(s) == While(S, go, turn, s)
           Good(s) == \E B \in SUBSET Nodes : End(s) \in I[B] \ go
           F == {C \in SUBSET Nodes : \E s \in I[C] : ~Good(s)}
<1>1. SUFFICES ASSUME ~Good(x) PROVE FALSE
  OBVIOUS
<1>2. F \subseteq SUBSET Nodes /\ A \in F
  BY <1>1
<1> HIDE DEF F
<1>3. PICK C \in F : \A B \in F : B \subseteq C => B = C
  BY <1>2, LeastSet
<1> USE DEF F
<1>4. PICK s \in I[C] : ~Good(s)
  OBVIOUS
<1>5. s \in S
  BY <1>2, <1>3
<1>6. CASE s \notin go
  <2>1. End(s) = s
    BY <1>5, <1>6, WhileUnfolds
  <2> QED
    BY <1>2, <1>3, <1>4, <1>6, <2>1
<1>7. CASE s \in go
  <2>1. PICK B \in SUBSET C : B # C /\ turn[s] \in I[B]
    BY <1>2, <1>7
  <2>2. turn[s] \in S /\ B \in SUBSET Nodes /\ B \notin F
    BY <1>2, <1>3, <2>1
  <2>3. End(s) = End(turn[s])
    BY <1>5, <1>7, <2>2, WhileUnfolds
  <2> QED
    BY <1>4, <2>1, <2>2, <2>3
<1> QED
  BY <1>6, <1>7

(* A loop whose turns stay in J and diminish a set of nodes ends in J. *)
LEMMA SimpleLoopRule ==
  ASSUME NEW S, NEW go, NEW turn, NEW J, J \subseteq S, NEW rank \in [S -> SUBSET Nodes],
         \A s \in J \cap go : /\ turn[s] \in J
                             /\ rank[turn[s]] \subseteq rank[s]
                             /\ rank[turn[s]] # rank[s],
         NEW x \in J
  PROVE  While(S, go, turn, x) \in J \ go
<1> DEFINE I == [A \in SUBSET Nodes |-> {s \in J : rank[s] = A}]
<1>1. I \in [SUBSET Nodes -> SUBSET S]
  OBVIOUS
<1>2. \A s \in J : rank[s] \in SUBSET Nodes
  OBVIOUS
<1>3. \A A \in SUBSET Nodes : \A s \in I[A] \cap go :
          \E B \in SUBSET A : B # A /\ turn[s] \in I[B]
  <2> SUFFICES ASSUME NEW A \in SUBSET Nodes, NEW s \in I[A] \cap go
               PROVE  \E B \in SUBSET A : B # A /\ turn[s] \in I[B]
    OBVIOUS
  <2>1. s \in J \cap go /\ rank[s] = A
    OBVIOUS
  <2> WITNESS rank[turn[s]] \in SUBSET A
  <2> QED
    BY <2>1
<1>4. x \in I[rank[x]]
  BY <1>2
<1>5. \A B \in SUBSET Nodes : I[B] \subseteq J
  OBVIOUS
<1> HIDE DEF I
<1>6. \E B \in SUBSET Nodes : While(S, go, turn, x) \in I[B] \ go
  <2>1. rank[x] \in SUBSET Nodes
    BY <1>2
  <2> QED
    BY <1>1, <1>3, <1>4, <2>1, LoopRule
<1> QED
  BY <1>5, <1>6
-----------------------------------------------------------------------------
(* The fields of a tree, and what writes one of them. *)
Places == Nodes \cup {Nil}

(* Left and right *)
LEMMA OtherFacts ==
  /\ Dirs = {"left", "right"}
  /\ \A d \in Dirs : /\ Other[d] \in Dirs /\ Other[d] # d /\ Other[Other[d]] = d
                     /\ Dirs = {d, Other[d]}
BY DEF Dirs, Other

(* The fields of a tree hold nodes, Nil and colours. *)
LEMMA FieldsTyped ==
  ASSUME NEW t \in Trees
  PROVE  /\ t.root \in Places
         /\ \A d \in Dirs, n \in Nodes : t.kid[d][n] \in Places
         /\ \A n \in Nodes : t.parent[n] \in Places /\ t.red[n] \in BOOLEAN
BY DEF Trees, Places

ParentSet(t, u, n, p) ==
    /\ u \in Trees /\ u.root = t.root /\ u.kid = t.kid /\ u.red = t.red
    /\ n \in Nodes => u.parent[n] = p
    /\ \A m \in Nodes \ {n} : u.parent[m] = t.parent[m]

Painted(t, u, n, c) ==
    /\ u \in Trees /\ u.root = t.root /\ u.kid = t.kid /\ u.parent = t.parent
    /\ n \in Nodes => u.red[n] = c
    /\ \A m \in Nodes \ {n} : u.red[m] = t.red[m]

KidSet(t, u, d, n, k) ==
    /\ u \in Trees /\ u.root = t.root /\ u.parent = t.parent /\ u.red = t.red
    /\ u.kid[d][n] = k
    /\ \A e \in Dirs, m \in Nodes : e # d \/ m # n => u.kid[e][m] = t.kid[e][m]

(* p is the parent of old, on side d. *)
Relinked(t, u, p, d, new) ==
    /\ u \in Trees /\ u.parent = t.parent /\ u.red = t.red
    /\ p = Nil => u.root = new /\ u.kid = t.kid
    /\ p # Nil => u.root = t.root /\ u.kid[d][p] = new
    /\ \A e \in Dirs, m \in Nodes : e # d \/ m # p => u.kid[e][m] = t.kid[e][m]

(* What each of the small writes leaves in the fields of a tree: RB_PARENT ... *)
LEMMA SetParentFields ==
  ASSUME NEW t \in Trees, NEW n \in Places, NEW p \in Places
  PROVE  ParentSet(t, SetParent(t, n, p), n, p)
BY NodesAssumption DEF ParentSet, SetParent, Put, Trees, Places

(* ... RB_COLOR ... *)
LEMMA PaintFields ==
  ASSUME NEW t \in Trees, NEW n \in Places, NEW c \in BOOLEAN
  PROVE  Painted(t, Paint(t, n, c), n, c)
BY NodesAssumption DEF Painted, Paint, Put, Trees, Places

(* ... RB_LEFT and RB_RIGHT ... *)
LEMMA SetKidFields ==
  ASSUME NEW t \in Trees, NEW d \in Dirs, NEW n \in Nodes, NEW k \in Places
  PROVE  KidSet(t, SetKid(t, d, n, k), d, n, k)
BY DEF KidSet, SetKid, Trees, Places

(* ... and the link from above. *)
LEMMA RelinkFields ==
  ASSUME NEW t \in Trees, NEW p \in Places, NEW old \in Places, NEW new \in Places,
         NEW d, p # Nil => d \in Dirs /\ Side(t, p, old) = d
  PROVE  Relinked(t, Relink(t, p, old, new), p, d, new)
<1>1. CASE p = Nil
  BY <1>1, NodesAssumption DEF Relink, Relinked, Trees, Places
<1>2. CASE p # Nil
  <2>1. d \in Dirs /\ p \in Nodes
    BY <1>2 DEF Places
  <2>2. KidSet(t, Relink(t, p, old, new), d, p, new)
    BY <1>2, <2>1, SetKidFields DEF Relink
  <2> QED
    BY <1>2, <2>1, <2>2 DEF Relinked, KidSet
<1> QED
  BY <1>1, <1>2

(* A node is found on the side it is on, if it is not on both. *)
LEMMA SideFacts ==
  ASSUME NEW t \in Trees, NEW p \in Nodes, NEW n \in Places, NEW d \in Dirs,
         t.kid[d][p] = n, t.kid[Other[d]][p] # n
  PROVE  Side(t, p, n) = d
BY DEF Side, Dirs, Other
-----------------------------------------------------------------------------
(* Where the nodes are: sub[n] is the set of n and what is below it.  *)
Keys == [Nodes -> Int]

(* The key of m is to side d of the key k. *)
Off(d, j, k) == IF d = "left" THEN j < k ELSE k < j

(* Being off to a side is a strict order of the integers, and the other side its reverse. *)
LEMMA OffFacts ==
  /\ \A d \in Dirs, i \in Int : ~Off(d, i, i)
  /\ \A d \in Dirs, i \in Int, j \in Int : /\ Off(d, i, j) => Off(Other[d], j, i)
                                           /\ ~(Off(d, i, j) /\ Off(Other[d], i, j))
                                           /\ Off(d, i, j) => ~Off(d, j, i)
                                           /\ i # j => Off(d, i, j) \/ Off(Other[d], i, j)
  /\ \A d \in Dirs, i \in Int, j \in Int, k \in Int : Off(d, i, j) /\ Off(d, j, k) => Off(d, i, k)
BY DEF Off, Dirs, Other

SlotOK(t, key, sub, n, d) ==
    /\ t.kid[d][n] # Nil => t.kid[d][n] \in sub[t.root] /\ t.parent[t.kid[d][n]] = n
    /\ \A m \in sub[t.kid[d][n]] : Off(d, key[m], key[n])

Hangs(t, sub, n) ==
    n = t.root \/ (t.parent[n] \in sub[t.root] /\ \E d \in Dirs : t.kid[d][t.parent[n]] = n)

NodeOK(t, key, sub, n) ==
    /\ sub[n] = {n} \cup sub[t.kid["left"][n]] \cup sub[t.kid["right"][n]]
    /\ sub[n] \subseteq sub[t.root]
    /\ Hangs(t, sub, n)
    /\ \A d \in Dirs : SlotOK(t, key, sub, n, d)

Shape(t, key, sub) ==
    /\ t \in Trees /\ key \in Keys
    /\ sub \in [Places -> SUBSET Nodes] /\ sub[Nil] = {}
    /\ t.root # Nil => t.root \in sub[t.root] /\ t.parent[t.root] = Nil
    /\ \A n \in sub[t.root] : NodeOK(t, key, sub, n)

(* What holds of a node n, its child k on side d, and the other, j *)
Family(t, key, sub, n, d, k, j) ==
    /\ n \in Nodes /\ k \in Places /\ t.parent[n] \in Places /\ t.root \in Nodes
    /\ n \in sub[n] /\ sub[n] \subseteq sub[t.root] /\ sub[n] \subseteq Nodes
    /\ sub[n] = {n} \cup sub[k] \cup sub[j]
    /\ k # Nil => k \in sub[t.root] /\ k \in Nodes /\ t.parent[k] = n /\ k # t.root
    /\ \A m \in sub[k] : Off(d, key[m], key[n])
    /\ n \notin sub[k] /\ n # k
    /\ sub[k] \cap sub[j] = {}
    /\ k # Nil => k # j

(* A node of the tree with its two children *)
LEMMA ShapeOfNode ==
  ASSUME NEW t, NEW key, NEW sub, Shape(t, key, sub), NEW n \in sub[t.root], NEW d \in Dirs
  PROVE  Family(t, key, sub, n, d, t.kid[d][n], t.kid[Other[d]][n])
<1>1. /\ t \in Trees /\ key \in Keys /\ sub \in [Places -> SUBSET Nodes] /\ sub[Nil] = {}
      /\ t.root # Nil => t.root \in sub[t.root] /\ t.parent[t.root] = Nil
      /\ NodeOK(t, key, sub, n)
  BY DEF Shape
<1>2. t.root \in Places /\ t.root # Nil
  BY <1>1, FieldsTyped
<1>3. n \in Nodes /\ t.root \in Nodes
  BY <1>1, <1>2, NodesAssumption DEF Places
<1>4. Other[d] \in Dirs /\ Other[d] # d /\ {d, Other[d]} = {"left", "right"} /\ Dirs = {d, Other[d]}
  BY OtherFacts
<1>5. t.kid[d][n] \in Places /\ t.parent[n] \in Places /\ t.kid[Other[d]][n] \in Places
  BY <1>1, <1>3, <1>4, FieldsTyped
<1>6. SlotOK(t, key, sub, n, d) /\ SlotOK(t, key, sub, n, Other[d])
  BY <1>1, <1>4 DEF NodeOK
<1>7. /\ sub[n] \subseteq sub[t.root] /\ n \in sub[n]
      /\ sub[n] = {n} \cup sub[t.kid[d][n]] \cup sub[t.kid[Other[d]][n]]
  BY <1>1, <1>4 DEF NodeOK
<1>8. \A m \in Nodes : key[m] \in Int
  BY <1>1 DEF Keys
<1>9. sub[t.kid[d][n]] \subseteq Nodes /\ sub[t.kid[Other[d]][n]] \subseteq Nodes
  BY <1>1, <1>5
<1>10. n \notin sub[t.kid[d][n]]
  BY <1>3, <1>6, <1>8, OffFacts DEF SlotOK
<1>11. \A m \in sub[t.kid[d][n]] \cap sub[t.kid[Other[d]][n]] : FALSE
  BY <1>3, <1>4, <1>6, <1>8, <1>9, OffFacts DEF SlotOK
<1>12. ASSUME NEW k, k \in sub[t.root] PROVE k \in sub[k] /\ k \in Nodes
  BY <1>12, <1>1, <1>2 DEF NodeOK, Shape
<1>13. t.kid[d][n] # Nil => /\ t.kid[d][n] \in sub[t.root] /\ t.parent[t.kid[d][n]] = n
                           /\ t.kid[d][n] \in sub[t.kid[d][n]] /\ t.kid[d][n] \in Nodes
  BY <1>6, <1>12 DEF SlotOK
<1>14. t.kid[d][n] # Nil => t.kid[d][n] # t.root
  BY <1>1, <1>2, <1>3, <1>13, NodesAssumption
<1>15. n # t.kid[d][n]
  BY <1>10, <1>13, <1>3, NodesAssumption
<1>16. t.kid[d][n] # Nil => t.kid[d][n] # t.kid[Other[d]][n]
  BY <1>11, <1>13
<1> QED
  BY <1>3, <1>5, <1>6, <1>7, <1>9, <1>10, <1>11, <1>13, <1>14, <1>15, <1>16 DEF SlotOK, Family

(* What is below a node of the tree is in the tree. *)
LEMMA ShapeOfMember ==
  ASSUME NEW t, NEW key, NEW sub, Shape(t, key, sub), NEW n \in sub[t.root]
  PROVE  /\ n \in Nodes /\ t.root \in Nodes /\ t.parent[n] \in Places
         /\ n \in sub[n] /\ sub[n] \subseteq sub[t.root] /\ sub[n] \subseteq Nodes
<1>1. "left" \in Dirs
  BY DEF Dirs
<1> QED
  BY <1>1, ShapeOfNode DEF Family

(* A child of a node of the tree points up to it, and is not the root. *)
LEMMA ShapeOfKid ==
  ASSUME NEW t, NEW key, NEW sub, Shape(t, key, sub), NEW n \in sub[t.root], NEW d \in Dirs
  PROVE  /\ t.kid[d][n] \in Places
         /\ t.kid[d][n] # Nil => /\ t.parent[t.kid[d][n]] = n /\ t.kid[d][n] \in Nodes
                                /\ t.kid[d][n] \in sub[t.root] /\ t.kid[d][n] # t.root
BY ShapeOfNode DEF Family

(* What holds of a node n and its parent p *)
Descends(t, sub, n, p) ==
    /\ p = Nil <=> n = t.root
    /\ p # Nil => /\ p \in sub[t.root] /\ p \in Nodes /\ p # n
                  /\ \E d \in Dirs : t.kid[d][p] = n /\ t.kid[Other[d]][p] # n
                                     /\ Side(t, p, n) = d
                  /\ \A d \in Dirs : t.kid[d][n] # p
                  /\ sub[n] \subseteq sub[p] /\ p \notin sub[n]

(* A node but the root is a child of its parent, on one side. *)
LEMMA ShapeOfParent ==
  ASSUME NEW t, NEW key, NEW sub, Shape(t, key, sub), NEW n \in sub[t.root]
  PROVE  Descends(t, sub, n, t.parent[n])
<1> DEFINE p == t.parent[n]
<1>1. NodeOK(t, key, sub, n) /\ sub[t.root] \subseteq Nodes /\ t \in Trees
  BY FieldsTyped DEF Shape
<1>2. n \in Nodes /\ (n = t.root => p = Nil)
  BY <1>1, NodesAssumption DEF Shape
<1>3. ASSUME n # t.root
      PROVE  p \in sub[t.root] /\ p \in Nodes /\ p # Nil /\ \E d \in Dirs : t.kid[d][p] = n
  BY <1>1, <1>3, NodesAssumption DEF NodeOK, Hangs
<1>4. ASSUME n # t.root, NEW d \in Dirs, t.kid[d][p] = n
      PROVE  /\ t.kid[Other[d]][p] # n /\ Side(t, p, n) = d /\ p # n
             /\ sub[n] \subseteq sub[p] /\ p \notin sub[n]
  <2>1. p \in sub[t.root] /\ p \in Nodes /\ n # Nil
    BY <1>2, <1>3, <1>4, NodesAssumption
  <2>2. /\ t.kid[Other[d]][p] # n /\ p # n /\ sub[n] \subseteq sub[p] /\ p \notin sub[n]
    BY <1>4, <2>1, ShapeOfNode DEF Family
  <2> QED
    BY <1>1, <1>4, <2>1, <2>2, SideFacts DEF Places
<1>5. ASSUME n # t.root, NEW d \in Dirs
      PROVE  t.kid[d][n] # p
  <2>1. PICK e \in Dirs : t.kid[e][p] = n
    BY <1>3, <1>5
  <2>2. p \in sub[t.root] /\ p # Nil /\ p \notin sub[n]
    BY <1>3, <1>4, <1>5, <2>1
  <2>3. p \in sub[p]
    BY <2>2, ShapeOfNode DEF Family
  <2>4. sub[t.kid[d][n]] \subseteq sub[n]
    BY ShapeOfNode, <1>5 DEF Family
  <2> QED
    BY <2>2, <2>3, <2>4
<1> QED
  BY <1>2, <1>3, <1>4, <1>5 DEF Descends
-----------------------------------------------------------------------------
(* What a rotation of n down on side d is about: up, mid between them, and p *)
Turns(t, n, d, up, mid, p) ==
    /\ up = t.kid[Other[d]][n] /\ up # Nil
    /\ mid = t.kid[d][up] /\ p = t.parent[n]

(* What a rotation writes: u is t with n, whose parent is p, gone down on  *)
(* side d, up come up from the other side, and mid between them.           *)
Rotated(t, u, n, d, up, mid, p) ==
    /\ u \in Trees /\ u.red = t.red
    /\ p = Nil => u.root = up
    /\ p # Nil => u.root = t.root
    /\ u.kid[Other[d]][n] = mid /\ u.kid[d][up] = n
    /\ u.kid[d][n] = t.kid[d][n] /\ u.kid[Other[d]][up] = t.kid[Other[d]][up]
    /\ \A e \in Dirs, m \in Nodes \ {n, up} :
           /\ m = p /\ t.kid[e][m] = n => u.kid[e][m] = up
           /\ ~(m = p /\ t.kid[e][m] = n) => u.kid[e][m] = t.kid[e][m]
    /\ u.parent[n] = up /\ u.parent[up] = p
    /\ mid # Nil => u.parent[mid] = n
    /\ \A m \in Nodes \ {n, up, mid} : u.parent[m] = t.parent[m]

(* Painting changes no links. *)
LEMMA ShapeOfPainted ==
  ASSUME NEW t, NEW u \in Trees, NEW key, NEW sub, Shape(t, key, sub),
         u.root = t.root, u.kid = t.kid, u.parent = t.parent
  PROVE  Shape(u, key, sub)
BY DEF Shape, NodeOK, SlotOK, Hangs

(* RB_ROTATE changes the fields of the four nodes that Rotated names. *)
LEMMA RotateRotates ==
  ASSUME NEW t, NEW key, NEW sub, Shape(t, key, sub), NEW n \in sub[t.root], NEW d \in Dirs,
         NEW up, NEW mid, NEW p, Turns(t, n, d, up, mid, p)
  PROVE  Rotated(t, Rotate(t, n, d), n, d, up, mid, p)
<1>o. PICK o : o = Other[d]
  OBVIOUS
<1>t. up = t.kid[o][n] /\ up # Nil /\ mid = t.kid[d][up] /\ p = t.parent[n]
  BY <1>o DEF Turns
<1>up. up = t.kid[o][n]
  BY <1>t
<1>mid. mid = t.kid[d][up]
  BY <1>t
<1>p. p = t.parent[n]
  BY <1>t
<1>a1. PICK a1 : a1 = SetKid(t, o, n, mid)
  OBVIOUS
<1>a2. PICK a2 : a2 = SetParent(a1, mid, n)
  OBVIOUS
<1>a3. PICK a3 : a3 = SetParent(a2, up, p)
  OBVIOUS
<1>a4. PICK a4 : a4 = Relink(a3, p, n, up)
  OBVIOUS
<1>a5. PICK a5 : a5 = SetKid(a4, d, up, n)
  OBVIOUS
<1>u. PICK u : u = SetParent(a5, n, up)
  OBVIOUS
<1>1. Rotate(t, n, d) = Lower(a2, n, up, d)
  BY <1>o, <1>up, <1>mid, <1>a1, <1>a2 DEF Rotate
<1>2. t \in Trees /\ o \in Dirs /\ o # d /\ Dirs = {d, o} /\ Other[o] = d
  BY <1>o, OtherFacts DEF Shape
<1>3. /\ n \in Nodes /\ up \in Nodes /\ p \in Places /\ up \in sub[t.root]
      /\ n # up /\ t.parent[up] = n
  <2>1. Family(t, key, sub, n, o, up, t.kid[d][n])
    BY <1>2, <1>o, <1>up, ShapeOfNode
  <2> QED
    BY <1>p, <1>t, <1>o, <2>1 DEF Family
<1>4. /\ mid \in Places /\ mid # up
      /\ mid # Nil => mid \in Nodes /\ t.parent[mid] = up
  <2>1. Family(t, key, sub, up, d, mid, t.kid[o][up])
    BY <1>2, <1>3, <1>o, <1>mid, ShapeOfNode
  <2> QED
    BY <2>1 DEF Family
<1>5. mid # n
  BY <1>2, <1>3, <1>mid, ShapeOfParent, NodesAssumption DEF Descends
<1>6. p # n /\ p # up
  BY <1>2, <1>3, <1>p, <1>up, ShapeOfParent, NodesAssumption DEF Descends
<1>8. p # Nil => /\ p \in Nodes
                 /\ \E e \in Dirs : t.kid[e][p] = n /\ t.kid[Other[e]][p] # n
                                    /\ Side(t, p, n) = e
  BY <1>p, ShapeOfParent DEF Descends
<1>s. PICK s : p # Nil => s \in Dirs /\ Side(t, p, n) = s
                            /\ t.kid[s][p] = n /\ t.kid[Other[s]][p] # n
  BY <1>8
<1>9. KidSet(t, a1, o, n, mid)
  BY <1>2, <1>3, <1>4, <1>a1, SetKidFields
<1>10. ParentSet(a1, a2, mid, n)
  <2>1. a1 \in Trees /\ n \in Places
    BY <1>3, <1>9 DEF KidSet, Places
  <2> QED
    BY <2>1, <1>4, <1>a2, SetParentFields
<1>11. a2 \in Trees /\ up \in Places /\ a2.parent[n] = p
  BY <1>3, <1>5, <1>9, <1>10, <1>p DEF ParentSet, KidSet, Places
<1>12. ParentSet(a2, a3, up, p)
  BY <1>3, <1>11, <1>a3, SetParentFields
<1>13. Relinked(a3, a4, p, s, up)
  <2>1. a3 \in Trees /\ n \in Places
    BY <1>3, <1>12 DEF ParentSet, Places
  <2>2. a3.kid = a1.kid
    BY <1>10, <1>12 DEF ParentSet
  <2>3. p # Nil => \A e \in Dirs : a1.kid[e][p] = t.kid[e][p]
    BY <1>6, <1>8, <1>9 DEF KidSet
  <2>4. p # Nil => Side(a3, p, n) = s
    BY <1>s, <2>2, <2>3 DEF Side, Dirs
  <2>5. p # Nil => s \in Dirs /\ Side(a3, p, n) = s
    BY <1>s, <2>4
  <2> QED
    BY <1>3, <1>11, <2>1, <2>5, <1>a4, RelinkFields
<1>14. KidSet(a4, a5, d, up, n)
  <2>1. a4 \in Trees /\ n \in Places
    BY <1>3, <1>13 DEF Relinked, Places
  <2> QED
    BY <2>1, <1>3, <1>a5, SetKidFields
<1>15. ParentSet(a5, u, n, up)
  <2>1. a5 \in Trees /\ n \in Places
    BY <1>3, <1>14 DEF KidSet, Places
  <2> QED
    BY <2>1, <1>11, <1>u, SetParentFields
<1>16. Lower(a2, n, up, d) = u
  BY <1>11, <1>a3, <1>a4, <1>a5, <1>u DEF Lower
<1>17. u \in Trees /\ u.red = t.red /\ (p = Nil => u.root = up) /\ (p # Nil => u.root = t.root)
  BY <1>9, <1>10, <1>12, <1>13, <1>14, <1>15 DEF KidSet, ParentSet, Relinked
<1>18. u.kid = a5.kid /\ a3.kid = a1.kid
  BY <1>10, <1>12, <1>15 DEF ParentSet
<1>19. u.kid[d][up] = n
  BY <1>14, <1>18 DEF KidSet
<1>20. /\ \A e \in Dirs, m \in Nodes : e # d \/ m # up => u.kid[e][m] = a4.kid[e][m]
       /\ \A e \in Dirs, m \in Nodes : e # s \/ m # p => a4.kid[e][m] = a1.kid[e][m]
       /\ \A e \in Dirs, m \in Nodes : e # o \/ m # n => a1.kid[e][m] = t.kid[e][m]
  BY <1>9, <1>13, <1>14, <1>18 DEF KidSet, Relinked
<1>21. /\ u.kid[o][n] = mid /\ u.kid[d][n] = t.kid[d][n] /\ u.kid[o][up] = t.kid[o][up]
  <2>1. a1.kid[o][n] = mid
    BY <1>9 DEF KidSet
  <2>2. a4.kid[o][n] = a1.kid[o][n] /\ a4.kid[d][n] = a1.kid[d][n] /\ a4.kid[o][up] = a1.kid[o][up]
    BY <1>2, <1>3, <1>6, <1>20
  <2>3. /\ u.kid[o][n] = a4.kid[o][n] /\ u.kid[d][n] = a4.kid[d][n]
        /\ u.kid[o][up] = a4.kid[o][up]
    BY <1>2, <1>3, <1>20
  <2>4. a1.kid[d][n] = t.kid[d][n] /\ a1.kid[o][up] = t.kid[o][up]
    BY <1>2, <1>3, <1>20
  <2> QED
    BY <2>1, <2>2, <2>3, <2>4
<1>22. p # Nil => u.kid[s][p] = up
  <2>1. p # Nil => a4.kid[s][p] = up
    BY <1>13 DEF Relinked
  <2> QED
    BY <1>6, <1>8, <1>20, <1>s, <2>1
<1>23. \A e \in Dirs, m \in Nodes \ {n, up} :
          /\ m = p /\ t.kid[e][m] = n => u.kid[e][m] = up
          /\ ~(m = p /\ t.kid[e][m] = n) => u.kid[e][m] = t.kid[e][m]
  <2> SUFFICES ASSUME NEW e \in Dirs, NEW m \in Nodes \ {n, up}
               PROVE  /\ m = p /\ t.kid[e][m] = n => u.kid[e][m] = up
                      /\ ~(m = p /\ t.kid[e][m] = n) => u.kid[e][m] = t.kid[e][m]
    OBVIOUS
  <2>1. p # Nil => (t.kid[e][p] = n <=> e = s)
    BY <1>s, OtherFacts
  <2>2. m = p => p # Nil
    BY NodesAssumption
  <2>3. u.kid[e][m] = a4.kid[e][m]
    BY <1>20
  <2>4. a1.kid[e][m] = t.kid[e][m]
    BY <1>20
  <2>5. e # s \/ m # p => a4.kid[e][m] = a1.kid[e][m]
    BY <1>20
  <2> QED
    BY <1>22, <2>1, <2>2, <2>3, <2>4, <2>5
<1>24. /\ u.parent[n] = up /\ u.parent[up] = p
       /\ mid # Nil => u.parent[mid] = n
       /\ \A m \in Nodes \ {n, up, mid} : u.parent[m] = t.parent[m]
  BY <1>3, <1>4, <1>5, <1>9, <1>10, <1>12, <1>13, <1>14, <1>15 DEF KidSet, ParentSet, Relinked
<1>25. Rotated(t, u, n, d, up, mid, p)
  BY <1>17, <1>19, <1>21, <1>23, <1>24, <1>o DEF Rotated
<1> QED
  BY <1>1, <1>16, <1>25

(* A rotation keeps the nodes and their order: only n and up change places. *)
Moved(sub, sub2, n, up, mid) ==
    /\ sub2 \in [Places -> SUBSET Nodes]
    /\ sub2[up] = sub[n]
    /\ sub2[n] = (sub[n] \ sub[up]) \cup sub[mid]
    /\ \A m \in Places \ {n, up} : sub2[m] = sub[m]

(* A rotation keeps links that agree, the order of keys and the set of nodes. *)
LEMMA ShapeOfRotated ==
  ASSUME NEW t, NEW key, NEW sub, Shape(t, key, sub), NEW n \in sub[t.root], NEW d \in Dirs,
         NEW up, NEW mid, NEW p, Turns(t, n, d, up, mid, p),
         NEW u, Rotated(t, u, n, d, up, mid, p),
         NEW sub2, Moved(sub, sub2, n, up, mid)
  PROVE  Shape(u, key, sub2) /\ sub2[u.root] = sub[t.root]
<1>o. PICK o : o = Other[d]
  OBVIOUS
<1>1. /\ t \in Trees /\ key \in Keys /\ sub \in [Places -> SUBSET Nodes] /\ sub[Nil] = {}
      /\ o \in Dirs /\ o # d /\ Other[o] = d /\ Dirs = {d, o} /\ Dirs = {"left", "right"}
  BY <1>o, OtherFacts DEF Shape
<1>t. up = t.kid[o][n] /\ up # Nil /\ mid = t.kid[d][up] /\ p = t.parent[n]
  BY <1>o DEF Turns
<1>s. (d = "left" /\ o = "right") \/ (d = "right" /\ o = "left")
  BY <1>1
<1>a. PICK a : a = t.kid[d][n]
  OBVIOUS
<1>c. PICK c : c = t.kid[o][up]
  OBVIOUS
<1>2. /\ n \in Nodes /\ up \in Nodes /\ up \in sub[t.root] /\ p \in Places /\ a \in Places
      /\ up # n /\ t.parent[up] = n /\ up # t.root /\ up # a
      /\ sub[n] = {n} \cup sub[up] \cup sub[a] /\ sub[up] \cap sub[a] = {}
      /\ n \notin sub[up] /\ n \notin sub[a] /\ n # a
      /\ \A m \in sub[up] : Off(o, key[m], key[n])
      /\ \A m \in sub[a] : Off(d, key[m], key[n])
      /\ a # Nil => a \in sub[t.root] /\ t.parent[a] = n
      /\ sub[n] \subseteq sub[t.root] /\ sub[n] \subseteq Nodes
  <2>1. Family(t, key, sub, n, o, up, a)
    BY <1>1, <1>o, <1>t, <1>a, ShapeOfNode
  <2>2. Family(t, key, sub, n, d, a, up)
    BY <1>1, <1>o, <1>t, <1>a, ShapeOfNode
  <2> QED
    BY <1>t, <2>1, <2>2 DEF Family
<1>3. /\ mid \in Places /\ c \in Places /\ mid # up /\ c # up
      /\ sub[up] = {up} \cup sub[mid] \cup sub[c] /\ sub[mid] \cap sub[c] = {}
      /\ up \notin sub[mid] /\ up \notin sub[c]
      /\ \A m \in sub[mid] : Off(d, key[m], key[up])
      /\ \A m \in sub[c] : Off(o, key[m], key[up])
      /\ mid # Nil => mid \in sub[t.root] /\ t.parent[mid] = up
      /\ c # Nil => c \in sub[t.root] /\ t.parent[c] = up
      /\ mid # Nil => mid # c
  <2>1. Family(t, key, sub, up, d, mid, c)
    BY <1>1, <1>2, <1>c, <1>o, <1>t, ShapeOfNode
  <2>2. Family(t, key, sub, up, o, c, mid)
    BY <1>1, <1>2, <1>c, <1>o, <1>t, ShapeOfNode
  <2> QED
    BY <2>1, <2>2, NodesAssumption DEF Family
<1>4. mid # n /\ c # n
  <2>1. Descends(t, sub, up, n)
    BY <1>2, ShapeOfParent
  <2> QED
    BY <1>1, <1>2, <1>c, <1>t, <2>1, NodesAssumption DEF Descends
<1>5. /\ p = Nil <=> n = t.root
      /\ p # n /\ p # up
      /\ p # Nil => p \in Nodes /\ p \in sub[t.root]
  <2>1. Descends(t, sub, n, p)
    BY <1>t, ShapeOfParent
  <2> QED
    BY <1>1, <1>2, <1>t, <2>1, NodesAssumption DEF Descends
<1>6. sub2[n] = {n} \cup sub[a] \cup sub[mid] /\ sub2[up] = {up} \cup sub2[n] \cup sub[c]
  <2>1. sub2[n] = (sub[n] \ sub[up]) \cup sub[mid] /\ sub2[up] = sub[n]
    BY DEF Moved
  <2>2. sub2[n] = {n} \cup sub[a] \cup sub[mid]
    BY <1>2, <2>1
  <2> QED
    BY <1>2, <1>3, <2>1, <2>2
<1>7. /\ u \in Trees
      /\ p = Nil => u.root = up
      /\ p # Nil => u.root = t.root
      /\ u.kid[o][n] = mid /\ u.kid[d][up] = n /\ u.kid[d][n] = a /\ u.kid[o][up] = c
      /\ u.parent[n] = up /\ u.parent[up] = p
      /\ mid # Nil => u.parent[mid] = n
      /\ \A m \in Nodes \ {n, up, mid} : u.parent[m] = t.parent[m]
  BY <1>o, <1>a, <1>c DEF Rotated
<1>8. \A e \in Dirs, m \in Nodes \ {n, up} :
          /\ m = p /\ t.kid[e][m] = n => u.kid[e][m] = up
          /\ ~(m = p /\ t.kid[e][m] = n) => u.kid[e][m] = t.kid[e][m]
  BY DEF Rotated
<1>9. /\ sub2 \in [Places -> SUBSET Nodes] /\ sub2[up] = sub[n]
      /\ \A m \in Places \ {n, up} : sub2[m] = sub[m]
  BY DEF Moved
<1>10. sub2[Nil] = {} /\ sub2[a] = sub[a] /\ sub2[mid] = sub[mid] /\ sub2[c] = sub[c]
  BY <1>1, <1>2, <1>3, <1>4, <1>9, NodesAssumption DEF Places
<1>11. t.root \in Places /\ t.root \in Nodes
  BY <1>1, FieldsTyped, NodesAssumption DEF Places
<1>12. sub2[u.root] = sub[t.root]
  BY <1>2, <1>5, <1>7, <1>9, <1>11
<1>13. \A i \in Nodes : key[i] \in Int
  BY <1>1 DEF Keys
<1>14. NodeOK(u, key, sub2, n)
  <2>1. SlotOK(u, key, sub2, n, d)
    BY <1>2, <1>3, <1>4, <1>7, <1>10, <1>12, NodesAssumption DEF SlotOK, Places
  <2>2. SlotOK(u, key, sub2, n, o)
    BY <1>2, <1>3, <1>4, <1>7, <1>10, <1>12, NodesAssumption DEF SlotOK, Places
  <2>3. Hangs(u, sub2, n)
    BY <1>1, <1>2, <1>7, <1>12 DEF Hangs
  <2>4. sub2[n] \subseteq sub2[u.root]
    BY <1>2, <1>3, <1>6, <1>12
  <2>5. sub2[n] = {n} \cup sub2[u.kid["left"][n]] \cup sub2[u.kid["right"][n]]
    <3>1. sub2[n] = {n} \cup sub2[u.kid[d][n]] \cup sub2[u.kid[o][n]]
      BY <1>6, <1>7, <1>10
    <3> QED
      BY <1>s, <3>1
  <2> QED
    BY <1>1, <2>1, <2>2, <2>3, <2>4, <2>5 DEF NodeOK
<1>15. NodeOK(u, key, sub2, up)
  <2>1. SlotOK(u, key, sub2, up, d)
    <3>1. Off(d, key[n], key[up])
      <4>1. Off(o, key[up], key[n]) /\ key[up] \in Int /\ key[n] \in Int
        BY <1>2, <1>3, <1>13
      <4> QED
        BY <1>1, <4>1, OffFacts
    <3>2. \A m \in sub[a] : Off(d, key[m], key[up])
      <4> SUFFICES ASSUME NEW m \in sub[a] PROVE Off(d, key[m], key[up])
        OBVIOUS
      <4>1. Off(d, key[m], key[n]) /\ m \in Nodes
        BY <1>2
      <4> QED
        <5>1. key[up] \in Int /\ key[n] \in Int /\ key[m] \in Int
          BY <1>2, <1>13, <4>1
        <5> QED
          BY <1>1, <3>1, <4>1, <5>1, OffFacts
    <3>3. \A m \in sub2[n] : Off(d, key[m], key[up])
      BY <1>3, <1>6, <3>1, <3>2
    <3> QED
      BY <1>2, <1>7, <1>12, <3>3 DEF SlotOK
  <2>2. SlotOK(u, key, sub2, up, o)
    BY <1>2, <1>3, <1>4, <1>7, <1>10, <1>12, NodesAssumption DEF SlotOK, Places
  <2>3. Hangs(u, sub2, up)
    <3>1. CASE p = Nil
      BY <3>1, <1>7 DEF Hangs
    <3>2. CASE p # Nil
      <4>1. PICK e \in Dirs : t.kid[e][p] = n
        BY <3>2, <1>5, <1>t, ShapeOfParent DEF Descends
      <4>2. u.kid[e][p] = up
        BY <1>5, <1>8, <3>2, <4>1
      <4> QED
        BY <1>5, <1>7, <1>12, <3>2, <4>2 DEF Hangs
    <3> QED
      BY <3>1, <3>2
  <2>4. sub2[up] \subseteq sub2[u.root]
    BY <1>2, <1>9, <1>12
  <2>5. sub2[up] = {up} \cup sub2[u.kid["left"][up]] \cup sub2[u.kid["right"][up]]
    BY <1>s, <1>6, <1>7, <1>10, <1>9
  <2> QED
    BY <1>1, <2>1, <2>2, <2>3, <2>4, <2>5 DEF NodeOK
<1>16. ASSUME NEW m \in sub[t.root], m # n, m # up
       PROVE  NodeOK(u, key, sub2, m)
  <2>1. /\ NodeOK(t, key, sub, m) /\ m \in Nodes /\ t.parent[m] \in Places
        /\ sub[m] \subseteq sub[t.root]
    BY <1>1, <1>16, ShapeOfMember DEF Shape
  <2>2. sub2[m] = sub[m]
    BY <1>9, <1>16, <2>1 DEF Places
  <2>3. ASSUME NEW e \in Dirs
        PROVE  /\ sub2[u.kid[e][m]] = sub[t.kid[e][m]]
               /\ SlotOK(u, key, sub2, m, e)
    <3>1. /\ t.kid[e][m] \in Places
          /\ t.kid[e][m] # Nil => t.parent[t.kid[e][m]] = m /\ t.kid[e][m] \in sub[t.root]
                                  /\ t.kid[e][m] \in Nodes
          /\ \A i \in sub[t.kid[e][m]] : Off(e, key[i], key[m])
      <4>1. Family(t, key, sub, m, e, t.kid[e][m], t.kid[Other[e]][m])
        BY <1>16, ShapeOfNode
      <4> QED
        BY <4>1 DEF Family
    <3>2. CASE t.kid[e][m] = n
      <4>1. m = p /\ u.kid[e][m] = up
        BY <1>2, <1>8, <1>16, <1>t, <2>1, <3>1, <3>2, NodesAssumption
      <4> QED
        BY <1>2, <1>7, <1>9, <1>12, <3>1, <3>2, <4>1 DEF SlotOK
    <3>3. CASE t.kid[e][m] # n
      <4>1. u.kid[e][m] = t.kid[e][m] /\ t.kid[e][m] # up
        BY <1>2, <1>8, <1>16, <2>1, <3>1, <3>3, NodesAssumption
      <4>2. sub2[u.kid[e][m]] = sub[t.kid[e][m]]
        BY <1>9, <3>1, <3>3, <4>1
      <4>3. t.kid[e][m] # Nil => t.kid[e][m] # mid
        BY <1>3, <1>16, <3>1
      <4>4. t.kid[e][m] # Nil => u.parent[t.kid[e][m]] = m
        BY <1>7, <3>1, <3>3, <4>1, <4>3
      <4> QED
        BY <1>12, <3>1, <4>1, <4>2, <4>4 DEF SlotOK
    <3> QED
      BY <3>2, <3>3
  <2>4. Hangs(u, sub2, m)
    <3>1. CASE m = t.root
      BY <1>5, <1>7, <1>16, <3>1 DEF Hangs
    <3>2. CASE m # t.root
      <4>1. PICK q \in sub[t.root], e \in Dirs : q = t.parent[m] /\ t.kid[e][q] = m
        BY <2>1, <3>2 DEF NodeOK, Hangs
      <4>2. q \in Nodes
        BY <1>1, <1>11, ShapeOfNode DEF Family
      <4>3. CASE m = mid
        BY <1>1, <1>2, <1>7, <1>12, <2>1, <4>3, NodesAssumption DEF Hangs
      <4>4. CASE m # mid
        <5>1. u.parent[m] = q
          BY <1>7, <1>16, <2>1, <4>1, <4>4
        <5>2. u.kid[e][q] = m
          <6>1. CASE q = n
            BY <1>1, <1>7, <1>16, <4>1, <6>1, <1>a, <1>t
          <6>2. CASE q = up
            BY <1>1, <1>7, <4>1, <4>4, <6>2, <1>c, <1>t
          <6>3. CASE q # n /\ q # up
            BY <1>8, <1>16, <4>1, <4>2, <6>3
          <6> QED
            BY <6>1, <6>2, <6>3
        <5> QED
          BY <1>12, <5>1, <5>2 DEF Hangs
      <4> QED
        BY <4>3, <4>4
    <3> QED
      BY <3>1, <3>2
  <2>5. sub2[m] = {m} \cup sub2[u.kid["left"][m]] \cup sub2[u.kid["right"][m]]
    BY <1>1, <2>1, <2>2, <2>3 DEF NodeOK
  <2> QED
    BY <1>12, <2>1, <2>2, <2>3, <2>4, <2>5 DEF NodeOK
<1>17. u.root # Nil => u.root \in sub2[u.root] /\ u.parent[u.root] = Nil
  <2>1. t.root \in sub[t.root] /\ t.parent[t.root] = Nil
    BY <1>11, NodesAssumption DEF Shape
  <2>2. CASE p = Nil
    BY <1>2, <1>7, <1>12, <2>2
  <2>3. CASE p # Nil
    BY <1>2, <1>3, <1>5, <1>7, <1>11, <1>12, <2>1, <2>3, NodesAssumption
  <2> QED
    BY <2>2, <2>3
<1>18. \A m \in sub2[u.root] : NodeOK(u, key, sub2, m)
  BY <1>12, <1>14, <1>15, <1>16
<1> QED
  BY <1>1, <1>7, <1>9, <1>10, <1>12, <1>17, <1>18 DEF Shape
-----------------------------------------------------------------------------
(* Colours and heights: h[n] is the number of black nodes on a way down     *)
(* from n, n too.                                                           *)
Weighs(t, h, n) == \A d \in Dirs : /\ t.red[n] => h[n] = h[t.kid[d][n]]
                                   /\ ~t.red[n] => h[n] = h[t.kid[d][n]] + 1

Heights(h) == h \in [Places -> Nat] /\ h[Nil] = 0

(* n, if it is red, has no red child, or but the child x. *)
Quiet(t, x, n) == t.red[n] => \A d \in Dirs : t.kid[d][n] # x => ~IsRed(t, t.kid[d][n])

(* It leaves the black nodes below all but the two it turns. *)
LEMMA WeighsRotated ==
  ASSUME NEW t, NEW key, NEW sub, Shape(t, key, sub), NEW n \in sub[t.root], NEW d \in Dirs,
         NEW up, NEW mid, NEW p, Turns(t, n, d, up, mid, p),
         NEW u, Rotated(t, u, n, d, up, mid, p),
         NEW h, NEW h2, Heights(h),
         h2[up] = h[n], \A m \in Places \ {n, up} : h2[m] = h[m],
         NEW m \in sub[t.root], m # n, m # up, Weighs(t, h, m)
  PROVE  Weighs(u, h2, m)
<1>1. m \in Nodes /\ n \in Nodes /\ u.red = t.red /\ Other[d] \in Dirs
  BY ShapeOfMember, OtherFacts DEF Rotated
<1>2. h2[m] = h[m]
  BY <1>1 DEF Places
<1>3. t.parent[up] = n
  BY <1>1, ShapeOfKid DEF Turns
<1>4. SUFFICES ASSUME NEW e \in Dirs PROVE h2[u.kid[e][m]] = h[t.kid[e][m]]
  BY <1>1, <1>2 DEF Weighs
<1>5. /\ t.kid[e][m] \in Places /\ (t.kid[e][m] # Nil => t.parent[t.kid[e][m]] = m)
  BY ShapeOfKid
<1>p. p = t.parent[n] /\ up # Nil
  BY DEF Turns
<1>6. /\ m = p /\ t.kid[e][m] = n => u.kid[e][m] = up
      /\ ~(m = p /\ t.kid[e][m] = n) => u.kid[e][m] = t.kid[e][m]
  BY <1>1 DEF Rotated
<1>7. CASE t.kid[e][m] = n
  BY <1>1, <1>5, <1>6, <1>7, <1>p, NodesAssumption
<1>8. CASE t.kid[e][m] # n
  <2>1. t.kid[e][m] # up
    BY <1>3, <1>5, <1>p
  <2> QED
    BY <1>5, <1>6, <1>8, <2>1
<1> QED
  BY <1>7, <1>8

(* A node away from a rotation that was quiet still is, if what came up is  *)
(* not red below a red node.                                                *)
LEMMA QuietRotated ==
  ASSUME NEW t, NEW key, NEW sub, Shape(t, key, sub), NEW n \in sub[t.root], NEW d \in Dirs,
         NEW up, NEW mid, NEW p, Turns(t, n, d, up, mid, p),
         NEW u, Rotated(t, u, n, d, up, mid, p),
         NEW m \in sub[t.root], m # n, m # up, Quiet(t, n, m),
         m = p => ~t.red[m] \/ ~t.red[up]
  PROVE  Quiet(u, Nil, m)
<1>1. m \in Nodes /\ n \in Nodes /\ u.red = t.red
  BY ShapeOfMember DEF Rotated
<1>2. SUFFICES ASSUME t.red[m], NEW e \in Dirs
               PROVE  ~IsRed(u, u.kid[e][m])
  BY <1>1 DEF Quiet
<1>3. /\ t.kid[e][m] \in Places /\ (t.kid[e][m] # Nil => t.parent[t.kid[e][m]] = m)
  BY ShapeOfKid
<1>p. p = t.parent[n]
  BY DEF Turns
<1>4. /\ m = p /\ t.kid[e][m] = n => u.kid[e][m] = up
      /\ ~(m = p /\ t.kid[e][m] = n) => u.kid[e][m] = t.kid[e][m]
  BY <1>1 DEF Rotated
<1>5. CASE t.kid[e][m] = n
  BY <1>1, <1>2, <1>3, <1>4, <1>5, <1>p, NodesAssumption DEF IsRed
<1>6. CASE t.kid[e][m] # n
  BY <1>1, <1>2, <1>3, <1>4, <1>6 DEF Quiet, IsRed
<1> QED
  BY <1>5, <1>6

(* A red-black tree, with its heights *)
Coloured(t, key, sub, h) ==
    /\ Shape(t, key, sub) /\ Heights(h)
    /\ \A m \in sub[t.root] : Weighs(t, h, m) /\ Quiet(t, Nil, m)
    /\ ~IsRed(t, t.root)

(* ... but for a red node n, whose parent may be red too *)
Growing(t, key, sub, h, n) ==
    /\ Shape(t, key, sub) /\ Heights(h)
    /\ n \in sub[t.root] /\ t.red[n]
    /\ \A m \in sub[t.root] : Weighs(t, h, m) /\ Quiet(t, n, m)
    /\ t.root # n => ~t.red[t.root]

(* b is black and r red. *)
BlackRed(t, u, b, r) ==
    /\ u \in Trees /\ u.root = t.root /\ u.kid = t.kid /\ u.parent = t.parent
    /\ ~u.red[b] /\ u.red[r]
    /\ \A m \in Nodes \ {b, r} : u.red[m] = t.red[m]

(* RB_SET_BLACKRED changes two colours. *)
LEMMA SetBlackRedFields ==
  ASSUME NEW t \in Trees, NEW b \in Nodes, NEW r \in Nodes, b # r
  PROVE  BlackRed(t, SetBlackRed(t, b, r), b, r)
<1>a. PICK a : a = Paint(t, b, FALSE)
  OBVIOUS
<1>1. Painted(t, a, b, FALSE)
  BY <1>a, PaintFields DEF Places
<1>2. Painted(a, SetBlackRed(t, b, r), r, TRUE)
  <2>1. SetBlackRed(t, b, r) = Paint(a, r, TRUE)
    BY <1>a DEF SetBlackRed
  <2>2. a \in Trees /\ r \in Places
    BY <1>1 DEF Painted, Places
  <2> QED
    BY <2>1, <2>2, PaintFields
<1> QED
  BY <1>1, <1>2 DEF Painted, BlackRed

(* There is the set of nodes below each node after a rotation ... *)
LEMMA MovedExists ==
  ASSUME NEW t, NEW key, NEW sub, Shape(t, key, sub), NEW n \in sub[t.root],
         NEW up \in Nodes, up # n, NEW mid \in Places
  PROVE  \E sub2 : Moved(sub, sub2, n, up, mid)
<1>1. n \in Nodes /\ sub \in [Places -> SUBSET Nodes]
  BY ShapeOfMember DEF Shape
<1> WITNESS [sub EXCEPT ![up] = sub[n], ![n] = (sub[n] \ sub[up]) \cup sub[mid]]
<1> QED
  BY <1>1 DEF Moved, Places

(* Two heights that change places *)
Raised(h, h2, n, up, hn, hup) ==
    /\ Heights(h2) /\ h2[n] = hn /\ h2[up] = hup
    /\ \A m \in Places \ {n, up} : h2[m] = h[m]

(* ... and the number of black ones. *)
LEMMA RaisedExists ==
  ASSUME NEW h, Heights(h), NEW n \in Nodes, NEW up \in Nodes, n # up,
         NEW hn \in Nat, NEW hup \in Nat
  PROVE  \E h2 : Raised(h, h2, n, up, hn, hup)
<1> WITNESS [h EXCEPT ![n] = hn, ![up] = hup]
<1> QED
  BY NodesAssumption DEF Raised, Heights, Places

(* A line from g to p to n, on side d, of which p and n alone are red *)
Line(t, n, p, g, d) ==
    /\ p = t.kid[d][g] /\ IsRed(t, p) /\ ~t.red[g]
    /\ n = t.kid[d][p] /\ IsRed(t, n)
    /\ ~IsRed(t, t.kid[Other[d]][g]) /\ ~IsRed(t, t.kid[Other[d]][p])

(* It becomes p with n and g below. *)
LEMMA StraightenColours ==
  ASSUME NEW t, NEW key, NEW sub, NEW h, Shape(t, key, sub), Heights(h),
         NEW g \in sub[t.root], NEW d \in Dirs, NEW p, NEW n, Line(t, n, p, g, d),
         \A m \in sub[t.root] : Weighs(t, h, m),
         \A m \in sub[t.root] \ {p} : Quiet(t, Nil, m),
         ~IsRed(t, t.root)
  PROVE  LET u == Straighten(t, p, g, d)
         IN  \E sub2, h2 : /\ Coloured(u, key, sub2, h2) /\ sub2[u.root] = sub[t.root]
                           /\ n \in sub[t.root] /\ u.red[n] /\ u.parent[n] = p /\ ~u.red[p]
<1>o. PICK o : o = Other[d]
  OBVIOUS
<1>mid. PICK mid : mid = t.kid[o][p]
  OBVIOUS
<1>c. PICK c : c = t.kid[o][g]
  OBVIOUS
<1>q. PICK q : q = t.parent[g]
  OBVIOUS
<1>v. PICK v : v = SetBlackRed(t, p, g)
  OBVIOUS
<1>u. PICK u : u = Rotate(v, g, o)
  OBVIOUS
<1>l. /\ p = t.kid[d][g] /\ IsRed(t, p) /\ ~t.red[g] /\ n = t.kid[d][p] /\ IsRed(t, n)
      /\ ~IsRed(t, t.kid[o][g]) /\ ~IsRed(t, t.kid[o][p])
  BY <1>o DEF Line
<1>1. /\ o \in Dirs /\ o # d /\ Other[o] = d /\ Dirs = {d, o} /\ p # Nil /\ n # Nil
      /\ t \in Trees
  BY <1>o, <1>l, OtherFacts DEF IsRed, Shape
<1>2. /\ g \in Nodes /\ p \in Nodes /\ p \in sub[t.root] /\ p # g /\ c \in Places
      /\ t.parent[p] = g /\ p # t.root /\ p # c /\ c # g
      /\ c # Nil => t.parent[c] = g /\ c \in sub[t.root] /\ c \in Nodes
  <2>1. Family(t, key, sub, g, d, p, c)
    BY <1>o, <1>c, <1>l, ShapeOfNode
  <2>2. Family(t, key, sub, g, o, c, p)
    BY <1>1, <1>c, <1>l, ShapeOfNode
  <2> QED
    BY <1>1, <2>1, <2>2 DEF Family
<1>3. /\ n \in Nodes /\ n \in sub[t.root] /\ n # p /\ mid \in Places /\ n # mid /\ mid # p
      /\ t.parent[n] = p
      /\ mid # Nil => t.parent[mid] = p /\ mid \in sub[t.root] /\ mid \in Nodes
  <2>1. Family(t, key, sub, p, d, n, mid)
    BY <1>2, <1>o, <1>mid, <1>l, ShapeOfNode
  <2>2. Family(t, key, sub, p, o, mid, n)
    BY <1>1, <1>2, <1>mid, <1>l, ShapeOfNode
  <2> QED
    BY <1>1, <2>1, <2>2 DEF Family
<1>4. n # g /\ mid # g
  <2>1. Descends(t, sub, p, g)
    BY <1>2, ShapeOfParent
  <2> QED
    BY <1>1, <1>2, <1>mid, <1>l, <2>1, NodesAssumption DEF Descends
<1>5. BlackRed(t, v, p, g)
  BY <1>1, <1>2, <1>v, SetBlackRedFields
<1>6. v \in Trees /\ v.root = t.root /\ v.kid = t.kid /\ v.parent = t.parent
  BY <1>5 DEF BlackRed
<1>7. Shape(v, key, sub)
  BY <1>6, ShapeOfPainted
<1>8. g \in sub[v.root] /\ Turns(v, g, o, p, mid, q)
  BY <1>1, <1>6, <1>mid, <1>q, <1>l DEF Turns
<1>9. Rotated(v, u, g, o, p, mid, q)
  BY <1>1, <1>7, <1>8, <1>u, RotateRotates
<1>10. PICK sub2 : Moved(sub, sub2, g, p, mid)
  BY <1>2, <1>3, MovedExists
<1>11. Shape(u, key, sub2) /\ sub2[u.root] = sub[t.root]
  BY <1>1, <1>6, <1>7, <1>8, <1>9, <1>10, ShapeOfRotated
<1>12. /\ h[p] \in Nat /\ h[g] \in Nat /\ h[g] = h[p] + 1 /\ h[c] = h[p]
       /\ h[n] = h[p] /\ h[mid] = h[p]
  <2>1. Weighs(t, h, g) /\ Weighs(t, h, p) /\ t.red[p]
    BY <1>2, <1>l DEF IsRed
  <2>2. h[g] = h[p] + 1 /\ h[g] = h[c] + 1
    BY <1>1, <1>c, <1>l, <2>1 DEF Weighs
  <2>3. h[p] = h[n] /\ h[p] = h[mid]
    BY <1>1, <1>mid, <1>l, <2>1 DEF Weighs
  <2>4. h[p] \in Nat /\ h[g] \in Nat /\ h[c] \in Nat
    BY <1>2 DEF Heights, Places
  <2> QED
    BY <2>2, <2>3, <2>4
<1>13. PICK h2 : Raised(h, h2, g, p, h[p], h[g])
  BY <1>2, <1>12, RaisedExists
<1>14. /\ h2[g] = h[p] /\ h2[p] = h[g] /\ \A m \in Places \ {g, p} : h2[m] = h[m]
       /\ Heights(h2)
  BY <1>13 DEF Raised
<1>15. h2[mid] = h[p] /\ h2[c] = h[p] /\ h2[n] = h[p]
  BY <1>2, <1>3, <1>4, <1>12, <1>14 DEF Places
<1>16. /\ u.kid[d][g] = mid /\ u.kid[o][p] = g /\ u.kid[o][g] = c /\ u.kid[d][p] = n
       /\ u.red = v.red /\ u.parent[p] = q /\ u.parent[g] = p
       /\ q = Nil => u.root = p
       /\ q # Nil => u.root = t.root
       /\ u.parent[n] = p
  <2>1. Other[o] = d /\ v.kid[o][g] = c /\ v.kid[d][p] = n /\ v.parent[n] = p /\ n \in Nodes \ {g, p, mid}
    BY <1>1, <1>3, <1>4, <1>6, <1>c, <1>l
  <2> QED
    BY <2>1, <1>6, <1>9 DEF Rotated
<1>17. ~v.red[p] /\ v.red[g] /\ \A m \in Nodes \ {p, g} : v.red[m] = t.red[m]
  BY <1>5 DEF BlackRed
<1>18. ASSUME NEW m \in sub[t.root]
       PROVE  Weighs(u, h2, m) /\ Quiet(u, Nil, m)
  <2>1. CASE m = g
    <3>1. Weighs(u, h2, g)
      BY <1>1, <1>14, <1>15, <1>16, <1>17 DEF Weighs
    <3>2. ~IsRed(u, mid) /\ ~IsRed(u, c)
      BY <1>2, <1>3, <1>4, <1>16, <1>17, <1>c, <1>mid, <1>l DEF IsRed
    <3>3. Quiet(u, Nil, g)
      BY <1>1, <1>16, <3>2 DEF Quiet
    <3> QED
      BY <2>1, <3>1, <3>3
  <2>2. CASE m = p
    <3>1. ~u.red[p]
      BY <1>16, <1>17
    <3>2. h2[p] = h2[n] + 1 /\ h2[p] = h2[g] + 1
      BY <1>12, <1>14, <1>15
    <3>3. \A e \in Dirs : u.kid[e][p] = n \/ u.kid[e][p] = g
      BY <1>1, <1>16
    <3> QED
      BY <2>2, <3>1, <3>2, <3>3 DEF Weighs, Quiet
  <2>3. CASE m # g /\ m # p
    <3>1. m \in Nodes /\ v.red[m] = t.red[m]
      BY <1>17, <2>3, ShapeOfMember
    <3>2. Weighs(v, h, m)
      BY <1>6, <3>1 DEF Weighs
    <3>3. Weighs(u, h2, m)
      BY <1>1, <1>6, <1>7, <1>8, <1>9, <1>14, <2>3, <3>2, WeighsRotated
    <3>4. Quiet(v, g, m)
      <4> SUFFICES ASSUME t.red[m], NEW e \in Dirs, t.kid[e][m] # g
                   PROVE  ~IsRed(v, t.kid[e][m])
        BY <1>6, <3>1 DEF Quiet
      <4>1. ~IsRed(t, t.kid[e][m]) /\ t.kid[e][m] \in Places
        BY <1>1, <2>3, <3>1, FieldsTyped, NodesAssumption DEF Quiet, IsRed
      <4> QED
        BY <1>17, <4>1 DEF IsRed, Places
    <3>5. Quiet(u, Nil, m)
      BY <1>1, <1>6, <1>7, <1>8, <1>9, <1>17, <2>3, <3>4, QuietRotated
    <3> QED
      BY <3>3, <3>5
  <2> QED
    BY <2>1, <2>2, <2>3
<1>19. ~IsRed(u, u.root)
  <2>1. CASE q = Nil
    BY <1>16, <1>17, <2>1 DEF IsRed
  <2>2. CASE q # Nil
    <3>1. t.root # g /\ t.root \in Nodes
      BY <1>q, <2>2, ShapeOfParent, ShapeOfMember DEF Descends
    <3> QED
      BY <1>2, <1>16, <1>17, <2>2, <3>1 DEF IsRed
  <2> QED
    BY <2>1, <2>2
<1>20. Coloured(u, key, sub2, h2)
  BY <1>11, <1>14, <1>18, <1>19 DEF Coloured
<1>21. u.red[n] /\ ~u.red[p]
  BY <1>3, <1>4, <1>16, <1>17, <1>l DEF IsRed
<1>22. Straighten(t, p, g, d) = u
  BY <1>o, <1>v, <1>u DEF Straighten
<1> QED
  BY <1>3, <1>11, <1>16, <1>20, <1>21, <1>22

(* What a turn of insertion meets: p, the red parent of n, and g above it *)
RedLine(t, sub, n, p, g, d) ==
    /\ d \in Dirs /\ g \in sub[t.root] /\ p \in sub[t.root] /\ n \in sub[t.root]
    /\ p \in Nodes /\ g \in Nodes /\ n \in Nodes /\ t.red[p] /\ t.red[n]
    /\ t.kid[d][g] = p /\ t.kid[Other[d]][g] # p
    /\ ~t.red[g] /\ g # n /\ g # p /\ p # n /\ t.root # p /\ t.root # n /\ ~t.red[t.root]
    /\ t.kid[d][p] = n \/ t.kid[Other[d]][p] = n
    /\ \A m \in sub[t.root] \ {p} : Quiet(t, Nil, m)
    /\ sub[n] \subseteq sub[g] /\ p \in sub[g] /\ p \notin sub[n]

(* A red node with a red parent has a grandparent, which is black. *)
LEMMA RedParent ==
  ASSUME NEW t, NEW key, NEW sub, NEW h, NEW n, Growing(t, key, sub, h, n),
         IsRed(t, t.parent[n])
  PROVE  LET p == t.parent[n]
             g == t.parent[p]
         IN  RedLine(t, sub, n, p, g, Side(t, g, p))
<1>p. PICK p : p = t.parent[n]
  OBVIOUS
<1>g. PICK g : g = t.parent[p]
  OBVIOUS
<1>d. PICK d : d = Side(t, g, p)
  OBVIOUS
<1>1. Shape(t, key, sub) /\ n \in sub[t.root] /\ t.red[n] /\ p # Nil /\ t.red[p]
  BY <1>p DEF Growing, IsRed
<1>2. Descends(t, sub, n, p) /\ n \in Nodes
  BY <1>1, <1>p, ShapeOfParent, ShapeOfMember
<1>3. p \in sub[t.root] /\ p \in Nodes /\ p # n /\ n # t.root /\ sub[n] \subseteq sub[p] /\ p \notin sub[n]
  BY <1>1, <1>2 DEF Descends
<1>4. ~t.red[t.root] /\ p # t.root
  BY <1>1, <1>3 DEF Growing
<1>5. Descends(t, sub, p, g) /\ p \in sub[p]
  BY <1>1, <1>3, <1>g, ShapeOfParent, ShapeOfMember
<1>6. /\ g # Nil /\ g \in sub[t.root] /\ g \in Nodes /\ g # p
      /\ \E e \in Dirs : t.kid[e][g] = p /\ t.kid[Other[e]][g] # p /\ Side(t, g, p) = e
      /\ \A e \in Dirs : t.kid[e][p] # g
      /\ sub[p] \subseteq sub[g]
  BY <1>4, <1>5 DEF Descends
<1>7. d \in Dirs /\ t.kid[d][g] = p /\ t.kid[Other[d]][g] # p
  BY <1>6, <1>d
<1>8. t.kid[d][p] = n \/ t.kid[Other[d]][p] = n
  BY <1>1, <1>2, <1>7, OtherFacts DEF Descends
<1>9. g # n
  BY <1>6, <1>7, <1>8, OtherFacts
<1>10. ~t.red[g]
  <2>1. Quiet(t, n, g)
    BY <1>6 DEF Growing
  <2> QED
    BY <1>1, <1>3, <1>7, <2>1 DEF Quiet, IsRed
<1>11. ASSUME NEW m \in sub[t.root], m # p
       PROVE  Quiet(t, Nil, m)
  <2>1. Quiet(t, n, m)
    BY DEF Growing
  <2>2. \A e \in Dirs : t.kid[e][m] # n
    <3> SUFFICES ASSUME NEW e \in Dirs, t.kid[e][m] = n PROVE FALSE
      OBVIOUS
    <3>1. n # Nil => t.parent[n] = m
      BY <1>1, ShapeOfKid
    <3> QED
      BY <1>2, <1>11, <1>p, <3>1, NodesAssumption
  <2> QED
    BY <2>1, <2>2 DEF Quiet
<1>12. RedLine(t, sub, n, p, g, d)
  BY <1>1, <1>2, <1>3, <1>4, <1>5, <1>6, <1>7, <1>8, <1>9, <1>10, <1>11 DEF RedLine
<1> QED
  BY <1>12, <1>p, <1>g, <1>d

(* What a turn of insertion does: u and x are the tree and the red node in *)
(* it of the next turn.                                                    *)
Grown(t, key, sub, g, u, x) ==
    \E sub2, h2 : /\ Growing(u, key, sub2, h2, x) /\ sub2[u.root] = sub[t.root]
                  /\ (sub2 = sub /\ x = g) \/ ~IsRed(u, u.parent[x])

(* The rotation at the grandparent ends the two reds in a line. *)
LEMMA StraightenGrows ==
  ASSUME NEW t, NEW key, NEW sub, NEW h, Shape(t, key, sub), Heights(h),
         NEW g \in sub[t.root], NEW d \in Dirs, NEW p, NEW n, Line(t, n, p, g, d),
         \A m \in sub[t.root] : Weighs(t, h, m),
         \A m \in sub[t.root] \ {p} : Quiet(t, Nil, m),
         ~IsRed(t, t.root)
  PROVE  Grown(t, key, sub, g, Straighten(t, p, g, d), n)
<1>u. PICK u : u = Straighten(t, p, g, d)
  OBVIOUS
<1>1. PICK sub2, h2 : /\ Coloured(u, key, sub2, h2) /\ sub2[u.root] = sub[t.root]
                      /\ n \in sub[t.root] /\ u.red[n] /\ u.parent[n] = p /\ ~u.red[p]
  BY <1>u, StraightenColours
<1>2. Growing(u, key, sub2, h2, n)
  <2>1. \A m \in sub2[u.root] : Weighs(u, h2, m) /\ Quiet(u, n, m)
    BY <1>1 DEF Coloured, Quiet, IsRed
  <2>2. u.root # n => ~u.red[u.root]
    BY <1>1, NodesAssumption, ShapeOfMember DEF Coloured, IsRed
  <2> QED
    BY <1>1, <2>1, <2>2 DEF Coloured, Growing
<1>3. ~IsRed(u, u.parent[n])
  BY <1>1 DEF IsRed
<1> QED
  BY <1>u, <1>1, <1>2, <1>3 DEF Grown

(* With a red uncle the colours alone move the two reds up to the grandparent. *)
LEMMA RecolourGrows ==
  ASSUME NEW t, NEW key, NEW sub, NEW h, NEW n, Growing(t, key, sub, h, n),
         NEW p, NEW g, NEW d, RedLine(t, sub, n, p, g, d),
         NEW c, IsRed(t, c), c = t.kid[Other[d]][g]
  PROVE  Grown(t, key, sub, g, SetBlackRed(Paint(t, c, FALSE), p, g), g)
<1>a. PICK a : a = Paint(t, c, FALSE)
  OBVIOUS
<1>u. PICK u : u = SetBlackRed(a, p, g)
  OBVIOUS
<1>o. PICK o : o = Other[d]
  OBVIOUS
<1>1. /\ d \in Dirs /\ g \in sub[t.root] /\ p \in sub[t.root] /\ n \in sub[t.root]
      /\ p \in Nodes /\ g \in Nodes /\ n \in Nodes /\ t.red[p] /\ t.red[n]
      /\ t.kid[d][g] = p /\ t.kid[Other[d]][g] # p
      /\ ~t.red[g] /\ g # n /\ g # p /\ p # n /\ t.root # p /\ t.root # n /\ ~t.red[t.root]
      /\ t.kid[d][p] = n \/ t.kid[Other[d]][p] = n
      /\ \A m \in sub[t.root] \ {p} : Quiet(t, Nil, m)
  BY DEF RedLine
<1>s. Shape(t, key, sub)
  BY DEF Growing
<1>2. /\ Shape(t, key, sub) /\ t \in Trees /\ Heights(h)
      /\ \A m \in sub[t.root] : Weighs(t, h, m) /\ Quiet(t, n, m)
  BY DEF Growing, Shape
<1>d. d \in Dirs
  BY <1>1
<1>k. ASSUME NEW m \in sub[t.root], NEW e \in Dirs
      PROVE  /\ t.kid[e][m] \in Places
             /\ t.kid[e][m] # Nil => t.parent[t.kid[e][m]] = m
  BY <1>s, ShapeOfKid
<1>3. o \in Dirs /\ o # d /\ Other[o] = d /\ Dirs = {d, o}
  BY <1>d, <1>o, OtherFacts
<1>4. /\ c \in sub[t.root] /\ c \in Nodes /\ c # g /\ c # p /\ t.red[c]
      /\ t.parent[c] = g /\ t.parent[p] = g /\ c # t.root /\ t.kid[o][g] = c
  <2>1. Family(t, key, sub, g, o, c, p)
    BY <1>1, <1>2, <1>3, <1>o, ShapeOfNode
  <2>2. Family(t, key, sub, g, d, p, c)
    BY <1>1, <1>2, <1>3, <1>o, ShapeOfNode
  <2>3. p # Nil /\ c # Nil /\ t.red[c]
    BY <1>1, NodesAssumption DEF IsRed
  <2> QED
    BY <1>1, <1>o, <2>1, <2>2, <2>3 DEF Family
<1>5. Painted(t, a, c, FALSE)
  BY <1>2, <1>4, <1>a, PaintFields DEF Places
<1>6. BlackRed(a, u, p, g)
  BY <1>1, <1>5, <1>u, SetBlackRedFields DEF Painted
<1>7. /\ u \in Trees /\ u.root = t.root /\ u.kid = t.kid /\ u.parent = t.parent
      /\ ~u.red[p] /\ ~u.red[c] /\ u.red[g]
      /\ \A m \in Nodes \ {p, c, g} : u.red[m] = t.red[m]
  BY <1>1, <1>4, <1>5, <1>6 DEF Painted, BlackRed
<1>8. Shape(u, key, sub)
  BY <1>2, <1>7, ShapeOfPainted
<1>9. h[p] \in Nat /\ h[c] \in Nat /\ h[g] \in Nat /\ h[g] = h[p] + 1 /\ h[g] = h[c] + 1
  <2>1. Weighs(t, h, g)
    BY <1>1, <1>2
  <2> QED
    BY <1>1, <1>2, <1>3, <1>4, <2>1 DEF Weighs, Heights, Places
<1>10. PICK h2 : Raised(h, h2, p, c, h[p] + 1, h[c] + 1)
  BY <1>1, <1>2, <1>4, <1>9, RaisedExists
<1>11. /\ Heights(h2) /\ h2[p] = h[p] + 1 /\ h2[c] = h[c] + 1
       /\ \A m \in Places \ {p, c} : h2[m] = h[m]
  BY <1>10 DEF Raised
<1>12. ASSUME NEW m \in sub[t.root]
       PROVE  Weighs(u, h2, m) /\ Quiet(u, g, m)
  <2>1. m \in Nodes /\ Weighs(t, h, m) /\ Quiet(t, n, m)
    BY <1>2, ShapeOfMember
  <2>2. ASSUME NEW e \in Dirs
        PROVE  /\ t.kid[e][m] \in Places
               /\ t.kid[e][m] # Nil => t.parent[t.kid[e][m]] = m
    BY <1>k
  <2>3. CASE m = g
    <3>1. h2[g] = h[g]
      BY <1>1, <1>4, <1>11 DEF Places
    <3>2. \A e \in Dirs : t.kid[e][g] = p \/ t.kid[e][g] = c
      BY <1>1, <1>3, <1>4
    <3>3. Weighs(u, h2, g)
      <4>1. h2[p] = h2[g] /\ h2[c] = h2[g]
        BY <1>9, <1>11, <3>1
      <4>2. u.red[g] /\ u.kid = t.kid
        BY <1>7
      <4> QED
        BY <3>2, <4>1, <4>2 DEF Weighs
    <3>4. Quiet(u, g, g)
      <4>1. ~IsRed(u, p) /\ ~IsRed(u, c) /\ u.kid = t.kid
        BY <1>7 DEF IsRed
      <4> QED
        BY <3>2, <4>1 DEF Quiet
    <3> QED
      BY <2>3, <3>3, <3>4
  <2>4. CASE m # g
    <3>1. ASSUME NEW e \in Dirs PROVE h2[t.kid[e][m]] = h[t.kid[e][m]]
      BY <1>1, <1>4, <1>11, <2>2, <2>4, NodesAssumption
    <3>2. CASE m \in {p, c}
      <4>1. t.red[m] /\ ~u.red[m] /\ h2[m] = h[m] + 1
        BY <1>1, <1>4, <1>7, <1>11, <3>2
      <4>2. Quiet(u, g, m)
        BY <4>1 DEF Quiet
      <4>3. Weighs(u, h2, m)
        <5> SUFFICES ASSUME NEW e \in Dirs PROVE h2[m] = h2[u.kid[e][m]] + 1
          BY <4>1 DEF Weighs
        <5>1. h[m] = h[t.kid[e][m]]
          BY <2>1, <4>1 DEF Weighs
        <5>2. h2[t.kid[e][m]] = h[t.kid[e][m]] /\ u.kid = t.kid
          BY <1>7, <3>1
        <5> QED
          BY <4>1, <5>1, <5>2
      <4> QED
        BY <4>2, <4>3
    <3>3. CASE m \notin {p, c}
      <4>1. u.red[m] = t.red[m] /\ h2[m] = h[m]
        BY <1>7, <1>11, <2>1, <2>4, <3>3 DEF Places
      <4>2. Weighs(u, h2, m)
        BY <1>7, <2>1, <3>1, <4>1 DEF Weighs
      <4>3. Quiet(t, Nil, m)
        BY <1>1, <3>3
      <4>4. ASSUME t.red[m], NEW e \in Dirs, t.kid[e][m] # g
            PROVE  ~IsRed(u, t.kid[e][m])
        <5>1. t.kid[e][m] # Nil => t.kid[e][m] \in Nodes \ {p, c, g}
          BY <1>4, <2>2, <2>4, <4>4 DEF Places
        <5>2. ~IsRed(t, t.kid[e][m])
          BY <4>3, <4>4 DEF Quiet, IsRed
        <5> QED
          BY <1>7, <5>1, <5>2 DEF IsRed
      <4> QED
        BY <1>7, <4>1, <4>2, <4>4 DEF Quiet
    <3> QED
      BY <3>2, <3>3
  <2> QED
    BY <2>3, <2>4
<1>13. t.root # g => ~u.red[t.root]
  BY <1>1, <1>2, <1>4, <1>7, ShapeOfMember
<1>14. Growing(u, key, sub, h2, g)
  BY <1>1, <1>7, <1>8, <1>11, <1>12, <1>13 DEF Growing
<1> QED
  BY <1>a, <1>u, <1>7, <1>14 DEF Grown

(* With a black uncle, and n on the outer side, one rotation does it ... *)
LEMMA OuterGrows ==
  ASSUME NEW t, NEW key, NEW sub, NEW h, NEW n, Growing(t, key, sub, h, n),
         NEW p, NEW g, NEW d, RedLine(t, sub, n, p, g, d),
         ~IsRed(t, t.kid[Other[d]][g]), t.kid[Other[d]][p] # n
  PROVE  Grown(t, key, sub, g, Straighten(t, p, g, d), n)
<1>1. /\ d \in Dirs /\ g \in sub[t.root] /\ p \in sub[t.root] /\ p \in Nodes /\ n \in Nodes
      /\ t.red[p] /\ t.red[n] /\ ~t.red[g] /\ t.kid[d][g] = p /\ ~t.red[t.root]
      /\ t.kid[d][p] = n \/ t.kid[Other[d]][p] = n
  BY DEF RedLine
<1>2. /\ Shape(t, key, sub) /\ Heights(h)
      /\ \A m \in sub[t.root] : Weighs(t, h, m) /\ Quiet(t, n, m)
  BY DEF Growing
<1>3. IsRed(t, p) /\ IsRed(t, n) /\ ~IsRed(t, t.root)
  BY <1>1, NodesAssumption DEF IsRed
<1>4. ~IsRed(t, t.kid[Other[d]][p])
  <2>1. Quiet(t, n, p) /\ Other[d] \in Dirs
    BY <1>1, <1>2, OtherFacts
  <2> QED
    BY <1>1, <2>1 DEF Quiet
<1>5. Line(t, n, p, g, d)
  BY <1>1, <1>3, <1>4 DEF Line
<1>6. \A m \in sub[t.root] \ {p} : Quiet(t, Nil, m)
  BY DEF RedLine
<1> QED
  BY <1>1, <1>2, <1>3, <1>5, <1>6, StraightenGrows

(* ... and with n on the inner side two. *)
LEMMA InnerGrows ==
  ASSUME NEW t, NEW key, NEW sub, NEW h, NEW n, Growing(t, key, sub, h, n),
         NEW p, NEW g, NEW d, RedLine(t, sub, n, p, g, d),
         ~IsRed(t, t.kid[Other[d]][g]), t.kid[Other[d]][p] = n
  PROVE  Grown(t, key, sub, g, Straighten(Rotate(t, p, d), n, g, d), p)
<1>o. PICK o : o = Other[d]
  OBVIOUS
<1>a. PICK a : a = t.kid[d][p]
  OBVIOUS
<1>c. PICK c : c = t.kid[o][n]
  OBVIOUS
<1>mid. PICK mid : mid = t.kid[d][n]
  OBVIOUS
<1>u. PICK u : u = Rotate(t, p, d)
  OBVIOUS
<1>1. /\ d \in Dirs /\ g \in sub[t.root] /\ p \in sub[t.root] /\ n \in sub[t.root]
      /\ p \in Nodes /\ g \in Nodes /\ n \in Nodes
      /\ t.red[p] /\ t.red[n] /\ ~t.red[g] /\ t.kid[d][g] = p /\ ~t.red[t.root]
      /\ g # n /\ g # p /\ p # n /\ t.kid[Other[d]][g] # p
  BY DEF RedLine
<1>s. Shape(t, key, sub)
  BY DEF Growing
<1>2. /\ Heights(h)
      /\ \A m \in sub[t.root] : Weighs(t, h, m) /\ Quiet(t, n, m)
  BY DEF Growing
<1>q. \A m \in sub[t.root] \ {p} : Quiet(t, Nil, m)
  BY DEF RedLine
<1>d. d \in Dirs
  BY <1>1
<1>3. o \in Dirs /\ o # d /\ Other[o] = d /\ Dirs = {d, o}
  BY <1>d, <1>o, OtherFacts
<1>4. /\ a \in Places /\ t.parent[n] = p /\ a # n /\ t.parent[p] = g
      /\ a # Nil => t.parent[a] = p /\ a \in Nodes
  <2>1. Family(t, key, sub, p, o, n, a)
    BY <1>1, <1>s, <1>3, <1>a, <1>o, ShapeOfNode
  <2>2. a \in Places /\ (a # Nil => t.parent[a] = p /\ a \in Nodes)
    BY <1>1, <1>s, <1>a, ShapeOfKid
  <2>3. t.parent[p] = g
    BY <1>1, <1>s, ShapeOfKid, NodesAssumption
  <2> QED
    BY <1>1, <2>1, <2>2, <2>3, NodesAssumption DEF Family
<1>5. /\ mid \in Places /\ c \in Places /\ mid # p /\ c # p /\ mid # n /\ c # n
      /\ mid # Nil => mid \in Nodes
      /\ c # Nil => c \in Nodes
  <2>1. Family(t, key, sub, n, d, mid, c)
    BY <1>1, <1>s, <1>mid, <1>c, <1>o, ShapeOfNode
  <2>2. Family(t, key, sub, n, o, c, mid)
    BY <1>1, <1>s, <1>3, <1>mid, <1>c, ShapeOfNode
  <2>3. Descends(t, sub, n, p)
    BY <1>1, <1>s, <1>4, ShapeOfParent
  <2> QED
    BY <1>1, <1>3, <1>mid, <1>c, <2>1, <2>2, <2>3, NodesAssumption DEF Family, Descends
<1>6. Turns(t, p, d, n, mid, g)
  BY <1>1, <1>4, <1>mid, NodesAssumption DEF Turns
<1>7. Rotated(t, u, p, d, n, mid, g)
  BY <1>1, <1>s, <1>6, <1>u, RotateRotates
<1>8. PICK sub2 : Moved(sub, sub2, p, n, mid)
  BY <1>1, <1>s, <1>5, MovedExists
<1>9. Shape(u, key, sub2) /\ sub2[u.root] = sub[t.root]
  BY <1>1, <1>s, <1>6, <1>7, <1>8, ShapeOfRotated
<1>10. /\ u.red = t.red /\ u.root = t.root
       /\ u.kid[o][p] = mid /\ u.kid[d][n] = p /\ u.kid[d][p] = a /\ u.kid[o][n] = c
       /\ u.kid[d][g] = n /\ u.kid[o][g] = t.kid[o][g]
  BY <1>1, <1>3, <1>7, <1>a, <1>c, <1>o, NodesAssumption DEF Rotated
<1>11. h[n] = h[p] /\ h[a] = h[p] /\ h[mid] = h[p] /\ h[c] = h[p]
  <2>1. Weighs(t, h, p) /\ Weighs(t, h, n)
    BY <1>1, <1>2
  <2>2. h[p] = h[n] /\ h[p] = h[a]
    BY <1>1, <1>3, <1>o, <1>a, <2>1 DEF Weighs
  <2>3. h[n] = h[mid] /\ h[n] = h[c]
    BY <1>1, <1>3, <1>mid, <1>c, <2>1 DEF Weighs
  <2> QED
    BY <2>2, <2>3
<1>12. ~IsRed(t, a) /\ ~IsRed(t, mid) /\ ~IsRed(t, c)
  <2>1. Quiet(t, n, p) /\ Quiet(t, n, n)
    BY <1>1, <1>2
  <2>2. ~IsRed(t, a)
    BY <1>1, <1>4, <1>a, <2>1 DEF Quiet
  <2>3. ~IsRed(t, mid) /\ ~IsRed(t, c)
    BY <1>1, <1>3, <1>5, <1>mid, <1>c, <2>1 DEF Quiet
  <2> QED
    BY <2>2, <2>3
<1>13. ASSUME NEW m \in sub[t.root]
       PROVE  Weighs(u, h, m) /\ (m # n => Quiet(u, Nil, m))
  <2>1. CASE m = p
    <3>1. \A e \in Dirs : u.kid[e][p] = mid \/ u.kid[e][p] = a
      BY <1>3, <1>10
    <3>2. u.red[p] /\ ~IsRed(u, mid) /\ ~IsRed(u, a)
      BY <1>1, <1>10, <1>12 DEF IsRed
    <3>3. Weighs(u, h, p) /\ Quiet(u, Nil, p)
      BY <1>11, <3>1, <3>2 DEF Weighs, Quiet
    <3> QED
      BY <2>1, <3>3
  <2>2. CASE m = n
    <3>1. \A e \in Dirs : u.kid[e][n] = p \/ u.kid[e][n] = c
      BY <1>3, <1>10
    <3>2. u.red[n]
      BY <1>1, <1>10
    <3>3. Weighs(u, h, n)
      BY <1>11, <3>1, <3>2 DEF Weighs
    <3> QED
      BY <2>2, <3>3
  <2>3. CASE m # p /\ m # n
    <3>1. Weighs(t, h, m) /\ Quiet(t, Nil, m)
      BY <1>2, <1>q, <2>3
    <3>2. Quiet(t, p, m)
      BY <3>1 DEF Quiet, IsRed
    <3>3. Weighs(u, h, m)
      BY <1>1, <1>2, <1>s, <1>6, <1>7, <1>11, <2>3, <3>1, WeighsRotated
    <3>4. Quiet(u, Nil, m)
      BY <1>1, <1>s, <1>6, <1>7, <2>3, <3>2, QuietRotated
    <3> QED
      BY <3>3, <3>4
  <2> QED
    BY <2>1, <2>2, <2>3
<1>14. Line(u, p, n, g, d)
  <2>1. ~IsRed(u, u.kid[o][g]) /\ ~IsRed(u, u.kid[o][n])
    BY <1>10, <1>12, <1>o DEF IsRed
  <2>2. IsRed(u, n) /\ IsRed(u, p) /\ ~u.red[g]
    BY <1>1, <1>10, NodesAssumption DEF IsRed
  <2> QED
    BY <1>10, <1>o, <2>1, <2>2 DEF Line
<1>15. ~IsRed(u, u.root)
  BY <1>1, <1>10 DEF IsRed
<1>16. /\ g \in sub2[u.root]
       /\ \A m \in sub2[u.root] : Weighs(u, h, m)
       /\ \A m \in sub2[u.root] \ {n} : Quiet(u, Nil, m)
  BY <1>1, <1>9, <1>13
<1>17. Grown(u, key, sub2, g, Straighten(u, n, g, d), p)
  BY <1>d, <1>2, <1>9, <1>14, <1>15, <1>16, StraightenGrows
<1>v. PICK v : v = Straighten(u, n, g, d)
  OBVIOUS
<1>18. PICK sub3, h3 : /\ Growing(v, key, sub3, h3, p) /\ sub3[v.root] = sub2[u.root]
                       /\ (sub3 = sub2 /\ p = g) \/ ~IsRed(v, v.parent[p])
  BY <1>17, <1>v DEF Grown
<1>19. Grown(t, key, sub, g, v, p)
  BY <1>1, <1>9, <1>18 DEF Grown
<1> QED
  BY <1>19, <1>u, <1>v

(* In each case of RB_INSERT_COLOR a turn leads to a tree that grows above. *)
LEMMA InsertTurnGrows ==
  ASSUME NEW t, NEW key, NEW sub, NEW h, NEW n, Growing(t, key, sub, h, n),
         IsRed(t, t.parent[n])
  PROVE  \E u, x, p, g, d : /\ InsertTurn(t, n) = <<u, x>> /\ Grown(t, key, sub, g, u, x)
                            /\ RedLine(t, sub, n, p, g, d)
<1>p. PICK p : p = t.parent[n]
  OBVIOUS
<1>g. PICK g : g = t.parent[p]
  OBVIOUS
<1>d. PICK d : d = Side(t, g, p)
  OBVIOUS
<1>c. PICK c : c = t.kid[Other[d]][g]
  OBVIOUS
<1>1. RedLine(t, sub, n, p, g, d)
  BY <1>p, <1>g, <1>d, RedParent
<1>2. InsertTurn(t, n) = InsertBelow(t, n, p, g, d)
  BY <1>p, <1>g, <1>d DEF InsertTurn
<1>3. CASE IsRed(t, c)
  <2>1. InsertBelow(t, n, p, g, d) = <<SetBlackRed(Paint(t, c, FALSE), p, g), g>>
    BY <1>3, <1>c DEF InsertBelow
  <2>2. Grown(t, key, sub, g, SetBlackRed(Paint(t, c, FALSE), p, g), g)
    BY <1>1, <1>3, <1>c, RecolourGrows
  <2> QED
    BY <1>1, <1>2, <2>1, <2>2
<1>4. CASE ~IsRed(t, c) /\ t.kid[Other[d]][p] = n
  <2>1. InsertBelow(t, n, p, g, d) = <<Straighten(Rotate(t, p, d), n, g, d), p>>
    BY <1>4, <1>c DEF InsertBelow
  <2>2. Grown(t, key, sub, g, Straighten(Rotate(t, p, d), n, g, d), p)
    BY <1>1, <1>4, <1>c, InnerGrows
  <2> QED
    BY <1>1, <1>2, <2>1, <2>2
<1>5. CASE ~IsRed(t, c) /\ t.kid[Other[d]][p] # n
  <2>1. InsertBelow(t, n, p, g, d) = <<Straighten(t, p, g, d), n>>
    BY <1>5, <1>c DEF InsertBelow
  <2>2. Grown(t, key, sub, g, Straighten(t, p, g, d), n)
    BY <1>1, <1>5, <1>c, OuterGrows
  <2> QED
    BY <1>1, <1>2, <2>1, <2>2
<1> QED
  BY <1>3, <1>4, <1>5

(* The red node n of s[1], s[2], is what insertion has come to; A bounds what *)
(* is not below it.                                                           *)
RedAt(key, U, A, s) ==
    \E sub, h : /\ Growing(s[1], key, sub, h, s[2]) /\ sub[s[1].root] = U
                /\ IsRed(s[1], s[1].parent[s[2]]) => Nodes \ sub[s[2]] \subseteq A

(* A turn of the loop keeps what LoopRule wants, with less that is above n. *)
LEMMA InsertTurns ==
  ASSUME NEW key, NEW U, NEW A \in SUBSET Nodes, NEW s \in Trees \X Nodes, RedAt(key, U, A, s),
         IsRed(s[1], s[1].parent[s[2]])
  PROVE  \E B \in SUBSET A : /\ B # A /\ InsertTurn(s[1], s[2]) \in Trees \X Nodes
                             /\ RedAt(key, U, B, InsertTurn(s[1], s[2]))
<1>t. PICK t : t = s[1]
  OBVIOUS
<1>n. PICK n : n = s[2]
  OBVIOUS
<1>1. PICK sub, h : /\ Growing(t, key, sub, h, n) /\ sub[t.root] = U
                    /\ Nodes \ sub[n] \subseteq A
  BY <1>t, <1>n DEF RedAt
<1>2. PICK u, x, p, g, d : /\ InsertTurn(t, n) = <<u, x>> /\ Grown(t, key, sub, g, u, x)
                           /\ RedLine(t, sub, n, p, g, d)
  BY <1>1, <1>t, <1>n, InsertTurnGrows
<1>3. p \in Nodes /\ p \in sub[g] /\ p \notin sub[n] /\ sub[n] \subseteq sub[g]
  BY <1>2 DEF RedLine
<1>4. PICK sub2, h2 : /\ Growing(u, key, sub2, h2, x) /\ sub2[u.root] = U
                      /\ (sub2 = sub /\ x = g) \/ ~IsRed(u, u.parent[x])
  BY <1>1, <1>2 DEF Grown
<1>5. u \in Trees /\ x \in Nodes
  BY <1>4, ShapeOfMember DEF Growing, Shape
<1>r. PICK r : r = <<u, x>>
  OBVIOUS
<1>6. r \in Trees \X Nodes /\ r[1] = u /\ r[2] = x
  BY <1>5, <1>r
<1>7. CASE ~IsRed(u, u.parent[x])
  <2>1. RedAt(key, U, {}, r)
    BY <1>4, <1>6, <1>7 DEF RedAt
  <2> QED
    BY <1>1, <1>2, <1>3, <1>6, <1>r, <1>t, <1>n, <2>1
<1>8. CASE sub2 = sub /\ x = g
  <2>1. PICK B : B = Nodes \ sub[x]
    OBVIOUS
  <2>2. B \in SUBSET A /\ B # A
    BY <1>1, <1>3, <1>8, <2>1
  <2>3. RedAt(key, U, B, r)
    BY <1>4, <1>6, <1>8, <2>1 DEF RedAt
  <2> QED
    BY <1>2, <1>6, <1>r, <1>t, <1>n, <2>2, <2>3
<1> QED
  BY <1>4, <1>7, <1>8

(* t is a red-black tree of the nodes U. *)
Sound(t, key, U) == \E sub, h : Coloured(t, key, sub, h) /\ sub[t.root] = U

(* RB_INSERT_COLOR makes a red-black tree of one with two reds at most. *)
LEMMA InsertColorColours ==
  ASSUME NEW t, NEW key, NEW sub, NEW h, NEW n, Growing(t, key, sub, h, n)
  PROVE  Sound(InsertColor(t, n), key, sub[t.root])
<1>U. PICK U : U = sub[t.root]
  OBVIOUS
<1>go. PICK go : go = {s \in Trees \X Nodes : IsRed(s[1], s[1].parent[s[2]])}
  OBVIOUS
<1>turn. PICK turn : turn = [s \in Trees \X Nodes |-> InsertTurn(s[1], s[2])]
  OBVIOUS
<1>I. PICK I : I = [A \in SUBSET Nodes |-> {s \in Trees \X Nodes : RedAt(key, U, A, s)}]
  OBVIOUS
<1>1. I \in [SUBSET Nodes -> SUBSET (Trees \X Nodes)]
  BY <1>I
<1>2. \A A \in SUBSET Nodes : \A s \in I[A] \cap go : \E B \in SUBSET A : B # A /\ turn[s] \in I[B]
  <2> SUFFICES ASSUME NEW A \in SUBSET Nodes, NEW s \in I[A] \cap go
               PROVE  \E B \in SUBSET A : B # A /\ turn[s] \in I[B]
    OBVIOUS
  <2>1. s \in Trees \X Nodes /\ RedAt(key, U, A, s) /\ IsRed(s[1], s[1].parent[s[2]])
    BY <1>I, <1>go
  <2>2. PICK B \in SUBSET A : /\ B # A /\ InsertTurn(s[1], s[2]) \in Trees \X Nodes
                              /\ RedAt(key, U, B, InsertTurn(s[1], s[2]))
    BY <2>1, InsertTurns
  <2>3. turn[s] = InsertTurn(s[1], s[2])
    BY <1>turn, <2>1
  <2> QED
    BY <1>I, <2>2, <2>3
<1>x. PICK x : x = <<t, n>>
  OBVIOUS
<1>3. x \in I[Nodes] /\ Nodes \in SUBSET Nodes
  <2>1. x \in Trees \X Nodes /\ x[1] = t /\ x[2] = n
    BY <1>x, ShapeOfMember DEF Growing, Shape
  <2>2. RedAt(key, U, Nodes, x)
    BY <2>1, <1>U DEF RedAt
  <2> QED
    BY <1>I, <2>1, <2>2
<1>4. \E B \in SUBSET Nodes : While(Trees \X Nodes, go, turn, x) \in I[B] \ go
  BY <1>1, <1>2, <1>3, LoopRule
<1>y. PICK y : y = While(Trees \X Nodes, go, turn, x)
  OBVIOUS
<1>5. PICK B \in SUBSET Nodes : y \in I[B] \ go
  BY <1>4, <1>y
<1>6. y \in Trees \X Nodes /\ RedAt(key, U, B, y) /\ ~IsRed(y[1], y[1].parent[y[2]])
  BY <1>I, <1>go, <1>5
<1>v. PICK v : v = y[1]
  OBVIOUS
<1>m. PICK m : m = y[2]
  OBVIOUS
<1>7. PICK sub2, h2 : Growing(v, key, sub2, h2, m) /\ sub2[v.root] = U
  BY <1>6, <1>v, <1>m DEF RedAt
<1>u. PICK u : u = Paint(v, v.root, FALSE)
  OBVIOUS
<1>8. InsertColor(t, n) = u
  BY <1>u, <1>v, <1>y, <1>x, <1>go, <1>turn DEF InsertColor
<1>s. Shape(v, key, sub2)
  BY <1>7 DEF Growing
<1>r. PICK r : r = v.root
  OBVIOUS
<1>9. m \in sub2[r] /\ r \in Nodes /\ m \in Nodes /\ v \in Trees /\ r \in sub2[r]
  BY <1>7, <1>s, <1>r, ShapeOfMember, NodesAssumption DEF Growing, Shape
<1>10. Painted(v, u, r, FALSE)
  BY <1>9, <1>u, <1>r, PaintFields DEF Places
<1>11. /\ u \in Trees /\ u.root = r /\ u.kid = v.kid /\ u.parent = v.parent
       /\ ~u.red[r] /\ \A i \in Nodes \ {r} : u.red[i] = v.red[i]
  BY <1>9, <1>10, <1>r DEF Painted
<1>12. Shape(u, key, sub2)
  BY <1>s, <1>11, <1>r, ShapeOfPainted
<1>13. /\ Heights(h2) /\ v.red[m] /\ \A i \in sub2[r] : Weighs(v, h2, i) /\ Quiet(v, m, i)
       /\ r # m => ~v.red[r]
  BY <1>7, <1>r DEF Growing
<1>14. \A i \in sub2[r] : Quiet(u, Nil, i)
  <2> SUFFICES ASSUME NEW i \in sub2[r], u.red[i], NEW e \in Dirs
               PROVE  ~IsRed(u, u.kid[e][i])
    BY DEF Quiet
  <2>1. i \in Nodes /\ i # r /\ v.red[i]
    BY <1>s, <1>r, <1>11, ShapeOfMember
  <2>2. v.kid[e][i] \in Places /\ (v.kid[e][i] # Nil => v.parent[v.kid[e][i]] = i)
    BY <1>s, <1>r, ShapeOfKid
  <2>3. ~IsRed(v, v.kid[e][i])
    <3>1. CASE v.kid[e][i] = m
      <4>1. v.parent[m] = i
        BY <1>9, <2>2, <3>1, NodesAssumption
      <4> QED
        BY <1>6, <1>v, <1>m, <2>1, <4>1, NodesAssumption DEF IsRed
    <3>2. CASE v.kid[e][i] # m
      BY <1>13, <2>1, <3>2 DEF Quiet
    <3> QED
      BY <3>1, <3>2
  <2> QED
    BY <1>11, <2>2, <2>3 DEF IsRed, Places
<1>15. ~IsRed(u, u.root)
  BY <1>11 DEF IsRed
<1>h. PICK k \in Dirs : TRUE
  BY DEF Dirs
<1>16. PICK h3 : /\ Heights(h3) /\ \A i \in Places \ {r} : h3[i] = h2[i]
                 /\ h3[r] = IF v.red[r] THEN h2[r] + 1 ELSE h2[r]
  <2>1. h2 \in [Places -> Nat] /\ h2[Nil] = 0 /\ r # Nil /\ r \in Places
    BY <1>9, <1>13, NodesAssumption DEF Heights, Places
  <2> WITNESS [h2 EXCEPT ![r] = IF v.red[r] THEN h2[r] + 1 ELSE h2[r]]
  <2> QED
    BY <2>1 DEF Heights
<1>17. \A i \in sub2[r] : Weighs(u, h3, i)
  <2> SUFFICES ASSUME NEW i \in sub2[r], NEW e \in Dirs
               PROVE  /\ u.red[i] => h3[i] = h3[v.kid[e][i]]
                      /\ ~u.red[i] => h3[i] = h3[v.kid[e][i]] + 1
    BY <1>11 DEF Weighs
  <2>1. i \in Nodes /\ v.kid[e][i] \in Places /\ v.kid[e][i] # r
    <3>1. i \in Nodes
      BY <1>s, <1>r, ShapeOfMember
    <3>2. v.kid[e][i] \in Places /\ (v.kid[e][i] # Nil => v.kid[e][i] # v.root)
      BY <1>s, <1>r, ShapeOfKid
    <3> QED
      BY <3>1, <3>2, <1>r, <1>9, NodesAssumption
  <2>2. h3[v.kid[e][i]] = h2[v.kid[e][i]]
    BY <1>16, <2>1
  <2>3. /\ v.red[i] => h2[i] = h2[v.kid[e][i]]
        /\ ~v.red[i] => h2[i] = h2[v.kid[e][i]] + 1
    BY <1>13 DEF Weighs
  <2>4. h2[i] \in Nat
    BY <1>13, <2>1 DEF Heights, Places
  <2>5. CASE i = r
    BY <1>11, <1>16, <2>2, <2>3, <2>4, <2>5
  <2>6. CASE i # r
    <3>1. h3[i] = h2[i] /\ u.red[i] = v.red[i]
      BY <1>11, <1>16, <2>1, <2>6 DEF Places
    <3> QED
      BY <2>2, <2>3, <3>1
  <2> QED
    BY <2>5, <2>6
<1>18. Coloured(u, key, sub2, h3)
  BY <1>11, <1>12, <1>14, <1>15, <1>16, <1>17 DEF Coloured
<1> QED
  BY <1>7, <1>8, <1>11, <1>18, <1>U, <1>r DEF Sound

-----------------------------------------------------------------------------
(* What is below a node but is not that node has its parent below it. *)
LEMMA ParentBelow ==
  ASSUME NEW t, NEW key, NEW sub, Shape(t, key, sub), NEW c \in sub[t.root],
         NEW n \in sub[c], n # c
  PROVE  t.parent[n] \in sub[c]
<1> DEFINE Bad(c1) == \E m \in sub[c1] : m # c1 /\ t.parent[m] \notin sub[c1]
           F == {A \in SUBSET Nodes : \E c1 \in sub[t.root] : A = sub[c1] /\ Bad(c1)}
<1>1. SUFFICES ASSUME t.parent[n] \notin sub[c] PROVE FALSE
  OBVIOUS
<1>2. F \subseteq SUBSET Nodes /\ F # {}
  BY <1>1, ShapeOfMember
<1>3. PICK B \in F : \A C \in F : C \subseteq B => C = B
  <2> HIDE DEF F
  <2> QED
    BY <1>2, LeastSet
<1>b. PICK b \in sub[t.root] : sub[b] = B /\ Bad(b)
  OBVIOUS
<1>4. PICK m \in sub[b] : sub[b] = B /\ m # b /\ t.parent[m] \notin sub[b]
  BY <1>b
<1>5. PICK e \in Dirs : m \in sub[t.kid[e][b]]
  <2>1. NodeOK(t, key, sub, b)
    BY DEF Shape
  <2> QED
    BY <1>4, <2>1 DEF NodeOK, Dirs
<1>k. PICK k : k = t.kid[e][b]
  OBVIOUS
<1>6. Family(t, key, sub, b, e, k, t.kid[Other[e]][b])
  BY <1>k, ShapeOfNode
<1>7. sub[Nil] = {}
  BY DEF Shape
<1>8. k # Nil /\ k \in sub[t.root] /\ t.parent[k] = b
  BY <1>5, <1>6, <1>7, <1>k DEF Family
<1>9. sub[k] \subseteq sub[b] /\ b \notin sub[k] /\ b \in sub[b]
  BY <1>6 DEF Family
<1>10. CASE m = k
  BY <1>4, <1>8, <1>9, <1>10
<1>11. CASE m # k
  <2>1. sub[k] \in F
    BY <1>4, <1>5, <1>8, <1>9, <1>11, <1>k
  <2> QED
    BY <1>3, <1>4, <1>9, <2>1
<1> QED
  BY <1>10, <1>11

(* A search for key k has come to m. *)
Seeks(t, key, sub, k, m) ==
    /\ m \in sub[t.root]
    /\ \A x \in sub[t.root] : key[x] = k => x \in sub[m]
    /\ \A a \in sub[t.root], e \in Dirs : m \in sub[t.kid[e][a]] => Off(e, k, key[a])

(* The comparison leads to the side that the key is off to. *)
LEMMA TowardFacts ==
  ASSUME NEW key \in Keys, NEW k \in Int, NEW m \in Nodes
  PROVE  /\ Toward(key, k, m) \in Dirs
         /\ key[m] # k => Off(Toward(key, k, m), k, key[m])
BY DEF Toward, Off, Dirs, Keys

(* One step down of a search, to a smaller part or to the end *)
LEMMA SeekTurn ==
  ASSUME NEW t, NEW key, NEW sub, Shape(t, key, sub), NEW k \in Int, NEW m,
         Seeks(t, key, sub, k, m), key[m] # k,
         NEW e, e = Toward(key, k, m), NEW c, c = t.kid[e][m]
  PROVE  /\ c # Nil => Seeks(t, key, sub, k, c) /\ sub[c] \subseteq sub[m] /\ sub[c] # sub[m]
         /\ c = Nil => \A x \in sub[t.root] : key[x] # k
<1>1. m \in sub[t.root] /\ m \in Nodes /\ sub[t.root] \subseteq Nodes
  BY ShapeOfMember DEF Seeks
<1>2. key \in Keys /\ sub[Nil] = {}
  BY DEF Shape
<1>3. e \in Dirs /\ Off(e, k, key[m])
  BY <1>1, <1>2, TowardFacts
<1>o. PICK o : o = Other[e]
  OBVIOUS
<1>4. o \in Dirs /\ Other[o] = e /\ o # e
  BY <1>3, <1>o, OtherFacts
<1>5. Family(t, key, sub, m, e, c, t.kid[o][m])
  BY <1>1, <1>3, <1>o, ShapeOfNode
<1>6. Family(t, key, sub, m, o, t.kid[o][m], c)
  BY <1>1, <1>4, ShapeOfNode
<1>7. \A x \in sub[t.root] : key[x] = k => x \in sub[c]
  <2> SUFFICES ASSUME NEW x \in sub[t.root], key[x] = k, x \notin sub[c] PROVE FALSE
    OBVIOUS
  <2>1. x \in sub[m]
    BY DEF Seeks
  <2>2. x \in sub[t.kid[o][m]]
    BY <1>5, <2>1 DEF Family
  <2>3. Off(o, key[x], key[m])
    BY <1>6, <2>2 DEF Family
  <2>4. key[m] \in Int
    BY <1>1, <1>2 DEF Keys
  <2> QED
    BY <1>3, <1>o, <2>3, <2>4, OffFacts
<1>8. CASE c = Nil
  BY <1>2, <1>7, <1>8
<1>9. CASE c # Nil
  <2>1. c \in sub[t.root] /\ t.parent[c] = m /\ c # t.kid[o][m] /\ sub[c] \subseteq sub[m] /\ m \notin sub[c] /\ m \in sub[m]
    BY <1>5, <1>9 DEF Family
  <2>2. ASSUME NEW a \in sub[t.root], NEW f \in Dirs, c \in sub[t.kid[f][a]]
        PROVE  Off(f, k, key[a])
    <3>b. PICK b : b = t.kid[f][a]
      OBVIOUS
    <3>1. b # Nil /\ b \in sub[t.root] /\ t.parent[b] = a
      BY <1>2, <2>2, <3>b, ShapeOfKid
    <3>2. CASE c = b
      <4>1. a = m /\ f = e
        BY <1>3, <1>o, <2>1, <3>1, <3>2, <3>b, OtherFacts
      <4> QED
        BY <1>3, <4>1
    <3>3. CASE c # b
      <4>1. m \in sub[b]
        BY <2>1, <2>2, <3>1, <3>3, <3>b, ParentBelow
      <4> QED
        BY <3>b, <4>1 DEF Seeks
    <3> QED
      BY <3>2, <3>3
  <2>3. Seeks(t, key, sub, k, c)
    BY <1>7, <2>1, <2>2 DEF Seeks
  <2> QED
    BY <1>9, <2>1, <2>3
<1> QED
  BY <1>8, <1>9

(* Where the search ends *)
LEMMA LocateFacts ==
  ASSUME NEW t, NEW key, NEW sub, Shape(t, key, sub), t.root # Nil, NEW k \in Int,
         NEW m, m = Locate(t, key, k, t.root)
  PROVE  /\ Seeks(t, key, sub, k, m)
         /\ key[m] # k => /\ t.kid[Toward(key, k, m)][m] = Nil
                          /\ \A x \in sub[t.root] : key[x] # k
<1>next. PICK next : next = [i \in Nodes |-> t.kid[Toward(key, k, i)][i]]
  OBVIOUS
<1>go. PICK go : go = {i \in Nodes : key[i] # k /\ next[i] # Nil}
  OBVIOUS
<1>J. PICK J : J = {i \in Nodes : Seeks(t, key, sub, k, i)}
  OBVIOUS
<1>rank. PICK rank : rank = [i \in Nodes |-> sub[i]]
  OBVIOUS
<1>1. t.root \in sub[t.root] /\ sub[t.root] \subseteq Nodes /\ t.root \in Nodes
  BY ShapeOfMember DEF Shape
<1>2. rank \in [Nodes -> SUBSET Nodes]
  BY <1>rank DEF Shape, Places
<1>3. ASSUME NEW i \in J \cap go
      PROVE  next[i] \in J /\ rank[next[i]] \subseteq rank[i] /\ rank[next[i]] # rank[i]
  <2>c. PICK c : c = next[i]
    OBVIOUS
  <2>1. i \in Nodes /\ Seeks(t, key, sub, k, i) /\ key[i] # k /\ c # Nil
    BY <1>J, <1>go, <2>c
  <2>2. c = t.kid[Toward(key, k, i)][i]
    BY <1>next, <2>1, <2>c
  <2>3. Seeks(t, key, sub, k, c) /\ sub[c] \subseteq sub[i] /\ sub[c] # sub[i]
    BY <2>1, <2>2, SeekTurn
  <2>4. c \in Nodes
    BY <1>1, <2>3 DEF Seeks
  <2> QED
    BY <1>J, <1>rank, <2>1, <2>3, <2>4, <2>c
<1>4. t.root \in J
  <2>1. \A a \in sub[t.root], e \in Dirs : t.root \notin sub[t.kid[e][a]]
    <3> SUFFICES ASSUME NEW a \in sub[t.root], NEW e \in Dirs, t.root \in sub[t.kid[e][a]]
                 PROVE  FALSE
      OBVIOUS
    <3>b. PICK b : b = t.kid[e][a]
      OBVIOUS
    <3>1. b # Nil /\ b \in sub[t.root] /\ b # t.root
      BY <3>b, ShapeOfKid DEF Shape
    <3>2. t.parent[t.root] \in sub[b]
      BY <3>1, <3>b, ParentBelow
    <3>3. sub[b] \subseteq Nodes
      BY <3>1, ShapeOfMember
    <3> QED
      BY <1>1, <3>2, <3>3, NodesAssumption DEF Shape
  <2> QED
    BY <1>1, <1>J, <2>1 DEF Seeks
<1>5. While(Nodes, go, next, t.root) \in J \ go
  <2>1. J \subseteq Nodes
    BY <1>J
  <2>2. \A i \in J \cap go : next[i] \in J /\ rank[next[i]] \subseteq rank[i] /\ rank[next[i]] # rank[i]
    BY <1>3
  <2> QED
    BY <1>2, <1>4, <2>1, <2>2, SimpleLoopRule
<1>6. m = While(Nodes, go, next, t.root)
  BY <1>next, <1>go DEF Locate
<1>7. Seeks(t, key, sub, k, m) /\ m \in Nodes
  BY <1>5, <1>6, <1>J
<1>8. key[m] # k => t.kid[Toward(key, k, m)][m] = Nil
  BY <1>5, <1>6, <1>7, <1>go, <1>next
<1> QED
  BY <1>7, <1>8, SeekTurn

(* RB_FIND finds the node with the key, and NULL only if there is none. *)
LEMMA FindFacts ==
  ASSUME NEW t, NEW key, NEW sub, Shape(t, key, sub), NEW k \in Int,
         NEW n, n = Find(t, key, k)
  PROVE  /\ n # Nil => n \in sub[t.root] /\ key[n] = k
         /\ n = Nil => \A x \in sub[t.root] : key[x] # k
<1>1. CASE t.root = Nil
  BY <1>1 DEF Find, Shape
<1>2. CASE t.root # Nil
  <2>m. PICK m : m = Locate(t, key, k, t.root)
    OBVIOUS
  <2>1. n = IF key[m] = k THEN m ELSE Nil
    BY <1>2, <2>m DEF Find
  <2>2. Seeks(t, key, sub, k, m) /\ (key[m] # k => \A x \in sub[t.root] : key[x] # k)
    BY <1>2, <2>m, LocateFacts
  <2>3. m \in sub[t.root] /\ m # Nil
    BY <2>2, ShapeOfMember, NodesAssumption DEF Seeks
  <2> QED
    BY <2>1, <2>2, <2>3
<1> QED
  BY <1>1, <1>2

-----------------------------------------------------------------------------
(* u is t with the red leaf n below p, on side d. *)
Leafed(t, u, n, p, d) ==
    /\ u \in Trees /\ u.red[n] /\ u.parent[n] = p
    /\ \A e \in Dirs : u.kid[e][n] = Nil
    /\ \A m \in Nodes \ {n} : u.red[m] = t.red[m] /\ u.parent[m] = t.parent[m]
    /\ p = Nil => u.root = n /\ \A e \in Dirs, m \in Nodes \ {n} : u.kid[e][m] = t.kid[e][m]
    /\ p # Nil => /\ u.root = t.root /\ u.kid[d][p] = n
                  /\ \A e \in Dirs, m \in Nodes \ {n} :
                         e # d \/ m # p => u.kid[e][m] = t.kid[e][m]

(* n is red and has the parent p, which does not have it as a child yet. *)
Apart(t, n, p) == SetKid(SetKid(SetParent(Paint(t, n, TRUE), n, p), "left", n, Nil), "right", n, Nil)

(* The writes of RB_INSERT before RB_INSERT_COLOR add a red leaf. *)
LEMMA InsertLeafs ==
  ASSUME NEW t \in Trees, NEW n \in Nodes, NEW p \in Places, p # n, NEW d \in Dirs
  PROVE  Leafed(t, IF p = Nil THEN [Apart(t, n, p) EXCEPT !.root = n]
                   ELSE SetKid(Apart(t, n, p), d, p, n), n, p, d)
<1>t1. PICK t1 : t1 = Apart(t, n, p)
  OBVIOUS
<1>u. PICK u : u = IF p = Nil THEN [t1 EXCEPT !.root = n] ELSE SetKid(t1, d, p, n)
  OBVIOUS
<1>a. PICK a : a = Paint(t, n, TRUE)
  OBVIOUS
<1>b. PICK b : b = SetParent(a, n, p)
  OBVIOUS
<1>c. PICK c : c = SetKid(b, "left", n, Nil)
  OBVIOUS
<1>0. n \in Places /\ "left" \in Dirs /\ "right" \in Dirs /\ Nil \in Places
  BY DEF Places, Dirs
<1>1. Painted(t, a, n, TRUE)
  BY <1>0, <1>a, PaintFields
<1>2. ParentSet(a, b, n, p)
  BY <1>0, <1>1, <1>b, SetParentFields DEF Painted
<1>3. KidSet(b, c, "left", n, Nil)
  BY <1>0, <1>2, <1>c, SetKidFields DEF ParentSet
<1>4. KidSet(c, t1, "right", n, Nil)
  <2>1. t1 = SetKid(c, "right", n, Nil)
    BY <1>a, <1>b, <1>c, <1>t1 DEF Apart
  <2>2. c \in Trees
    BY <1>3 DEF KidSet
  <2> QED
    BY <1>0, <2>1, <2>2, SetKidFields
<1>5. /\ t1 \in Trees /\ t1.red[n] /\ t1.parent[n] = p /\ t1.root = t.root
      /\ \A m \in Nodes \ {n} : t1.red[m] = t.red[m] /\ t1.parent[m] = t.parent[m]
  <2>1. t1 \in Trees /\ t1.red = b.red /\ t1.parent = b.parent /\ t1.root = b.root
    BY <1>3, <1>4 DEF KidSet
  <2>2. /\ b.red = a.red /\ b.root = a.root /\ b.parent[n] = p
        /\ \A m \in Nodes \ {n} : b.parent[m] = a.parent[m]
    BY <1>2 DEF ParentSet
  <2>3. /\ a.red[n] /\ a.root = t.root /\ a.parent = t.parent
        /\ \A m \in Nodes \ {n} : a.red[m] = t.red[m]
    BY <1>1 DEF Painted
  <2> QED
    BY <2>1, <2>2, <2>3
<1>6. \A e \in Dirs : t1.kid[e][n] = Nil
  <2>1. t1.kid["right"][n] = Nil /\ t1.kid["left"][n] = Nil
    BY <1>0, <1>3, <1>4 DEF KidSet
  <2> QED
    BY <2>1 DEF Dirs
<1>7. \A e \in Dirs, m \in Nodes \ {n} : t1.kid[e][m] = t.kid[e][m]
  <2> SUFFICES ASSUME NEW e \in Dirs, NEW m \in Nodes \ {n} PROVE t1.kid[e][m] = t.kid[e][m]
    OBVIOUS
  <2>1. t1.kid[e][m] = c.kid[e][m] /\ c.kid[e][m] = b.kid[e][m]
    BY <1>3, <1>4 DEF KidSet
  <2> QED
    BY <1>1, <1>2, <2>1 DEF Painted, ParentSet
<1>8. ASSUME p = Nil PROVE Leafed(t, u, n, p, d)
  <2>1. u = [t1 EXCEPT !.root = n]
    BY <1>8, <1>u
  <2>2. /\ u \in Trees /\ u.root = n /\ u.kid = t1.kid /\ u.red = t1.red /\ u.parent = t1.parent
    BY <1>5, <2>1 DEF Trees
  <2>3. /\ u.red[n] /\ u.parent[n] = p /\ \A e \in Dirs : u.kid[e][n] = Nil
        /\ \A m \in Nodes \ {n} : u.red[m] = t.red[m] /\ u.parent[m] = t.parent[m]
        /\ \A e \in Dirs, m \in Nodes \ {n} : u.kid[e][m] = t.kid[e][m]
    BY <1>5, <1>6, <1>7, <2>2
  <2> QED
    BY <1>8, <2>2, <2>3 DEF Leafed
<1>9. ASSUME p # Nil PROVE Leafed(t, u, n, p, d)
  <2>1. p \in Nodes
    BY <1>9 DEF Places
  <2>3. KidSet(t1, u, d, p, n)
    <3>1. u = SetKid(t1, d, p, n)
      BY <1>9, <1>u
    <3> QED
      BY <1>0, <1>5, <2>1, <3>1, SetKidFields
  <2>4. /\ u \in Trees /\ u.root = t.root /\ u.kid[d][p] = n /\ u.red = t1.red
        /\ u.parent = t1.parent
        /\ \A e \in Dirs, m \in Nodes : e # d \/ m # p => u.kid[e][m] = t1.kid[e][m]
    BY <1>5, <2>3 DEF KidSet
  <2>5. \A e \in Dirs : u.kid[e][n] = Nil
    BY <1>6, <2>4
  <2>6. ASSUME NEW e \in Dirs, NEW m \in Nodes \ {n}, e # d \/ m # p
        PROVE  u.kid[e][m] = t.kid[e][m]
    <3>1. u.kid[e][m] = t1.kid[e][m]
      BY <2>4, <2>6
    <3> QED
      BY <1>7, <3>1
  <2>7. /\ u.red[n] /\ u.parent[n] = p
        /\ \A m \in Nodes \ {n} : u.red[m] = t.red[m] /\ u.parent[m] = t.parent[m]
    BY <1>5, <2>4
  <2>8. u \in Trees /\ u.root = t.root /\ u.kid[d][p] = n
    BY <2>4
  <2> QED
    BY <1>9, <2>5, <2>6, <2>7, <2>8 DEF Leafed
<1>10. Leafed(t, u, n, p, d)
  BY <1>8, <1>9
<1> QED
  BY <1>10, <1>t1, <1>u

(* The sets of nodes with n below p *)
Joined(sub, sub2, n, p) ==
    /\ sub2 \in [Places -> SUBSET Nodes] /\ sub2[n] = {n}
    /\ \A m \in Places \ {n} : /\ p \in sub[m] => sub2[m] = sub[m] \cup {n}
                               /\ p \notin sub[m] => sub2[m] = sub[m]

(* There are the sets of nodes below each node with the new one. *)
LEMMA JoinedExists ==
  ASSUME NEW sub \in [Places -> SUBSET Nodes], NEW n \in Nodes, NEW p
  PROVE  \E sub2 : Joined(sub, sub2, n, p)
<1> WITNESS [m \in Places |-> IF m = n THEN {n}
                              ELSE IF p \in sub[m] THEN sub[m] \cup {n} ELSE sub[m]]
<1> QED
  BY DEF Joined, Places

Budding(u, key, n, U) == \E sub, h : Growing(u, key, sub, h, n) /\ sub[u.root] = U

(* The first node of all is the red root of a tree. *)
LEMMA FirstLeaf ==
  ASSUME NEW t, NEW key, NEW sub, NEW h, Shape(t, key, sub), Heights(h), t.root = Nil,
         NEW n \in Nodes, NEW u, NEW d, Leafed(t, u, n, Nil, d)
  PROVE  Budding(u, key, n, {n})
<1>1. key \in Keys /\ sub \in [Places -> SUBSET Nodes]
  BY DEF Shape
<1>2. PICK sub2 : sub2 = [m \in Places |-> IF m = n THEN {n} ELSE {}]
  OBVIOUS
<1>3. sub2 \in [Places -> SUBSET Nodes] /\ sub2[n] = {n} /\ sub2[Nil] = {}
  BY <1>2, NodesAssumption DEF Places
<1>4. /\ u \in Trees /\ u.root = n /\ u.parent[n] = Nil /\ u.red[n]
      /\ \A e \in Dirs : u.kid[e][n] = Nil
  BY DEF Leafed
<1>5. NodeOK(u, key, sub2, n)
  BY <1>3, <1>4 DEF NodeOK, SlotOK, Hangs, Dirs
<1>6. Shape(u, key, sub2)
  BY <1>1, <1>3, <1>4, <1>5 DEF Shape
<1>7. PICK h2 : h2 = [m \in Places |-> 0]
  OBVIOUS
<1>8. Heights(h2) /\ Weighs(u, h2, n) /\ Quiet(u, n, n)
  BY <1>4, <1>7 DEF Heights, Weighs, Quiet, IsRed, Places
<1>9. Growing(u, key, sub2, h2, n)
  BY <1>3, <1>4, <1>6, <1>8 DEF Growing
<1> QED
  BY <1>3, <1>4, <1>9 DEF Budding

(* The place for n below p, on side d *)
Gap(t, key, sub, n, p, d) ==
    /\ Seeks(t, key, sub, key[n], p) /\ key[p] # key[n]
    /\ d = Toward(key, key[n], p) /\ t.kid[d][p] = Nil

(* Another one below a node keeps the tree, but for two reds perhaps. *)
LEMMA NextLeaf ==
  ASSUME NEW t, NEW key, NEW sub, NEW h, Coloured(t, key, sub, h), t.root # Nil,
         NEW n \in Nodes, n \notin sub[t.root], NEW p, NEW d, Gap(t, key, sub, n, p, d),
         NEW u, Leafed(t, u, n, p, d)
  PROVE  Budding(u, key, n, sub[t.root] \cup {n})
<1>s. Shape(t, key, sub)
  BY DEF Coloured
<1>g. /\ Seeks(t, key, sub, key[n], p) /\ key[p] # key[n]
      /\ d = Toward(key, key[n], p) /\ t.kid[d][p] = Nil
  BY DEF Gap
<1>c. Heights(h) /\ ~IsRed(t, t.root) /\ \A m \in sub[t.root] : Weighs(t, h, m) /\ Quiet(t, Nil, m)
  BY DEF Coloured
<1>1. key \in Keys /\ sub \in [Places -> SUBSET Nodes] /\ sub[Nil] = {} /\ t \in Trees
  BY <1>s DEF Shape
<1>2. /\ p \in sub[t.root] /\ p \in Nodes /\ t.root \in Nodes /\ sub[t.root] \subseteq Nodes
      /\ p # n /\ p # Nil /\ t.root \in sub[t.root] /\ t.root # n
  BY <1>s, <1>g, ShapeOfMember, NodesAssumption DEF Seeks, Shape
<1>3. d \in Dirs /\ Off(d, key[n], key[p])
  <2>1. key[n] \in Int
    BY <1>1 DEF Keys
  <2> QED
    BY <1>1, <1>2, <1>g, <2>1, TowardFacts
<1>4. PICK sub2 : Joined(sub, sub2, n, p)
  BY <1>1, JoinedExists
<1>5. /\ sub2 \in [Places -> SUBSET Nodes] /\ sub2[n] = {n}
      /\ \A m \in Places \ {n} : /\ p \in sub[m] => sub2[m] = sub[m] \cup {n}
                                 /\ p \notin sub[m] => sub2[m] = sub[m]
  BY <1>4 DEF Joined
<1>6. /\ u \in Trees /\ u.red[n] /\ u.parent[n] = p /\ u.root = t.root /\ u.kid[d][p] = n
      /\ \A e \in Dirs : u.kid[e][n] = Nil
      /\ \A m \in Nodes \ {n} : u.red[m] = t.red[m] /\ u.parent[m] = t.parent[m]
  BY <1>2 DEF Leafed
<1>7. \A e \in Dirs, m \in Nodes \ {n} : e # d \/ m # p => u.kid[e][m] = t.kid[e][m]
  BY <1>2 DEF Leafed
<1>8. sub2[Nil] = {}
  BY <1>1, <1>5, NodesAssumption DEF Places
<1>9. sub2[u.root] = sub[t.root] \cup {n}
  BY <1>2, <1>5, <1>6 DEF Places
<1>10. NodeOK(u, key, sub2, n)
  <2>1. sub2[n] = {n} \cup sub2[u.kid["left"][n]] \cup sub2[u.kid["right"][n]]
    BY <1>5, <1>6, <1>8 DEF Dirs
  <2>2. Hangs(u, sub2, n)
    BY <1>2, <1>3, <1>6, <1>9 DEF Hangs
  <2>3. \A e \in Dirs : SlotOK(u, key, sub2, n, e)
    BY <1>6, <1>8 DEF SlotOK
  <2> QED
    BY <1>5, <1>9, <2>1, <2>2, <2>3 DEF NodeOK
<1>11. ASSUME NEW m \in sub[t.root], NEW e \in Dirs
       PROVE  /\ m \in Nodes /\ m # n
              /\ t.kid[e][m] \in Places /\ t.kid[e][m] # n
              /\ t.kid[e][m] # Nil => t.kid[e][m] \in sub[t.root] /\ t.parent[t.kid[e][m]] = m
                                      /\ t.kid[e][m] \in Nodes
  <2>1. t.kid[e][m] # Nil => t.kid[e][m] \in sub[t.root]
    BY <1>s, ShapeOfKid
  <2>2. n # Nil
    BY NodesAssumption
  <2> QED
    BY <1>s, <1>2, <2>1, <2>2, ShapeOfKid
<1>12. ASSUME NEW m \in sub[t.root], NEW e \in Dirs
       PROVE  /\ SlotOK(u, key, sub2, m, e)
              /\ p \in sub[t.kid[e][m]] \/ (m = p /\ e = d) =>
                     sub2[u.kid[e][m]] = sub[t.kid[e][m]] \cup {n}
              /\ ~(p \in sub[t.kid[e][m]] \/ (m = p /\ e = d)) =>
                     sub2[u.kid[e][m]] = sub[t.kid[e][m]]
  <2>1. CASE m = p /\ e = d
    <3>1. sub2[u.kid[e][m]] = {n} /\ sub[t.kid[e][m]] = {}
      BY <1>1, <1>5, <1>6, <1>g, <2>1
    <3>2. SlotOK(u, key, sub2, m, e)
      BY <1>3, <1>6, <1>9, <2>1, <3>1 DEF SlotOK
    <3> QED
      BY <2>1, <3>1, <3>2
  <2>2. CASE ~(m = p /\ e = d)
    <3>k. PICK k : k = t.kid[e][m]
      OBVIOUS
    <3>0. m \in Nodes /\ m # n
      BY <1>11
    <3>1. u.kid[e][m] = k
      BY <1>7, <2>2, <3>0, <3>k
    <3>2. /\ k \in Places /\ k # n
          /\ k # Nil => k \in sub[t.root] /\ t.parent[k] = m /\ k \in Nodes
      BY <1>11, <3>k
    <3>3. /\ p \in sub[k] => sub2[k] = sub[k] \cup {n}
          /\ p \notin sub[k] => sub2[k] = sub[k]
      BY <1>5, <3>2
    <3>4. p \in sub[k] => Off(e, key[n], key[m])
      BY <3>k, <1>g DEF Seeks
    <3>5. \A x \in sub[k] : Off(e, key[x], key[m])
      BY <1>s, <3>k, ShapeOfNode DEF Family
    <3>6. SlotOK(u, key, sub2, m, e)
      BY <1>6, <1>9, <3>1, <3>2, <3>3, <3>4, <3>5 DEF SlotOK
    <3> QED
      BY <2>2, <3>1, <3>3, <3>6, <3>k
  <2> QED
    BY <2>1, <2>2
<1>13. ASSUME NEW m \in sub[t.root]
       PROVE  NodeOK(u, key, sub2, m)
  <2>1. /\ NodeOK(t, key, sub, m) /\ m \in Nodes /\ m # n /\ m \in Places
    BY <1>s, <1>2 DEF Shape, Places
  <2>2. sub[m] = {m} \cup sub[t.kid["left"][m]] \cup sub[t.kid["right"][m]] /\ sub[m] \subseteq sub[t.root]
    BY <2>1 DEF NodeOK
  <2>3. /\ p \in sub[m] => sub2[m] = sub[m] \cup {n}
        /\ p \notin sub[m] => sub2[m] = sub[m]
    BY <1>5, <2>1
  <2>4. sub2[m] = {m} \cup sub2[u.kid["left"][m]] \cup sub2[u.kid["right"][m]]
    <3>1. "left" \in Dirs /\ "right" \in Dirs /\ (d = "left" \/ d = "right")
      BY <1>3 DEF Dirs
    <3>2. /\ p \in sub[t.kid["left"][m]] \/ (m = p /\ "left" = d) =>
                     sub2[u.kid["left"][m]] = sub[t.kid["left"][m]] \cup {n}
          /\ ~(p \in sub[t.kid["left"][m]] \/ (m = p /\ "left" = d)) =>
                     sub2[u.kid["left"][m]] = sub[t.kid["left"][m]]
      BY <1>12, <3>1
    <3>3. /\ p \in sub[t.kid["right"][m]] \/ (m = p /\ "right" = d) =>
                     sub2[u.kid["right"][m]] = sub[t.kid["right"][m]] \cup {n}
          /\ ~(p \in sub[t.kid["right"][m]] \/ (m = p /\ "right" = d)) =>
                     sub2[u.kid["right"][m]] = sub[t.kid["right"][m]]
      BY <1>12, <3>1
    <3>4. p \in sub[m] <=> m = p \/ p \in sub[t.kid["left"][m]] \/ p \in sub[t.kid["right"][m]]
      BY <2>2
    <3> QED
      BY <2>2, <2>3, <3>1, <3>2, <3>3, <3>4
  <2>5. Hangs(u, sub2, m)
    <3>1. CASE m = t.root
      BY <1>6, <3>1 DEF Hangs
    <3>2. CASE m # t.root
      <4>q. PICK q : q = t.parent[m]
        OBVIOUS
      <4>1. q \in sub[t.root] /\ \E e \in Dirs : t.kid[e][q] = m
        BY <2>1, <3>2, <4>q DEF NodeOK, Hangs
      <4>2. PICK e \in Dirs : t.kid[e][q] = m
        BY <4>1
      <4>3. ~(e = d /\ q = p)
        BY <1>2, <1>g, <2>1, <4>2, NodesAssumption
      <4>4. u.kid[e][q] = m /\ u.parent[m] = q
        BY <1>6, <1>7, <1>2, <2>1, <4>1, <4>2, <4>3, <4>q
      <4> QED
        BY <1>9, <4>1, <4>4 DEF Hangs
    <3> QED
      BY <3>1, <3>2
  <2>6. sub2[m] \subseteq sub2[u.root]
    BY <1>9, <2>2, <2>3
  <2> QED
    BY <1>12, <2>4, <2>5, <2>6 DEF NodeOK
<1>14. Shape(u, key, sub2)
  <2>1. u.root \in sub2[u.root] /\ u.parent[u.root] = Nil
    BY <1>s, <1>2, <1>6, <1>9 DEF Shape
  <2>2. \A m \in sub2[u.root] : NodeOK(u, key, sub2, m)
    BY <1>9, <1>10, <1>13
  <2> QED
    BY <1>1, <1>5, <1>6, <1>8, <2>1, <2>2 DEF Shape
<1>15. PICK h2 : Heights(h2) /\ h2[n] = 0 /\ \A m \in Places \ {n} : h2[m] = h[m]
  <2> WITNESS [h EXCEPT ![n] = 0]
  <2> QED
    BY <1>c, NodesAssumption DEF Heights, Places
<1>16. h2[Nil] = 0 /\ h[Nil] = 0
  BY <1>c, <1>15 DEF Heights
<1>17. Weighs(u, h2, n) /\ Quiet(u, n, n)
  BY <1>6, <1>15, <1>16 DEF Weighs, Quiet, IsRed
<1>18. ASSUME NEW m \in sub[t.root]
       PROVE  Weighs(u, h2, m) /\ Quiet(u, n, m)
  <2>1. m \in Nodes /\ m # n /\ Weighs(t, h, m) /\ Quiet(t, Nil, m)
    BY <1>2, <1>c
  <2>2. u.red[m] = t.red[m] /\ h2[m] = h[m]
    BY <1>6, <1>15, <2>1 DEF Places
  <2>3. ASSUME NEW e \in Dirs
        PROVE  /\ h2[u.kid[e][m]] = h[t.kid[e][m]]
               /\ u.kid[e][m] # n => u.kid[e][m] = t.kid[e][m] /\ u.kid[e][m] \in Places
    <3>1. CASE m = p /\ e = d
      BY <1>6, <1>15, <1>16, <1>g, <3>1
    <3>2. CASE ~(m = p /\ e = d)
      <4>1. u.kid[e][m] = t.kid[e][m]
        BY <1>7, <2>1, <3>2
      <4> QED
        BY <1>11, <1>15, <4>1
    <3> QED
      BY <3>1, <3>2
  <2>4. Weighs(u, h2, m)
    BY <2>1, <2>2, <2>3 DEF Weighs
  <2>5. ASSUME t.red[m], NEW e \in Dirs, u.kid[e][m] # n
        PROVE  ~IsRed(u, u.kid[e][m])
    <3>1. u.kid[e][m] = t.kid[e][m] /\ u.kid[e][m] \in Places
      BY <2>3, <2>5
    <3>2. ~IsRed(t, t.kid[e][m])
      BY <2>1, <2>5 DEF Quiet, IsRed
    <3> QED
      BY <1>6, <2>5, <3>1, <3>2 DEF IsRed, Places
  <2> QED
    BY <2>2, <2>4, <2>5 DEF Quiet
<1>19. u.root # n => ~u.red[u.root]
  BY <1>c, <1>2, <1>6, NodesAssumption DEF IsRed
<1>20. Growing(u, key, sub2, h2, n)
  BY <1>6, <1>9, <1>14, <1>15, <1>17, <1>18, <1>19 DEF Growing
<1> QED
  BY <1>9, <1>20 DEF Budding

(* RB_INSERT of a key that is not there keeps a red-black search tree, with the node. *)
LEMMA InsertSound ==
  ASSUME NEW t, NEW key, NEW U, Sound(t, key, U), NEW n \in Nodes \ U,
         \A x \in U : key[x] # key[n]
  PROVE  Sound(Insert(t, key, n), key, U \cup {n})
<1>p. PICK p : p = IF t.root = Nil THEN Nil ELSE Locate(t, key, key[n], t.root)
  OBVIOUS
<1>d. PICK d : d = Toward(key, key[n], p)
  OBVIOUS
<1>t. PICK t1 : t1 = Apart(t, n, p)
  OBVIOUS
<1>u. PICK u : u = IF p = Nil THEN [t1 EXCEPT !.root = n] ELSE SetKid(t1, d, p, n)
  OBVIOUS
<1>1. Insert(t, key, n) = InsertColor(u, n)
  BY <1>p, <1>d, <1>t, <1>u DEF Insert, Apart
<1>2. PICK sub, h : Coloured(t, key, sub, h) /\ sub[t.root] = U
  BY DEF Sound
<1>3. Shape(t, key, sub) /\ Heights(h) /\ t \in Trees /\ key \in Keys /\ sub[Nil] = {}
  BY <1>2 DEF Coloured, Shape
<1>4. key[n] \in Int
  BY <1>3 DEF Keys
<1>5. p # Nil => /\ Seeks(t, key, sub, key[n], p) /\ key[p] # key[n] /\ t.kid[d][p] = Nil
                 /\ p \in U /\ p \in Nodes /\ t.root # Nil
  <2>1. SUFFICES ASSUME p # Nil
                 PROVE  /\ Seeks(t, key, sub, key[n], p) /\ key[p] # key[n] /\ t.kid[d][p] = Nil
                        /\ p \in U /\ p \in Nodes /\ t.root # Nil
    OBVIOUS
  <2>2. t.root # Nil /\ p = Locate(t, key, key[n], t.root)
    BY <1>p, <2>1
  <2>3. /\ Seeks(t, key, sub, key[n], p)
        /\ key[p] # key[n] => t.kid[d][p] = Nil
    BY <1>3, <1>4, <1>d, <2>2, LocateFacts
  <2>4. p \in U /\ p \in Nodes
    BY <1>2, <1>3, <2>3, ShapeOfMember DEF Seeks
  <2> QED
    BY <2>2, <2>3, <2>4
<1>6. p \in Places /\ p # n
  BY <1>5, NodesAssumption DEF Places
<1>7. Leafed(t, u, n, p, d)
  <2>1. d \in Dirs
    BY <1>d DEF Toward, Dirs
  <2> QED
    BY <1>3, <1>6, <2>1, <1>t, <1>u, InsertLeafs
<1>8. Budding(u, key, n, U \cup {n})
  <2>1. CASE p = Nil
    <3>1. t.root = Nil
      <4> SUFFICES ASSUME t.root # Nil PROVE FALSE
        OBVIOUS
      <4>1. Seeks(t, key, sub, key[n], p)
        BY <1>3, <1>4, <1>p, LocateFacts
      <4>2. p \in Nodes
        BY <1>3, <4>1, ShapeOfMember DEF Seeks
      <4> QED
        BY <2>1, <4>2, NodesAssumption
    <3>2. U = {}
      BY <1>2, <1>3, <3>1
    <3>3. Leafed(t, u, n, Nil, d)
      BY <1>7, <2>1
    <3> QED
      BY <1>3, <3>1, <3>2, <3>3, FirstLeaf
  <2>2. CASE p # Nil
    <3>1. n \notin sub[t.root]
      BY <1>2
    <3>2. Coloured(t, key, sub, h) /\ t.root # Nil /\ Gap(t, key, sub, n, p, d)
      BY <1>2, <1>5, <1>d, <2>2 DEF Gap
    <3>3. Budding(u, key, n, sub[t.root] \cup {n})
      BY <1>7, <3>1, <3>2, NextLeaf
    <3> QED
      BY <1>2, <3>3
  <2> QED
    BY <2>1, <2>2
<1> QED
  BY <1>1, <1>8, InsertColorColours DEF Budding

-----------------------------------------------------------------------------
(* Side d of p, where n is, lacks a black node against the other, where its  *)
(* sibling sib is.                                                           *)
Lacks(t, sub, h, p, n, d, sib) ==
    /\ d \in Dirs /\ p \in sub[t.root] /\ t.kid[d][p] = n /\ t.kid[Other[d]][p] = sib
    /\ h[sib] = h[n] + 1
    /\ t.red[p] => h[p] = h[sib]
    /\ ~t.red[p] => h[p] = h[sib] + 1

(* Nothing else is wrong with the tree, and n is not red. *)
Short(t, key, sub, h, p, n, d, sib) ==
    /\ Shape(t, key, sub) /\ Heights(h) /\ Lacks(t, sub, h, p, n, d, sib)
    /\ \A m \in sub[t.root] \ {p} : Weighs(t, h, m)
    /\ \A m \in sub[t.root] : Quiet(t, Nil, m)
    /\ ~IsRed(t, t.root) /\ ~IsRed(t, n)

Siblings(t, sub, h, p, n, sib) ==
    /\ p \in Nodes /\ sib \in Nodes /\ p \in sub[t.root] /\ sib \in sub[t.root]
    /\ n \in Places /\ n # sib /\ n # p /\ sib # p /\ t.parent[sib] = p /\ sib # t.root
    /\ n # Nil => n \in sub[t.root] /\ n \in Nodes /\ t.parent[n] = p /\ n # t.root
    /\ h[n] \in Nat /\ h[sib] \in Nat /\ h[p] \in Nat

(* Where one side lacks a black node, the sibling is a node, with such a height. *)
LEMMA ShortFacts ==
  ASSUME NEW t, NEW key, NEW sub, NEW h, NEW p, NEW n, NEW d, NEW sib,
         Short(t, key, sub, h, p, n, d, sib)
  PROVE  Siblings(t, sub, h, p, n, sib)
<1>o. PICK o : o = Other[d]
  OBVIOUS
<1>s. Shape(t, key, sub) /\ Heights(h)
  BY DEF Short
<1>1. /\ d \in Dirs /\ p \in sub[t.root] /\ t.kid[d][p] = n /\ t.kid[o][p] = sib
      /\ h[sib] = h[n] + 1
  BY <1>o DEF Short, Lacks
<1>d. d \in Dirs
  BY <1>1
<1>2. o \in Dirs /\ Other[o] = d
  BY <1>d, <1>o, OtherFacts
<1>3. Family(t, key, sub, p, d, n, sib)
  BY <1>s, <1>1, <1>o, ShapeOfNode
<1>4. Family(t, key, sub, p, o, sib, n)
  BY <1>s, <1>1, <1>2, ShapeOfNode
<1>5. n \in Places /\ sib \in Places /\ p \in Nodes
  BY <1>3, <1>4 DEF Family
<1>6. h[n] \in Nat /\ h[sib] \in Nat /\ h[p] \in Nat /\ h[Nil] = 0
  BY <1>5, <1>s DEF Heights, Places
<1>7. sib # Nil
  BY <1>1, <1>6
<1> QED
  BY <1>1, <1>3, <1>4, <1>5, <1>6, <1>7 DEF Family, Siblings

(* A red sibling is rotated away: what comes in its place is black. *)
LEMMA SiblingSinks ==
  ASSUME NEW t, NEW key, NEW sub, NEW h, NEW p, NEW n, NEW d, NEW sib,
         Short(t, key, sub, h, p, n, d, sib), t.red[sib]
  PROVE  LET u   == Rotate(SetBlackRed(t, sib, p), p, d)
             mid == t.kid[d][sib]
         IN  \E sub2, h2 : /\ Short(u, key, sub2, h2, p, n, d, mid)
                           /\ sub2[u.root] = sub[t.root] /\ u.red[p] /\ ~u.red[mid]
<1>o. PICK o : o = Other[d]
  OBVIOUS
<1>mid. PICK mid : mid = t.kid[d][sib]
  OBVIOUS
<1>c. PICK c : c = t.kid[o][sib]
  OBVIOUS
<1>q. PICK q : q = t.parent[p]
  OBVIOUS
<1>v. PICK v : v = SetBlackRed(t, sib, p)
  OBVIOUS
<1>u. PICK u : u = Rotate(v, p, d)
  OBVIOUS
<1>1. /\ p \in Nodes /\ sib \in Nodes /\ p \in sub[t.root] /\ sib \in sub[t.root]
      /\ n \in Places /\ n # sib /\ n # p /\ sib # p /\ t.parent[sib] = p /\ sib # t.root
      /\ n # Nil => n \in sub[t.root] /\ n \in Nodes /\ t.parent[n] = p /\ n # t.root
      /\ h[n] \in Nat /\ h[sib] \in Nat /\ h[p] \in Nat
  BY ShortFacts DEF Siblings
<1>s. Shape(t, key, sub)
  BY DEF Short
<1>2. /\ Heights(h) /\ ~IsRed(t, t.root) /\ ~IsRed(t, n) /\ t \in Trees
      /\ \A m \in sub[t.root] \ {p} : Weighs(t, h, m)
      /\ \A m \in sub[t.root] : Quiet(t, Nil, m)
  BY DEF Short, Shape
<1>l. /\ d \in Dirs /\ t.kid[d][p] = n /\ t.kid[o][p] = sib
      /\ h[sib] = h[n] + 1
      /\ t.red[p] => h[p] = h[sib]
      /\ ~t.red[p] => h[p] = h[sib] + 1
  BY <1>o DEF Short, Lacks
<1>d. d \in Dirs
  BY <1>l
<1>3. o \in Dirs /\ o # d /\ Other[o] = d /\ Dirs = {d, o}
  BY <1>d, <1>o, OtherFacts
<1>4. ~t.red[p] /\ h[p] = h[sib] + 1
  <2>1. Quiet(t, Nil, p)
    BY <1>1, <1>2
  <2>2. ~t.red[p]
    BY <1>1, <1>3, <1>l, <2>1, NodesAssumption DEF Quiet, IsRed
  <2> QED
    BY <1>l, <2>2
<1>5. h[mid] = h[sib] /\ h[c] = h[sib] /\ ~IsRed(t, mid) /\ ~IsRed(t, c)
  <2>1. Weighs(t, h, sib) /\ Quiet(t, Nil, sib)
    BY <1>1, <1>2
  <2>2. h[mid] = h[sib] /\ h[c] = h[sib]
    BY <1>3, <1>mid, <1>c, <2>1 DEF Weighs
  <2>3. ~IsRed(t, mid) /\ ~IsRed(t, c)
    BY <1>3, <1>mid, <1>c, <2>1 DEF Quiet, IsRed
  <2> QED
    BY <2>2, <2>3
<1>6. /\ mid \in Places /\ c \in Places /\ mid # sib /\ c # sib
      /\ mid # Nil => mid \in Nodes /\ t.parent[mid] = sib /\ mid \in sub[t.root]
      /\ c # Nil => c \in Nodes /\ t.parent[c] = sib
  <2>1. Family(t, key, sub, sib, d, mid, c)
    BY <1>1, <1>s, <1>d, <1>mid, <1>c, <1>o, ShapeOfNode
  <2>2. Family(t, key, sub, sib, o, c, mid)
    BY <1>1, <1>s, <1>3, <1>mid, <1>c, ShapeOfNode
  <2> QED
    BY <1>1, <2>1, <2>2, NodesAssumption DEF Family
<1>7. mid # p /\ c # p
  <2>1. Descends(t, sub, sib, p)
    BY <1>1, <1>s, ShapeOfParent
  <2> QED
    BY <1>1, <1>3, <1>mid, <1>c, <2>1, NodesAssumption DEF Descends
<1>8. mid # Nil
  BY <1>1, <1>2, <1>5, <1>l DEF Heights
<1>9. BlackRed(t, v, sib, p)
  BY <1>1, <1>2, <1>v, SetBlackRedFields
<1>10. /\ v \in Trees /\ v.root = t.root /\ v.kid = t.kid /\ v.parent = t.parent
       /\ ~v.red[sib] /\ v.red[p] /\ \A m \in Nodes \ {sib, p} : v.red[m] = t.red[m]
  BY <1>9 DEF BlackRed
<1>11. Shape(v, key, sub)
  BY <1>s, <1>10, ShapeOfPainted
<1>12. p \in sub[v.root] /\ Turns(v, p, d, sib, mid, q)
  BY <1>1, <1>10, <1>mid, <1>o, <1>q, <1>l, NodesAssumption DEF Turns
<1>13. Rotated(v, u, p, d, sib, mid, q)
  BY <1>d, <1>11, <1>12, <1>u, RotateRotates
<1>14. PICK sub2 : Moved(sub, sub2, p, sib, mid)
  BY <1>1, <1>s, <1>6, MovedExists
<1>15. Shape(u, key, sub2) /\ sub2[u.root] = sub[t.root]
  BY <1>d, <1>10, <1>11, <1>12, <1>13, <1>14, ShapeOfRotated
<1>16. PICK h2 : Raised(h, h2, p, sib, h[sib], h[p])
  BY <1>1, <1>2, RaisedExists
<1>17. /\ Heights(h2) /\ h2[p] = h[sib] /\ h2[sib] = h[p]
       /\ \A m \in Places \ {p, sib} : h2[m] = h[m]
  BY <1>16 DEF Raised
<1>18. h2[mid] = h[sib] /\ h2[c] = h[sib] /\ h2[n] = h[n]
  BY <1>1, <1>5, <1>6, <1>7, <1>17 DEF Places
<1>19. /\ u.kid[o][p] = mid /\ u.kid[d][sib] = p /\ u.kid[d][p] = n /\ u.kid[o][sib] = c
       /\ u.red = v.red
       /\ q = Nil => u.root = sib
       /\ q # Nil => u.root = t.root
  BY <1>10, <1>13, <1>c, <1>l, <1>o DEF Rotated
<1>20. ~IsRed(u, mid) /\ ~IsRed(u, c) /\ ~IsRed(u, n) /\ ~u.red[mid]
  BY <1>1, <1>2, <1>5, <1>6, <1>7, <1>8, <1>10, <1>19 DEF IsRed, Places
<1>21. ASSUME NEW m \in sub[t.root]
       PROVE  (m # p => Weighs(u, h2, m)) /\ Quiet(u, Nil, m)
  <2>1. CASE m = p
    <3>1. \A e \in Dirs : u.kid[e][p] = mid \/ u.kid[e][p] = n
      BY <1>3, <1>19
    <3>2. Quiet(u, Nil, p)
      BY <1>20, <3>1 DEF Quiet
    <3> QED
      BY <2>1, <3>2
  <2>2. CASE m = sib
    <3>1. \A e \in Dirs : u.kid[e][sib] = p \/ u.kid[e][sib] = c
      BY <1>3, <1>19
    <3>2. ~u.red[sib]
      BY <1>10, <1>19
    <3>3. Weighs(u, h2, sib)
      BY <1>4, <1>17, <1>18, <3>1, <3>2 DEF Weighs
    <3>4. Quiet(u, Nil, sib)
      BY <3>2 DEF Quiet
    <3> QED
      BY <2>2, <3>3, <3>4
  <2>3. CASE m # p /\ m # sib
    <3>1. m \in Nodes /\ Weighs(t, h, m) /\ Quiet(t, Nil, m)
      BY <1>2, <1>s, <2>3, ShapeOfMember
    <3>2. v.red[m] = t.red[m]
      BY <1>10, <2>3, <3>1
    <3>3. Weighs(v, h, m)
      BY <1>10, <3>1, <3>2 DEF Weighs
    <3>4. Weighs(u, h2, m)
      BY <1>d, <1>2, <1>10, <1>11, <1>12, <1>13, <1>17, <2>3, <3>3, WeighsRotated
    <3>5. ASSUME t.red[m], NEW e \in Dirs, t.kid[e][m] # p
          PROVE  ~IsRed(v, t.kid[e][m])
      <4>1. ~IsRed(t, t.kid[e][m]) /\ t.kid[e][m] \in Places
        BY <1>2, <3>1, <3>5, FieldsTyped DEF Quiet, IsRed
      <4> QED
        BY <1>10, <3>5, <4>1 DEF IsRed, Places
    <3>6. Quiet(v, p, m)
      BY <1>10, <3>2, <3>5 DEF Quiet
    <3>7. Quiet(u, Nil, m)
      BY <1>d, <1>10, <1>11, <1>12, <1>13, <2>3, <3>6, QuietRotated
    <3> QED
      BY <3>4, <3>7
  <2> QED
    BY <2>1, <2>2, <2>3
<1>22. ~IsRed(u, u.root)
  <2>1. CASE q = Nil
    BY <1>10, <1>19, <2>1 DEF IsRed
  <2>2. CASE q # Nil
    <3>1. t.root # p /\ t.root \in Nodes
      BY <1>1, <1>s, <1>q, <2>2, ShapeOfParent, ShapeOfMember DEF Descends
    <3> QED
      BY <1>1, <1>2, <1>10, <1>19, <2>2, <3>1 DEF IsRed
  <2> QED
    BY <2>1, <2>2
<1>23. Lacks(u, sub2, h2, p, n, d, mid)
  <2>1. u.red[p] /\ p \in sub2[u.root]
    BY <1>1, <1>10, <1>15, <1>19
  <2>2. h2[mid] = h2[n] + 1 /\ h2[p] = h2[mid]
    BY <1>17, <1>18, <1>l
  <2> QED
    BY <1>d, <1>o, <1>19, <2>1, <2>2 DEF Lacks
<1>24. Short(u, key, sub2, h2, p, n, d, mid)
  BY <1>15, <1>17, <1>20, <1>21, <1>22, <1>23 DEF Short
<1> QED
  BY <1>10, <1>15, <1>19, <1>20, <1>24, <1>u, <1>v, <1>mid

-----------------------------------------------------------------------------
(* A red near child of the black sibling is rotated up into its place. *)
LEMMA NearRises ==
  ASSUME NEW t, NEW key, NEW sub, NEW h, NEW p, NEW n, NEW d, NEW sib,
         Short(t, key, sub, h, p, n, d, sib), ~t.red[sib],
         IsRed(t, t.kid[d][sib]), ~IsRed(t, t.kid[Other[d]][sib])
  PROVE  LET near == t.kid[d][sib]
             u    == Rotate(SetBlackRed(t, near, sib), sib, Other[d])
         IN  \E sub2, h2 : /\ Short(u, key, sub2, h2, p, n, d, near)
                           /\ sub2[u.root] = sub[t.root] /\ ~u.red[near]
                           /\ IsRed(u, u.kid[Other[d]][near])
<1>o. PICK o : o = Other[d]
  OBVIOUS
<1>near. PICK near : near = t.kid[d][sib]
  OBVIOUS
<1>far. PICK far : far = t.kid[o][sib]
  OBVIOUS
<1>mid. PICK mid : mid = t.kid[o][near]
  OBVIOUS
<1>c. PICK c : c = t.kid[d][near]
  OBVIOUS
<1>v. PICK v : v = SetBlackRed(t, near, sib)
  OBVIOUS
<1>u. PICK u : u = Rotate(v, sib, o)
  OBVIOUS
<1>1. /\ p \in Nodes /\ sib \in Nodes /\ p \in sub[t.root] /\ sib \in sub[t.root]
      /\ n \in Places /\ n # sib /\ n # p /\ sib # p /\ t.parent[sib] = p /\ sib # t.root
      /\ n # Nil => n \in sub[t.root] /\ n \in Nodes /\ t.parent[n] = p /\ n # t.root
      /\ h[n] \in Nat /\ h[sib] \in Nat /\ h[p] \in Nat
  BY ShortFacts DEF Siblings
<1>s. Shape(t, key, sub)
  BY DEF Short
<1>2. /\ Heights(h) /\ ~IsRed(t, t.root) /\ ~IsRed(t, n) /\ t \in Trees
      /\ \A m \in sub[t.root] \ {p} : Weighs(t, h, m)
      /\ \A m \in sub[t.root] : Quiet(t, Nil, m)
  BY DEF Short, Shape
<1>l. /\ d \in Dirs /\ t.kid[d][p] = n /\ t.kid[o][p] = sib
      /\ h[sib] = h[n] + 1
      /\ t.red[p] => h[p] = h[sib]
      /\ ~t.red[p] => h[p] = h[sib] + 1
  BY <1>o DEF Short, Lacks
<1>d. d \in Dirs
  BY <1>l
<1>3. o \in Dirs /\ o # d /\ Other[o] = d /\ Dirs = {d, o}
  BY <1>d, <1>o, OtherFacts
<1>4. near # Nil /\ t.red[near] /\ ~IsRed(t, far)
  BY <1>near, <1>far, <1>o DEF IsRed
<1>5. /\ near \in Nodes /\ near \in sub[t.root] /\ near # sib /\ t.parent[near] = sib
      /\ far \in Places /\ far # sib /\ far # near /\ near # t.root
      /\ far # Nil => far \in Nodes /\ t.parent[far] = sib
  <2>1. Family(t, key, sub, sib, d, near, far)
    BY <1>1, <1>s, <1>d, <1>near, <1>far, <1>o, ShapeOfNode
  <2>2. Family(t, key, sub, sib, o, far, near)
    BY <1>1, <1>s, <1>3, <1>near, <1>far, ShapeOfNode
  <2> QED
    BY <1>4, <2>1, <2>2 DEF Family
<1>6. near # p /\ far # p
  <2>1. Descends(t, sub, sib, p)
    BY <1>1, <1>s, ShapeOfParent
  <2> QED
    BY <1>1, <1>3, <1>near, <1>far, <2>1, NodesAssumption DEF Descends
<1>7. /\ mid \in Places /\ c \in Places /\ mid # near /\ c # near
      /\ mid # Nil => mid \in Nodes /\ t.parent[mid] = near
      /\ c # Nil => c \in Nodes /\ t.parent[c] = near
  <2>1. Family(t, key, sub, near, d, c, mid)
    BY <1>5, <1>s, <1>d, <1>mid, <1>c, <1>o, ShapeOfNode
  <2>2. Family(t, key, sub, near, o, mid, c)
    BY <1>5, <1>s, <1>3, <1>mid, <1>c, ShapeOfNode
  <2> QED
    BY <1>5, <2>1, <2>2, NodesAssumption DEF Family
<1>8. mid # sib /\ c # sib /\ mid # p /\ c # p /\ near # n
  <2>1. Descends(t, sub, near, sib)
    BY <1>5, <1>s, ShapeOfParent
  <2>2. mid # sib /\ c # sib
    BY <1>1, <1>3, <1>mid, <1>c, <2>1, NodesAssumption DEF Descends
  <2>3. mid # p /\ c # p
    <3>1. t.parent[p] # near
      <4>1. Descends(t, sub, p, t.parent[p]) /\ Descends(t, sub, near, sib) /\ Descends(t, sub, sib, p)
        BY <1>1, <1>5, <1>s, ShapeOfParent
      <4>2. p \notin sub[sib] /\ sub[near] \subseteq sub[sib]
        BY <1>1, <4>1, NodesAssumption DEF Descends
      <4>3. t.parent[p] # Nil => sub[p] \subseteq sub[t.parent[p]] /\ p \in sub[p]
        BY <1>1, <1>s, <4>1, ShapeOfMember DEF Descends
      <4> QED
        BY <1>5, <4>2, <4>3, NodesAssumption
    <3> QED
      BY <1>1, <1>7, <3>1, NodesAssumption
  <2>4. near # n
    BY <1>1, <1>5, NodesAssumption
  <2> QED
    BY <2>2, <2>3, <2>4
<1>9. BlackRed(t, v, near, sib)
  BY <1>1, <1>2, <1>5, <1>v, SetBlackRedFields
<1>10. /\ v \in Trees /\ v.root = t.root /\ v.kid = t.kid /\ v.parent = t.parent
       /\ ~v.red[near] /\ v.red[sib] /\ \A m \in Nodes \ {near, sib} : v.red[m] = t.red[m]
  BY <1>9 DEF BlackRed
<1>11. Shape(v, key, sub)
  BY <1>s, <1>10, ShapeOfPainted
<1>12. sib \in sub[v.root] /\ Turns(v, sib, o, near, mid, p)
  BY <1>1, <1>3, <1>4, <1>10, <1>mid, <1>near DEF Turns
<1>13. Rotated(v, u, sib, o, near, mid, p)
  BY <1>3, <1>11, <1>12, <1>u, RotateRotates
<1>14. PICK sub2 : Moved(sub, sub2, sib, near, mid)
  BY <1>1, <1>s, <1>5, <1>7, MovedExists
<1>15. Shape(u, key, sub2) /\ sub2[u.root] = sub[t.root]
  BY <1>3, <1>10, <1>11, <1>12, <1>13, <1>14, ShapeOfRotated
<1>16. /\ h[near] = h[n] /\ h[far] = h[n] /\ h[mid] = h[n] /\ h[c] = h[n]
       /\ ~IsRed(t, mid) /\ ~IsRed(t, c) /\ h[near] \in Nat
  <2>1. Weighs(t, h, sib) /\ Weighs(t, h, near) /\ Quiet(t, Nil, near)
    BY <1>1, <1>2, <1>5, <1>6
  <2>2. h[near] \in Nat /\ h[far] \in Nat
    BY <1>2, <1>5 DEF Heights, Places
  <2>3. h[sib] = h[near] + 1 /\ h[sib] = h[far] + 1
    BY <1>3, <1>near, <1>far, <2>1 DEF Weighs
  <2>4. h[near] = h[mid] /\ h[near] = h[c]
    BY <1>3, <1>4, <1>mid, <1>c, <2>1 DEF Weighs
  <2>5. ~IsRed(t, mid) /\ ~IsRed(t, c)
    BY <1>3, <1>4, <1>mid, <1>c, <2>1 DEF Quiet, IsRed
  <2> QED
    BY <1>1, <1>l, <2>2, <2>3, <2>4, <2>5
<1>17. PICK h2 : Raised(h, h2, sib, near, h[near], h[sib])
  BY <1>1, <1>2, <1>5, <1>16, RaisedExists
<1>18. /\ Heights(h2) /\ h2[sib] = h[near] /\ h2[near] = h[sib]
       /\ \A m \in Places \ {sib, near} : h2[m] = h[m]
  BY <1>17 DEF Raised
<1>19. h2[mid] = h[n] /\ h2[c] = h[n] /\ h2[far] = h[n] /\ h2[n] = h[n] /\ h2[p] = h[p]
  BY <1>1, <1>5, <1>6, <1>7, <1>8, <1>16, <1>18 DEF Places
<1>20. /\ u.kid[d][sib] = mid /\ u.kid[o][near] = sib /\ u.kid[o][sib] = far /\ u.kid[d][near] = c
       /\ u.red = v.red /\ u.root = t.root /\ u.kid[o][p] = near /\ u.kid[d][p] = n
  <2>1. /\ u.kid[d][sib] = mid /\ u.kid[o][near] = sib /\ u.kid[o][sib] = far /\ u.kid[d][near] = c
        /\ u.red = v.red
    BY <1>3, <1>10, <1>13, <1>far, <1>c DEF Rotated
  <2>2. u.root = t.root
    BY <1>1, <1>10, <1>13, NodesAssumption DEF Rotated
  <2>3. u.kid[o][p] = near /\ u.kid[d][p] = n
    BY <1>1, <1>3, <1>6, <1>10, <1>13, <1>l DEF Rotated
  <2> QED
    BY <2>1, <2>2, <2>3
<1>21. ~IsRed(u, mid) /\ ~IsRed(u, far) /\ ~IsRed(u, n) /\ ~u.red[near] /\ u.red[sib]
  <2>1. ~IsRed(u, mid)
    BY <1>7, <1>8, <1>10, <1>16, <1>20 DEF IsRed, Places
  <2>2. ~IsRed(u, far)
    BY <1>4, <1>5, <1>10, <1>20 DEF IsRed, Places
  <2>3. ~IsRed(u, n)
    BY <1>1, <1>2, <1>8, <1>10, <1>20 DEF IsRed, Places
  <2> QED
    BY <1>10, <1>20, <2>1, <2>2, <2>3
<1>22. ASSUME NEW m \in sub[t.root]
       PROVE  (m # p => Weighs(u, h2, m)) /\ Quiet(u, Nil, m)
  <2>1. CASE m = sib
    <3>1. \A e \in Dirs : u.kid[e][sib] = mid \/ u.kid[e][sib] = far
      BY <1>3, <1>20
    <3>2. Weighs(u, h2, sib)
      BY <1>16, <1>18, <1>19, <1>21, <3>1 DEF Weighs
    <3>3. Quiet(u, Nil, sib)
      BY <1>21, <3>1 DEF Quiet
    <3> QED
      BY <2>1, <3>2, <3>3
  <2>2. CASE m = near
    <3>1. \A e \in Dirs : u.kid[e][near] = sib \/ u.kid[e][near] = c
      BY <1>3, <1>20
    <3>2. h2[near] = h2[sib] + 1 /\ h2[near] = h2[c] + 1
      BY <1>16, <1>18, <1>19, <1>l
    <3>3. Weighs(u, h2, near)
      BY <1>21, <3>1, <3>2 DEF Weighs
    <3>4. Quiet(u, Nil, near)
      BY <1>21 DEF Quiet
    <3> QED
      BY <2>2, <3>3, <3>4
  <2>3. CASE m # sib /\ m # near
    <3>1. m \in Nodes /\ (m # p => Weighs(t, h, m)) /\ Quiet(t, Nil, m)
      BY <1>2, <1>s, <2>3, ShapeOfMember
    <3>2. v.red[m] = t.red[m]
      BY <1>10, <2>3, <3>1
    <3>3. m # p => Weighs(v, h, m)
      BY <1>10, <3>1, <3>2 DEF Weighs
    <3>4. m # p => Weighs(u, h2, m)
      BY <1>3, <1>2, <1>10, <1>11, <1>12, <1>13, <1>18, <2>3, <3>3, WeighsRotated
    <3>5. ASSUME t.red[m], NEW e \in Dirs, t.kid[e][m] # sib
          PROVE  ~IsRed(v, t.kid[e][m])
      <4>1. ~IsRed(t, t.kid[e][m]) /\ t.kid[e][m] \in Places
        BY <1>2, <3>1, <3>5, FieldsTyped DEF Quiet, IsRed
      <4> QED
        BY <1>10, <3>5, <4>1 DEF IsRed, Places
    <3>6. Quiet(v, sib, m)
      BY <1>10, <3>2, <3>5 DEF Quiet
    <3>7. Quiet(u, Nil, m)
      BY <1>3, <1>10, <1>11, <1>12, <1>13, <2>3, <3>6, QuietRotated
    <3> QED
      BY <3>4, <3>7
  <2> QED
    BY <2>1, <2>2, <2>3
<1>23. ~IsRed(u, u.root)
  <2>1. t.root \in Nodes
    BY <1>1, <1>s, ShapeOfMember
  <2> QED
    BY <1>1, <1>2, <1>5, <1>10, <1>20, <2>1 DEF IsRed
<1>24. Lacks(u, sub2, h2, p, n, d, near)
  <2>1. u.red[p] = t.red[p] /\ p \in sub2[u.root]
    BY <1>1, <1>6, <1>10, <1>15, <1>20
  <2>2. h2[near] = h2[n] + 1 /\ h2[p] = h[p] /\ h2[near] = h[sib]
    BY <1>18, <1>19, <1>l
  <2> QED
    BY <1>d, <1>o, <1>20, <1>l, <2>1, <2>2 DEF Lacks
<1>25. Short(u, key, sub2, h2, p, n, d, near)
  BY <1>15, <1>18, <1>21, <1>22, <1>23, <1>24 DEF Short
<1>26. IsRed(u, u.kid[o][near])
  BY <1>1, <1>20, <1>21, NodesAssumption DEF IsRed
<1> QED
  BY <1>15, <1>21, <1>25, <1>26, <1>u, <1>v, <1>near, <1>o

(* The black sibling has a red far child: it comes up, and nothing lacks. *)
Lent(t, v, p, sib, far) ==
    /\ v \in Trees /\ v.root = t.root /\ v.kid = t.kid /\ v.parent = t.parent
    /\ v.red[sib] = t.red[p] /\ ~v.red[p] /\ ~v.red[far]
    /\ \A m \in Nodes \ {p, sib, far} : v.red[m] = t.red[m]

(* The colours that Borrow sets before its rotation *)
LEMMA Lends ==
  ASSUME NEW t \in Trees, NEW p \in Nodes, NEW sib \in Nodes, NEW d \in Dirs,
         t.kid[Other[d]][sib] \in Nodes,
         p # sib, t.kid[Other[d]][sib] # p, t.kid[Other[d]][sib] # sib
  PROVE  \E v : /\ Lent(t, v, p, sib, t.kid[Other[d]][sib])
                /\ Borrow(t, sib, p, d) = <<Rotate(v, p, d), p, Rotate(v, p, d).root>>
<1>far. PICK far : far = t.kid[Other[d]][sib]
  OBVIOUS
<1>a. PICK a : a = Paint(t, sib, t.red[p])
  OBVIOUS
<1>b. PICK b : b = Paint(a, p, FALSE)
  OBVIOUS
<1>v. PICK v : v = Paint(b, far, FALSE)
  OBVIOUS
<1>0. p \in Places /\ sib \in Places /\ far \in Places /\ t.red[p] \in BOOLEAN
  BY <1>far, FieldsTyped DEF Places
<1>1. Painted(t, a, sib, t.red[p])
  BY <1>0, <1>a, PaintFields
<1>2. Painted(a, b, p, FALSE)
  <2>1. a \in Trees
    BY <1>1 DEF Painted
  <2> QED
    BY <1>0, <2>1, <1>b, PaintFields
<1>3. Painted(b, v, far, FALSE)
  <2>1. b \in Trees
    BY <1>2 DEF Painted
  <2> QED
    BY <1>0, <2>1, <1>v, PaintFields
<1>4. Lent(t, v, p, sib, far)
  <2>1. /\ v \in Trees /\ v.root = t.root /\ v.kid = t.kid /\ v.parent = t.parent
    BY <1>1, <1>2, <1>3 DEF Painted
  <2>2. ~v.red[far] /\ v.red[p] = b.red[p] /\ v.red[sib] = b.red[sib]
    BY <1>3, <1>far DEF Painted
  <2>3. ~b.red[p] /\ b.red[sib] = a.red[sib]
    BY <1>2 DEF Painted
  <2>4. a.red[sib] = t.red[p]
    BY <1>1 DEF Painted
  <2>5. \A m \in Nodes \ {p, sib, far} : v.red[m] = t.red[m]
    BY <1>1, <1>2, <1>3 DEF Painted
  <2> QED
    BY <2>1, <2>2, <2>3, <2>4, <2>5 DEF Lent
<1>5. b.kid[Other[d]][sib] = far
  BY <1>1, <1>2, <1>far DEF Painted
<1>w. PICK w : w = Rotate(v, p, d)
  OBVIOUS
<1>6. Borrow(t, sib, p, d) = <<w, p, w.root>>
  BY <1>a, <1>b, <1>v, <1>w, <1>5 DEF Borrow
<1> QED
  BY <1>4, <1>6, <1>w, <1>far

(* A black sibling with a red outer child gives a black node to the other side. *)
LEMMA BorrowRestores ==
  ASSUME NEW t, NEW key, NEW sub, NEW h, NEW p, NEW n, NEW d, NEW sib,
         Short(t, key, sub, h, p, n, d, sib), ~t.red[sib], IsRed(t, t.kid[Other[d]][sib])
  PROVE  \E u, sub2, h2 : /\ Borrow(t, sib, p, d) = <<u, p, u.root>>
                          /\ Coloured(u, key, sub2, h2) /\ sub2[u.root] = sub[t.root]
<1>o. PICK o : o = Other[d]
  OBVIOUS
<1>near. PICK near : near = t.kid[d][sib]
  OBVIOUS
<1>far. PICK far : far = t.kid[o][sib]
  OBVIOUS
<1>q. PICK q : q = t.parent[p]
  OBVIOUS
<1>1. /\ p \in Nodes /\ sib \in Nodes /\ p \in sub[t.root] /\ sib \in sub[t.root]
      /\ n \in Places /\ n # sib /\ n # p /\ sib # p /\ t.parent[sib] = p /\ sib # t.root
      /\ n # Nil => n \in sub[t.root] /\ n \in Nodes /\ t.parent[n] = p /\ n # t.root
      /\ h[n] \in Nat /\ h[sib] \in Nat /\ h[p] \in Nat
  BY ShortFacts DEF Siblings
<1>s. Shape(t, key, sub)
  BY DEF Short
<1>2. /\ Heights(h) /\ ~IsRed(t, t.root) /\ ~IsRed(t, n) /\ t \in Trees
      /\ \A m \in sub[t.root] \ {p} : Weighs(t, h, m)
      /\ \A m \in sub[t.root] : Quiet(t, Nil, m)
  BY DEF Short, Shape
<1>l. /\ d \in Dirs /\ t.kid[d][p] = n /\ t.kid[o][p] = sib
      /\ h[sib] = h[n] + 1
      /\ t.red[p] => h[p] = h[sib]
      /\ ~t.red[p] => h[p] = h[sib] + 1
  BY <1>o DEF Short, Lacks
<1>d. d \in Dirs
  BY <1>l
<1>3. o \in Dirs /\ o # d /\ Other[o] = d /\ Dirs = {d, o}
  BY <1>d, <1>o, OtherFacts
<1>4. far # Nil /\ t.red[far]
  BY <1>far, <1>o DEF IsRed
<1>5. /\ far \in Nodes /\ far \in sub[t.root] /\ far # sib /\ t.parent[far] = sib /\ far # t.root
      /\ near \in Places /\ near # sib /\ near # far
      /\ near # Nil => near \in Nodes /\ t.parent[near] = sib
  <2>1. Family(t, key, sub, sib, d, near, far)
    BY <1>1, <1>s, <1>d, <1>near, <1>far, <1>o, ShapeOfNode
  <2>2. Family(t, key, sub, sib, o, far, near)
    BY <1>1, <1>s, <1>3, <1>near, <1>far, ShapeOfNode
  <2> QED
    BY <1>4, <2>1, <2>2 DEF Family
<1>6. near # p /\ far # p
  <2>1. Descends(t, sub, sib, p)
    BY <1>1, <1>s, ShapeOfParent
  <2> QED
    BY <1>1, <1>3, <1>near, <1>far, <2>1, NodesAssumption DEF Descends
<1>7. far # n
  BY <1>1, <1>5, NodesAssumption
<1>8. PICK v : Lent(t, v, p, sib, far) /\ Borrow(t, sib, p, d) = <<Rotate(v, p, d), p, Rotate(v, p, d).root>>
  BY <1>1, <1>2, <1>5, <1>6, <1>d, <1>o, <1>far, Lends
<1>u. PICK u : u = Rotate(v, p, d)
  OBVIOUS
<1>10. /\ v \in Trees /\ v.root = t.root /\ v.kid = t.kid /\ v.parent = t.parent
       /\ v.red[sib] = t.red[p] /\ ~v.red[p] /\ ~v.red[far]
       /\ \A m \in Nodes \ {p, sib, far} : v.red[m] = t.red[m]
  BY <1>8 DEF Lent
<1>11. Shape(v, key, sub)
  BY <1>s, <1>10, ShapeOfPainted
<1>12. p \in sub[v.root] /\ Turns(v, p, d, sib, near, q)
  BY <1>1, <1>10, <1>near, <1>o, <1>q, <1>l, NodesAssumption DEF Turns
<1>13. Rotated(v, u, p, d, sib, near, q)
  BY <1>d, <1>11, <1>12, <1>u, RotateRotates
<1>14. PICK sub2 : Moved(sub, sub2, p, sib, near)
  BY <1>1, <1>s, <1>5, MovedExists
<1>15. Shape(u, key, sub2) /\ sub2[u.root] = sub[t.root]
  BY <1>d, <1>10, <1>11, <1>12, <1>13, <1>14, ShapeOfRotated
<1>16. /\ h[near] = h[n] /\ h[far] = h[n] /\ h[far] \in Nat
       /\ \A e \in Dirs : h[t.kid[e][far]] = h[n] /\ ~IsRed(t, t.kid[e][far])
  <2>1. Weighs(t, h, sib) /\ Weighs(t, h, far) /\ Quiet(t, Nil, far)
    BY <1>1, <1>2, <1>5, <1>6
  <2>2. h[near] \in Nat /\ h[far] \in Nat
    BY <1>2, <1>5 DEF Heights, Places
  <2>3. h[sib] = h[near] + 1 /\ h[sib] = h[far] + 1
    BY <1>3, <1>near, <1>far, <2>1 DEF Weighs
  <2>4. \A e \in Dirs : h[far] = h[t.kid[e][far]]
    BY <1>4, <2>1 DEF Weighs
  <2>5. \A e \in Dirs : ~IsRed(t, t.kid[e][far])
    BY <1>4, <2>1 DEF Quiet, IsRed
  <2> QED
    BY <1>1, <1>l, <2>2, <2>3, <2>4, <2>5
<1>17. PICK h1 : Heights(h1) /\ h1[far] = h[far] + 1 /\ \A m \in Places \ {far} : h1[m] = h[m]
  <2> WITNESS [h EXCEPT ![far] = h[far] + 1]
  <2> QED
    BY <1>2, <1>5, <1>16, NodesAssumption DEF Heights, Places
<1>18. PICK h2 : Raised(h1, h2, p, sib, h[n] + 1, h[p])
  BY <1>1, <1>17, RaisedExists
<1>19. /\ Heights(h2) /\ h2[p] = h[n] + 1 /\ h2[sib] = h[p]
       /\ \A m \in Places \ {p, sib} : h2[m] = h1[m]
  BY <1>18 DEF Raised
<1>20. h2[near] = h[n] /\ h2[far] = h[n] + 1 /\ h2[n] = h[n]
  BY <1>1, <1>5, <1>6, <1>7, <1>16, <1>17, <1>19 DEF Places
<1>21. /\ u.kid[o][p] = near /\ u.kid[d][sib] = p /\ u.kid[d][p] = n /\ u.kid[o][sib] = far
       /\ u.red = v.red
       /\ q = Nil => u.root = sib
       /\ q # Nil => u.root = t.root
  BY <1>10, <1>13, <1>far, <1>l, <1>o DEF Rotated
<1>22. q # Nil => q \in Nodes /\ q \in sub[t.root] /\ q # p /\ q # sib /\ q # far /\ \E e \in Dirs : t.kid[e][q] = p
  <2>1. Descends(t, sub, p, q)
    BY <1>1, <1>s, <1>q, ShapeOfParent
  <2>2. q # Nil => q \in Nodes /\ q \in sub[t.root] /\ q # p /\ q # sib /\ \E e \in Dirs : t.kid[e][q] = p
    BY <1>3, <1>l, <2>1 DEF Descends
  <2>3. q # far
    <3>1. Descends(t, sub, far, sib) /\ Descends(t, sub, sib, p)
      BY <1>1, <1>5, <1>s, ShapeOfParent
    <3>2. p \notin sub[sib] /\ sub[far] \subseteq sub[sib]
      BY <1>1, <3>1, NodesAssumption DEF Descends
    <3>3. q # Nil => sub[p] \subseteq sub[q] /\ p \in sub[p]
      BY <1>1, <1>s, <2>1, ShapeOfMember DEF Descends
    <3> QED
      BY <1>4, <3>2, <3>3
  <2> QED
    BY <2>2, <2>3
<1>23. ASSUME NEW m \in sub[t.root]
       PROVE  Weighs(u, h2, m) /\ Quiet(u, Nil, m)
  <2>1. CASE m = p
    <3>1. \A e \in Dirs : u.kid[e][p] = near \/ u.kid[e][p] = n
      BY <1>3, <1>21
    <3>2. ~u.red[p]
      BY <1>10, <1>21
    <3>3. Weighs(u, h2, p)
      BY <1>19, <1>20, <3>1, <3>2 DEF Weighs
    <3>4. Quiet(u, Nil, p)
      BY <3>2 DEF Quiet
    <3> QED
      BY <2>1, <3>3, <3>4
  <2>2. CASE m = sib
    <3>1. \A e \in Dirs : u.kid[e][sib] = p \/ u.kid[e][sib] = far
      BY <1>3, <1>21
    <3>2. u.red[sib] = t.red[p] /\ ~IsRed(u, p) /\ ~IsRed(u, far)
      BY <1>10, <1>21 DEF IsRed
    <3>3. /\ t.red[p] => h2[sib] = h[n] + 1
          /\ ~t.red[p] => h2[sib] = h[n] + 1 + 1
      BY <1>19, <1>l
    <3>4. Weighs(u, h2, sib)
      BY <1>19, <1>20, <3>1, <3>2, <3>3 DEF Weighs
    <3>5. Quiet(u, Nil, sib)
      BY <3>1, <3>2 DEF Quiet
    <3> QED
      BY <2>2, <3>4, <3>5
  <2>3. CASE m # p /\ m # sib
    <3>1. m \in Nodes /\ Weighs(t, h, m) /\ Quiet(t, Nil, m)
      BY <1>2, <1>s, <2>3, ShapeOfMember
    <3>k. ASSUME NEW e \in Dirs
          PROVE  t.kid[e][m] \in Places /\ t.kid[e][m] # far
      <4>1. t.kid[e][m] \in Places /\ (t.kid[e][m] # Nil => t.parent[t.kid[e][m]] = m)
        BY <1>s, ShapeOfKid
      <4> QED
        BY <1>4, <1>5, <2>3, <4>1
    <3>2. m # far => v.red[m] = t.red[m]
      BY <1>10, <2>3, <3>1
    <3>3. Weighs(v, h1, m)
      <4>1. \A e \in Dirs : h1[t.kid[e][m]] = h[t.kid[e][m]]
        BY <1>17, <3>k
      <4>2. CASE m = far
        <5>1. \A e \in Dirs : h1[far] = h1[t.kid[e][far]] + 1
          BY <1>16, <1>17, <4>1, <4>2
        <5> QED
          BY <1>10, <4>2, <5>1 DEF Weighs
      <4>3. CASE m # far
        <5>1. h1[m] = h[m]
          BY <1>17, <3>1, <4>3 DEF Places
        <5> QED
          BY <1>10, <3>1, <3>2, <4>1, <4>3, <5>1 DEF Weighs
      <4> QED
        BY <4>2, <4>3
    <3>4. Weighs(u, h2, m)
      <4>1. h2[sib] = h1[p]
        BY <1>1, <1>6, <1>17, <1>19 DEF Places
      <4> QED
        BY <1>d, <1>10, <1>11, <1>12, <1>13, <1>17, <1>19, <2>3, <3>3, <4>1, WeighsRotated
    <3>5. ASSUME v.red[m], NEW e \in Dirs, t.kid[e][m] # p
          PROVE  ~IsRed(v, t.kid[e][m])
      <4>1. m # far /\ t.red[m]
        BY <1>10, <3>2, <3>5
      <4>2. ~IsRed(t, t.kid[e][m]) /\ t.kid[e][m] \in Places /\ t.kid[e][m] # far
        BY <3>1, <3>k, <4>1 DEF Quiet, IsRed
      <4>3. t.kid[e][m] # sib
        <5>1. t.kid[e][m] # Nil => t.parent[t.kid[e][m]] = m
          BY <1>s, ShapeOfKid
        <5> QED
          BY <1>1, <2>3, <5>1, NodesAssumption
      <4> QED
        BY <1>10, <3>5, <4>2, <4>3 DEF IsRed, Places
    <3>6. Quiet(v, p, m)
      BY <1>10, <3>5 DEF Quiet
    <3>7. m = q => ~v.red[m] \/ ~v.red[sib]
      <4> SUFFICES ASSUME m = q, v.red[m] PROVE ~t.red[p]
        BY <1>10
      <4>1. m # far /\ t.red[m]
        BY <1>10, <3>2
      <4>2. PICK e \in Dirs : t.kid[e][m] = p
        BY <1>22, <3>1, NodesAssumption
      <4> QED
        BY <1>1, <3>1, <4>1, <4>2, NodesAssumption DEF Quiet, IsRed
    <3>8. Quiet(u, Nil, m)
      BY <1>d, <1>10, <1>11, <1>12, <1>13, <2>3, <3>6, <3>7, QuietRotated
    <3> QED
      BY <3>4, <3>8
  <2> QED
    BY <2>1, <2>2, <2>3
<1>24. ~IsRed(u, u.root)
  <2>1. CASE q = Nil
    <3>1. p = t.root
      <4>1. Descends(t, sub, p, q)
        BY <1>1, <1>s, <1>q, ShapeOfParent
      <4> QED
        BY <2>1, <4>1 DEF Descends
    <3> QED
      BY <1>2, <1>10, <1>21, <2>1, <3>1, <1>1, NodesAssumption DEF IsRed
  <2>2. CASE q # Nil
    <3>1. t.root # p /\ t.root \in Nodes
      BY <1>1, <1>s, <1>q, <2>2, ShapeOfParent, ShapeOfMember DEF Descends
    <3> QED
      BY <1>1, <1>2, <1>5, <1>10, <1>21, <2>2, <3>1 DEF IsRed
  <2> QED
    BY <2>1, <2>2
<1>25. Coloured(u, key, sub2, h2)
  BY <1>15, <1>19, <1>23, <1>24 DEF Coloured
<1>26. Borrow(t, sib, p, d) = <<u, p, u.root>>
  BY <1>8, <1>u
<1> QED
  BY <1>15, <1>25, <1>26

-----------------------------------------------------------------------------
(* What removal has come to: the part below n lacks a black node, or the *)
(* whole tree does; a red n makes up for it, when it is painted black.   *)
Shrinking(t, key, sub, h, p, n) ==
    /\ Shape(t, key, sub) /\ Heights(h) /\ n \in Places /\ p \in Places
    /\ \A m \in sub[t.root] \ {n} : Quiet(t, n, m)
    /\ n # t.root => ~IsRed(t, t.root)
    /\ \/ n = t.root /\ \A m \in sub[t.root] : Weighs(t, h, m)
       \/ /\ \E d, sib : Lacks(t, sub, h, p, n, d, sib)
          /\ \A m \in sub[t.root] \ {p} : Weighs(t, h, m)

(* Unless n is red or the root, its side lacks a black node, and it has a sibling. *)
LEMMA ShrinkingIsShort ==
  ASSUME NEW t, NEW key, NEW sub, NEW h, NEW p, NEW n,
         Shrinking(t, key, sub, h, p, n), ~IsRed(t, n), n # t.root
  PROVE  \E d, sib : /\ Short(t, key, sub, h, p, n, d, sib)
                     /\ d = Side(t, p, n) /\ sib = t.kid[Other[d]][p] /\ d \in Dirs
<1>1. /\ Shape(t, key, sub) /\ Heights(h) /\ n \in Places
      /\ \A m \in sub[t.root] \ {n} : Quiet(t, n, m)
      /\ ~IsRed(t, t.root)
      /\ \A m \in sub[t.root] \ {p} : Weighs(t, h, m)
  BY DEF Shrinking
<1>2. PICK d, sib : Lacks(t, sub, h, p, n, d, sib)
  BY DEF Shrinking
<1>3. ASSUME NEW m \in sub[t.root] PROVE Quiet(t, Nil, m)
  <2>1. CASE m = n
    <3>1. m # Nil
      BY <1>1, ShapeOfMember, NodesAssumption
    <3> QED
      BY <2>1, <3>1 DEF Quiet, IsRed
  <2>2. CASE m # n
    BY <1>1, <2>2 DEF Quiet, IsRed
  <2> QED
    BY <2>1, <2>2
<1>4. Short(t, key, sub, h, p, n, d, sib)
  BY <1>1, <1>2, <1>3 DEF Short
<1>5. Siblings(t, sub, h, p, n, sib)
  BY <1>4, ShortFacts
<1>6. d \in Dirs /\ t.kid[d][p] = n /\ t.kid[Other[d]][p] = sib
  BY <1>2 DEF Lacks
<1>7. p \in Nodes /\ n # sib /\ t \in Trees
  BY <1>1, <1>5 DEF Siblings, Shape
<1>8. d = Side(t, p, n)
  BY <1>1, <1>6, <1>7, SideFacts
<1> QED
  BY <1>4, <1>6, <1>8

(* What a turn leaves, in which p was the parent *)
Shed(t, key, sub, p, u, q, x) ==
    \E sub2, h2 : /\ Shrinking(u, key, sub2, h2, q, x) /\ sub2[u.root] = sub[t.root]
                  /\ (x = p /\ sub2 = sub /\ u.red[p] = t.red[p]) \/ x = u.root

(* A black sibling without red children becomes red: now the parent is short. *)
LEMMA SiblingReddens ==
  ASSUME NEW t, NEW key, NEW sub, NEW h, NEW p, NEW n, NEW d, NEW sib,
         Short(t, key, sub, h, p, n, d, sib), ~t.red[sib],
         \A e \in Dirs : ~IsRed(t, t.kid[e][sib])
  PROVE  Shed(t, key, sub, p, Paint(t, sib, TRUE), t.parent[p], p)
<1>o. PICK o : o = Other[d]
  OBVIOUS
<1>q. PICK q : q = t.parent[p]
  OBVIOUS
<1>u. PICK u : u = Paint(t, sib, TRUE)
  OBVIOUS
<1>1. /\ p \in Nodes /\ sib \in Nodes /\ p \in sub[t.root] /\ sib \in sub[t.root]
      /\ n \in Places /\ n # sib /\ n # p /\ sib # p /\ t.parent[sib] = p /\ sib # t.root
      /\ n # Nil => n \in sub[t.root] /\ n \in Nodes /\ t.parent[n] = p /\ n # t.root
      /\ h[n] \in Nat /\ h[sib] \in Nat /\ h[p] \in Nat
  BY ShortFacts DEF Siblings
<1>s. Shape(t, key, sub)
  BY DEF Short
<1>2. /\ Heights(h) /\ ~IsRed(t, t.root) /\ ~IsRed(t, n) /\ t \in Trees
      /\ \A m \in sub[t.root] \ {p} : Weighs(t, h, m)
      /\ \A m \in sub[t.root] : Quiet(t, Nil, m)
  BY DEF Short, Shape
<1>l. /\ d \in Dirs /\ t.kid[d][p] = n /\ t.kid[o][p] = sib
      /\ h[sib] = h[n] + 1
      /\ t.red[p] => h[p] = h[sib]
      /\ ~t.red[p] => h[p] = h[sib] + 1
  BY <1>o DEF Short, Lacks
<1>d. d \in Dirs
  BY <1>l
<1>3. o \in Dirs /\ o # d /\ Other[o] = d /\ Dirs = {d, o}
  BY <1>d, <1>o, OtherFacts
<1>4. Painted(t, u, sib, TRUE)
  BY <1>1, <1>2, <1>u, PaintFields DEF Places
<1>5. /\ u \in Trees /\ u.root = t.root /\ u.kid = t.kid /\ u.parent = t.parent
      /\ u.red[sib] /\ \A m \in Nodes \ {sib} : u.red[m] = t.red[m]
  BY <1>1, <1>4 DEF Painted
<1>6. Shape(u, key, sub)
  BY <1>s, <1>5, ShapeOfPainted
<1>7. h[p] # 0 /\ h[p] - 1 \in Nat /\ (t.red[p] => h[p] - 1 = h[n]) /\ (~t.red[p] => h[p] - 1 = h[n] + 1)
  BY <1>1, <1>l
<1>8. PICK h2 : Raised(h, h2, p, sib, h[p] - 1, h[n])
  BY <1>1, <1>2, <1>7, RaisedExists
<1>9. /\ Heights(h2) /\ h2[p] = h[p] - 1 /\ h2[sib] = h[n]
      /\ \A m \in Places \ {p, sib} : h2[m] = h[m]
  BY <1>8 DEF Raised
<1>10. h2[n] = h[n]
  BY <1>1, <1>9 DEF Places
<1>11. ASSUME NEW m \in sub[t.root], NEW e \in Dirs
       PROVE  /\ m \in Nodes /\ t.kid[e][m] \in Places
              /\ m # p => t.kid[e][m] # sib
              /\ m # q => t.kid[e][m] # p
  <2>1. t.kid[e][m] \in Places /\ (t.kid[e][m] # Nil => t.parent[t.kid[e][m]] = m) /\ m \in Nodes
    BY <1>s, ShapeOfKid, ShapeOfMember
  <2> QED
    BY <1>1, <1>q, <2>1, NodesAssumption
<1>12. Weighs(u, h2, p)
  <2>1. \A e \in Dirs : u.kid[e][p] = n \/ u.kid[e][p] = sib
    BY <1>3, <1>5, <1>l
  <2>2. u.red[p] = t.red[p]
    BY <1>1, <1>5
  <2> QED
    BY <1>7, <1>9, <1>10, <2>1, <2>2 DEF Weighs
<1>13. ASSUME NEW m \in sub[t.root], m # q
       PROVE  Weighs(u, h2, m)
  <2>1. CASE m = p
    BY <1>12, <2>1
  <2>2. CASE m = sib
    <3>1. Weighs(t, h, sib)
      BY <1>1, <1>2
    <3>2. ASSUME NEW e \in Dirs PROVE h2[t.kid[e][sib]] = h[n]
      <4>1. h[sib] = h[t.kid[e][sib]] + 1
        BY <3>1 DEF Weighs
      <4>2. t.kid[e][sib] \in Places /\ t.kid[e][sib] # sib /\ t.kid[e][sib] # p
        BY <1>1, <1>11, <1>13, <2>2
      <4>3. h[t.kid[e][sib]] \in Nat
        BY <1>2, <4>2 DEF Heights
      <4> QED
        BY <1>1, <1>9, <1>l, <4>1, <4>2, <4>3
    <3> QED
      BY <1>5, <1>9, <2>2, <3>2 DEF Weighs
  <2>3. CASE m # p /\ m # sib
    <3>1. Weighs(t, h, m) /\ m \in Nodes
      BY <1>2, <1>s, <2>3, ShapeOfMember
    <3>2. u.red[m] = t.red[m] /\ h2[m] = h[m]
      BY <1>5, <1>9, <2>3, <3>1 DEF Places
    <3>3. \A e \in Dirs : h2[t.kid[e][m]] = h[t.kid[e][m]]
      BY <1>9, <1>11, <1>13, <2>3
    <3> QED
      BY <1>5, <3>1, <3>2, <3>3 DEF Weighs
  <2> QED
    BY <2>1, <2>2, <2>3
<1>14. ASSUME NEW m \in sub[t.root], m # p
       PROVE  Quiet(u, p, m)
  <2>1. CASE m = sib
    <3>1. ASSUME NEW e \in Dirs PROVE ~IsRed(u, t.kid[e][sib])
      <4>1. t.kid[e][sib] \in Places /\ t.kid[e][sib] # sib
        BY <1>1, <1>11
      <4> QED
        BY <1>5, <4>1 DEF IsRed, Places
    <3> QED
      BY <1>5, <2>1, <3>1 DEF Quiet
  <2>2. CASE m # sib
    <3>1. m \in Nodes /\ u.red[m] = t.red[m] /\ Quiet(t, Nil, m)
      BY <1>2, <1>5, <1>s, <2>2, ShapeOfMember
    <3>2. ASSUME t.red[m], NEW e \in Dirs PROVE ~IsRed(u, t.kid[e][m])
      <4>1. t.kid[e][m] \in Places /\ t.kid[e][m] # sib
        BY <1>11, <1>14
      <4>2. ~IsRed(t, t.kid[e][m])
        BY <3>1, <3>2 DEF Quiet, IsRed
      <4> QED
        BY <1>5, <4>1, <4>2 DEF IsRed, Places
    <3> QED
      BY <1>5, <3>1, <3>2 DEF Quiet
  <2> QED
    BY <2>1, <2>2
<1>15. p # u.root => ~IsRed(u, u.root)
  <2>1. t.root \in Nodes
    BY <1>1, <1>s, ShapeOfMember
  <2> QED
    BY <1>1, <1>2, <1>5, <2>1 DEF IsRed
<1>16. p \in Places /\ q \in Places
  BY <1>1, <1>s, <1>q, ShapeOfMember DEF Places
<1>17. Descends(t, sub, p, q)
  BY <1>1, <1>s, <1>q, ShapeOfParent
<1>18. \/ p = u.root /\ \A m \in sub[u.root] : Weighs(u, h2, m)
       \/ /\ \E e, j : Lacks(u, sub, h2, q, p, e, j)
          /\ \A m \in sub[u.root] \ {q} : Weighs(u, h2, m)
  <2>1. CASE q = Nil
    <3>1. p = t.root
      BY <1>17, <2>1 DEF Descends
    <3>2. \A m \in sub[t.root] : m # q
      BY <1>11, <1>d, <2>1, NodesAssumption
    <3> QED
      BY <1>5, <1>13, <3>1, <3>2
  <2>2. CASE q # Nil
    <3>1. q \in sub[t.root] /\ q \in Nodes /\ q # p /\ \A e \in Dirs : t.kid[e][p] # q
      BY <1>17, <2>2 DEF Descends
    <3>2. PICK e \in Dirs : t.kid[e][q] = p
      BY <1>17, <2>2 DEF Descends
    <3>j. PICK j : j = t.kid[Other[e]][q]
      OBVIOUS
    <3>3. Weighs(t, h, q) /\ Other[e] \in Dirs
      BY <1>2, <3>1, OtherFacts
    <3>4. h[j] = h[p]
      <4>1. t.red[q] => h[q] = h[p] /\ h[q] = h[j]
        BY <3>2, <3>3, <3>j DEF Weighs
      <4>2. ~t.red[q] => h[q] = h[p] + 1 /\ h[q] = h[j] + 1
        BY <3>2, <3>3, <3>j DEF Weighs
      <4>3. h[j] \in Nat
        BY <1>2, <1>11, <3>1, <3>3, <3>j DEF Heights
      <4> QED
        BY <1>1, <4>1, <4>2, <4>3
    <3>5. q # sib
      BY <1>3, <3>1, <1>l
    <3>6. j # p /\ j # sib /\ j \in Places
      <4>1. Family(t, key, sub, q, e, p, j)
        BY <1>s, <3>1, <3>2, <3>j, ShapeOfNode
      <4>2. j # p
        BY <1>1, <4>1, NodesAssumption DEF Family
      <4> QED
        BY <1>11, <3>1, <3>3, <3>j, <4>2
    <3>7. h2[j] = h2[p] + 1 /\ h2[q] = h[q] /\ u.red[q] = t.red[q]
      BY <1>1, <1>5, <1>9, <3>1, <3>4, <3>5, <3>6 DEF Places
    <3>8. Lacks(u, sub, h2, q, p, e, j)
      <4>1. t.red[q] => h[q] = h[j]
        BY <3>3, <3>j DEF Weighs
      <4>2. ~t.red[q] => h[q] = h[j] + 1
        BY <3>3, <3>j DEF Weighs
      <4>3. h2[j] = h[j]
        BY <1>9, <3>6
      <4> QED
        BY <1>5, <3>1, <3>2, <3>7, <3>j, <4>1, <4>2, <4>3 DEF Lacks
    <3> QED
      BY <1>5, <1>13, <3>8
  <2> QED
    BY <2>1, <2>2
<1>19. Shrinking(u, key, sub, h2, q, p)
  BY <1>5, <1>6, <1>9, <1>14, <1>15, <1>16, <1>18 DEF Shrinking
<1> QED
  BY <1>1, <1>5, <1>19, <1>u, <1>q DEF Shed

(* A tree that is whole again sheds nothing more. *)
LEMMA WholeSheds ==
  ASSUME NEW t, NEW key, NEW sub, NEW p \in Nodes, NEW u, NEW sub2, NEW h2,
         Coloured(u, key, sub2, h2), sub2[u.root] = sub[t.root]
  PROVE  Shed(t, key, sub, p, u, p, u.root)
<1>1. u.root \in Places
  BY FieldsTyped DEF Coloured, Shape
<1>2. \A m \in sub2[u.root] : Quiet(u, u.root, m)
  BY DEF Coloured, Quiet, IsRed
<1>3. Shrinking(u, key, sub2, h2, p, u.root)
  BY <1>1, <1>2 DEF Coloured, Shrinking, Places
<1> QED
  BY <1>3 DEF Shed

(* In each of the cases with a black sibling a turn ends or moves up ... *)
LEMMA BesideSheds ==
  ASSUME NEW t, NEW key, NEW sub, NEW h, NEW p, NEW n, NEW d, NEW sib,
         Short(t, key, sub, h, p, n, d, sib), ~t.red[sib]
  PROVE  \E u, q, x : RemoveBeside(t, sib, p, d) = <<u, q, x>> /\ Shed(t, key, sub, p, u, q, x)
<1>near. PICK near : near = t.kid[d][sib]
  OBVIOUS
<1>p. p \in Nodes
  BY ShortFacts DEF Siblings
<1>d. d \in Dirs /\ Other[d] \in Dirs /\ Dirs = {d, Other[d]}
  <2>1. d \in Dirs
    BY DEF Short, Lacks
  <2> QED
    BY <2>1, OtherFacts
<1>1. CASE \A e \in Dirs : ~IsRed(t, t.kid[e][sib])
  <2>1. RemoveBeside(t, sib, p, d) = <<Paint(t, sib, TRUE), t.parent[p], p>>
    BY <1>1 DEF RemoveBeside
  <2>2. Shed(t, key, sub, p, Paint(t, sib, TRUE), t.parent[p], p)
    BY <1>1, SiblingReddens
  <2> QED
    BY <2>1, <2>2
<1>2. CASE IsRed(t, t.kid[Other[d]][sib])
  <2>1. RemoveBeside(t, sib, p, d) = Borrow(t, sib, p, d)
    BY <1>2, <1>d DEF RemoveBeside
  <2>2. PICK u, sub2, h2 : /\ Borrow(t, sib, p, d) = <<u, p, u.root>>
                           /\ Coloured(u, key, sub2, h2) /\ sub2[u.root] = sub[t.root]
    BY <1>2, BorrowRestores
  <2>3. Shed(t, key, sub, p, u, p, u.root)
    BY <1>p, <2>2, WholeSheds
  <2> QED
    BY <2>1, <2>2, <2>3
<1>3. CASE IsRed(t, near) /\ ~IsRed(t, t.kid[Other[d]][sib])
  <2>v. PICK v : v = Rotate(SetBlackRed(t, near, sib), sib, Other[d])
    OBVIOUS
  <2>1. RemoveBeside(t, sib, p, d) = Borrow(v, near, p, d)
    BY <1>3, <1>d, <1>near, <2>v DEF RemoveBeside
  <2>2. PICK sub1, h1 : /\ Short(v, key, sub1, h1, p, n, d, near)
                        /\ sub1[v.root] = sub[t.root] /\ ~v.red[near]
                        /\ IsRed(v, v.kid[Other[d]][near])
    BY <1>3, <1>near, <2>v, NearRises
  <2>3. PICK u, sub2, h2 : /\ Borrow(v, near, p, d) = <<u, p, u.root>>
                           /\ Coloured(u, key, sub2, h2) /\ sub2[u.root] = sub1[v.root]
    BY <2>2, BorrowRestores
  <2>4. Shed(t, key, sub, p, u, p, u.root)
    BY <1>p, <2>2, <2>3, WholeSheds
  <2> QED
    BY <2>1, <2>3, <2>4
<1> QED
  BY <1>1, <1>2, <1>3, <1>d, <1>near

(* ... and also with a red one, which is rotated away first. *)
LEMMA BelowSheds ==
  ASSUME NEW t, NEW key, NEW sub, NEW h, NEW p, NEW n, NEW d, NEW sib,
         Short(t, key, sub, h, p, n, d, sib)
  PROVE  \E u, q, x, sub2, h2 : /\ RemoveBelow(t, p, d) = <<u, q, x>>
                                /\ Shrinking(u, key, sub2, h2, q, x) /\ sub2[u.root] = sub[t.root]
                                /\ (x = p /\ sub2 = sub) \/ x = u.root \/ IsRed(u, x)
<1>0. sib = t.kid[Other[d]][p]
  BY DEF Short, Lacks
<1>1. CASE ~t.red[sib]
  <2>1. RemoveBelow(t, p, d) = RemoveBeside(t, sib, p, d)
    BY <1>0, <1>1 DEF RemoveBelow
  <2>2. PICK u, q, x : RemoveBeside(t, sib, p, d) = <<u, q, x>> /\ Shed(t, key, sub, p, u, q, x)
    BY <1>1, BesideSheds
  <2> QED
    BY <2>1, <2>2 DEF Shed
<1>2. CASE t.red[sib]
  <2>v. PICK v : v = Rotate(SetBlackRed(t, sib, p), p, d)
    OBVIOUS
  <2>m. PICK mid : mid = t.kid[d][sib]
    OBVIOUS
  <2>1. RemoveBelow(t, p, d) = RemoveBeside(v, mid, p, d)
    BY <1>0, <1>2, <2>v, <2>m DEF RemoveBelow
  <2>2. PICK sub1, h1 : /\ Short(v, key, sub1, h1, p, n, d, mid)
                        /\ sub1[v.root] = sub[t.root] /\ v.red[p] /\ ~v.red[mid]
    BY <1>2, <2>v, <2>m, SiblingSinks
  <2>3. PICK u, q, x : RemoveBeside(v, mid, p, d) = <<u, q, x>> /\ Shed(v, key, sub1, p, u, q, x)
    BY <2>2, BesideSheds
  <2>4. PICK sub2, h2 : /\ Shrinking(u, key, sub2, h2, q, x) /\ sub2[u.root] = sub1[v.root]
                        /\ (x = p /\ sub2 = sub1 /\ u.red[p] = v.red[p]) \/ x = u.root
    BY <2>3 DEF Shed
  <2>5. p # Nil
    BY <2>2, ShortFacts, NodesAssumption DEF Siblings
  <2>6. x = u.root \/ IsRed(u, x)
    BY <2>2, <2>4, <2>5 DEF IsRed
  <2> QED
    BY <2>1, <2>2, <2>3, <2>4, <2>6
<1> QED
  BY <1>1, <1>2

-----------------------------------------------------------------------------
Lacking(t, n) == ~IsRed(t, n) /\ n # t.root

ShortAt(key, U, A, s) ==
    \E sub, h : /\ Shrinking(s[1], key, sub, h, s[2], s[3]) /\ sub[s[1].root] = U
                /\ Lacking(s[1], s[3]) => Nodes \ sub[s[3]] \subseteq A

RemoveTurn(s) == RemoveBelow(s[1], s[2], Side(s[1], s[2], s[3]))

(* A turn of the loop keeps what LoopRule wants, with less that is above n. *)
LEMMA RemoveTurns ==
  ASSUME NEW key, NEW U, NEW A \in SUBSET Nodes, NEW s \in Trees \X Places \X Places,
         ShortAt(key, U, A, s), Lacking(s[1], s[3])
  PROVE  \E B \in SUBSET A : /\ B # A /\ RemoveTurn(s) \in Trees \X Places \X Places
                             /\ ShortAt(key, U, B, RemoveTurn(s))
<1>t. PICK t : t = s[1]
  OBVIOUS
<1>p. PICK p : p = s[2]
  OBVIOUS
<1>n. PICK n : n = s[3]
  OBVIOUS
<1>1. PICK sub, h : /\ Shrinking(t, key, sub, h, p, n) /\ sub[t.root] = U
                    /\ Nodes \ sub[n] \subseteq A
  BY <1>t, <1>p, <1>n DEF ShortAt
<1>2. PICK d, sib : Short(t, key, sub, h, p, n, d, sib) /\ d = Side(t, p, n)
  BY <1>1, <1>t, <1>n, ShrinkingIsShort DEF Lacking
<1>3. PICK u, q, x, sub2, h2 :
         /\ RemoveBelow(t, p, d) = <<u, q, x>>
         /\ Shrinking(u, key, sub2, h2, q, x) /\ sub2[u.root] = sub[t.root]
         /\ (x = p /\ sub2 = sub) \/ x = u.root \/ IsRed(u, x)
  BY <1>2, BelowSheds
<1>r. PICK r : r = <<u, q, x>>
  OBVIOUS
<1>4. RemoveTurn(s) = r
  BY <1>2, <1>3, <1>r, <1>t, <1>p, <1>n DEF RemoveTurn
<1>5. r \in Trees \X Places \X Places /\ r[1] = u /\ r[2] = q /\ r[3] = x
  BY <1>3, <1>r DEF Shrinking, Shape
<1>6. p \in Nodes /\ p \notin sub[n] /\ sub[n] \subseteq sub[p] /\ p \in sub[p]
  <2>1. Siblings(t, sub, h, p, n, sib) /\ Shape(t, key, sub)
    BY <1>2, ShortFacts DEF Short
  <2>2. p \in Nodes /\ p \in sub[t.root] /\ (n # Nil => n \in sub[t.root] /\ t.parent[n] = p)
    BY <2>1 DEF Siblings
  <2>3. CASE n = Nil
    BY <2>1, <2>2, <2>3, ShapeOfMember DEF Shape
  <2>4. CASE n # Nil
    <3>1. Descends(t, sub, n, p)
      BY <2>1, <2>2, <2>4, ShapeOfParent
    <3> QED
      BY <2>1, <2>2, <3>1, ShapeOfMember, NodesAssumption DEF Descends
  <2> QED
    BY <2>3, <2>4
<1>7. CASE ~Lacking(u, x)
  <2>1. ShortAt(key, U, {}, r)
    BY <1>1, <1>3, <1>5, <1>7 DEF ShortAt
  <2> QED
    BY <1>1, <1>4, <1>5, <1>6, <2>1
<1>8. CASE Lacking(u, x)
  <2>1. x = p /\ sub2 = sub
    BY <1>3, <1>8 DEF Lacking
  <2>2. PICK B : B = Nodes \ sub[x]
    OBVIOUS
  <2>3. B \in SUBSET A /\ B # A
    BY <1>1, <1>6, <2>1, <2>2
  <2>4. ShortAt(key, U, B, r)
    BY <1>1, <1>3, <1>5, <2>1, <2>2 DEF ShortAt
  <2> QED
    BY <1>4, <1>5, <2>3, <2>4
<1> QED
  BY <1>7, <1>8

(* The end: n, or nothing, is painted black. *)
LEMMA ShrunkIsSound ==
  ASSUME NEW t, NEW key, NEW sub, NEW h, NEW p, NEW n,
         Shrinking(t, key, sub, h, p, n), ~Lacking(t, n)
  PROVE  Sound(Paint(t, n, FALSE), key, sub[t.root])
<1>u. PICK u : u = Paint(t, n, FALSE)
  OBVIOUS
<1>s. Shape(t, key, sub)
  BY DEF Shrinking
<1>1. /\ Heights(h) /\ n \in Places /\ t \in Trees
      /\ \A m \in sub[t.root] \ {n} : Quiet(t, n, m)
      /\ n # t.root => ~IsRed(t, t.root)
  BY DEF Shrinking, Shape
<1>2. Painted(t, u, n, FALSE)
  BY <1>1, <1>u, PaintFields
<1>3. /\ u \in Trees /\ u.root = t.root /\ u.kid = t.kid /\ u.parent = t.parent
      /\ n \in Nodes => ~u.red[n]
      /\ \A m \in Nodes \ {n} : u.red[m] = t.red[m]
  BY <1>2 DEF Painted
<1>4. Shape(u, key, sub)
  BY <1>s, <1>3, ShapeOfPainted
<1>5. ~IsRed(u, n)
  BY <1>1, <1>3 DEF IsRed, Places
<1>6. ~IsRed(u, u.root)
  <2>1. CASE n = t.root
    BY <1>3, <1>5, <2>1
  <2>2. CASE n # t.root
    <3>1. t.root \in Places
      BY <1>1, FieldsTyped
    <3> QED
      BY <1>1, <1>3, <2>2, <3>1 DEF IsRed, Places
  <2> QED
    BY <2>1, <2>2
<1>7. ASSUME NEW m \in sub[t.root] PROVE Quiet(u, Nil, m)
  <2>1. CASE m = n
    BY <1>s, <1>3, <2>1, ShapeOfMember DEF Quiet
  <2>2. CASE m # n
    <3>1. m \in Nodes /\ u.red[m] = t.red[m] /\ Quiet(t, n, m)
      BY <1>s, <1>1, <1>3, <2>2, ShapeOfMember
    <3>2. ASSUME t.red[m], NEW e \in Dirs PROVE ~IsRed(u, t.kid[e][m])
      <4>1. CASE t.kid[e][m] = n
        BY <1>5, <4>1
      <4>2. CASE t.kid[e][m] # n
        <5>1. ~IsRed(t, t.kid[e][m]) /\ t.kid[e][m] \in Places
          BY <1>1, <3>1, <3>2, <4>2, FieldsTyped DEF Quiet
        <5> QED
          BY <1>3, <4>2, <5>1 DEF IsRed, Places
      <4> QED
        BY <4>1, <4>2
    <3> QED
      BY <1>3, <3>1, <3>2 DEF Quiet
  <2> QED
    BY <2>1, <2>2
<1>8. \E h2 : Heights(h2) /\ \A m \in sub[t.root] : Weighs(u, h2, m)
  <2>1. CASE ~IsRed(t, n)
    <3>1. n = t.root /\ \A m \in sub[t.root] : Weighs(t, h, m)
      <4>1. n = t.root
        BY <2>1 DEF Lacking
      <4>2. ASSUME NEW d, NEW sib PROVE ~Lacks(t, sub, h, p, n, d, sib)
        <5> SUFFICES ASSUME d \in Dirs, p \in sub[t.root], t.kid[d][p] = n PROVE FALSE
          BY DEF Lacks
        <5>1. t.root \in Nodes
          BY <1>s, ShapeOfMember
        <5> QED
          BY <1>s, <4>1, <5>1, ShapeOfKid, NodesAssumption
      <4> QED
        BY <4>1, <4>2 DEF Shrinking
    <3>2. ASSUME NEW m \in sub[t.root] PROVE u.red[m] <=> t.red[m]
      <4>1. m \in Nodes
        BY <1>s, ShapeOfMember
      <4> QED
        BY <1>1, <1>3, <2>1, <4>1, NodesAssumption DEF IsRed
    <3>3. \A m \in sub[t.root] : Weighs(u, h, m)
      BY <1>3, <3>1, <3>2 DEF Weighs
    <3> QED
      BY <1>1, <3>3
  <2>2. CASE IsRed(t, n)
    <3>1. n \in Nodes /\ n # Nil /\ t.red[n]
      BY <1>1, <2>2 DEF IsRed, Places
    <3>2. PICK h2 : Heights(h2) /\ h2[n] = h[n] + 1 /\ \A m \in Places \ {n} : h2[m] = h[m]
      <4> WITNESS [h EXCEPT ![n] = h[n] + 1]
      <4> QED
        BY <1>1, <3>1 DEF Heights, Places
    <3>3. ASSUME NEW m \in sub[t.root], NEW e \in Dirs
          PROVE  /\ m \in Nodes /\ t.kid[e][m] \in Places
                 /\ t.kid[e][m] # Nil => t.parent[t.kid[e][m]] = m /\ t.kid[e][m] # t.root
      BY <1>s, ShapeOfKid, ShapeOfMember
    <3>4. CASE n = t.root /\ \A m \in sub[t.root] : Weighs(t, h, m)
      <4>1. ASSUME NEW m \in sub[t.root] PROVE Weighs(u, h2, m)
        <5>1. \A e \in Dirs : h2[t.kid[e][m]] = h[t.kid[e][m]]
          BY <3>1, <3>2, <3>3, <3>4
        <5>2. m \in Nodes /\ Weighs(t, h, m)
          BY <1>s, <3>4, ShapeOfMember
        <5>3. CASE m = n
          BY <1>3, <3>1, <3>2, <5>1, <5>2, <5>3 DEF Weighs
        <5>4. CASE m # n
          <6>1. u.red[m] = t.red[m] /\ h2[m] = h[m]
            BY <1>3, <3>2, <5>2, <5>4 DEF Places
          <6> QED
            BY <1>3, <5>1, <5>2, <6>1 DEF Weighs
        <5> QED
          BY <5>3, <5>4
      <4> QED
        BY <3>2, <4>1
    <3>5. ASSUME \E d, sib : Lacks(t, sub, h, p, n, d, sib),
                 \A m \in sub[t.root] \ {p} : Weighs(t, h, m)
          PROVE  \A m \in sub[t.root] : Weighs(u, h2, m)
      <4>1. PICK d, sib : Lacks(t, sub, h, p, n, d, sib)
        BY <3>5
      <4>2. /\ d \in Dirs /\ p \in sub[t.root] /\ t.kid[d][p] = n /\ t.kid[Other[d]][p] = sib
            /\ h[sib] = h[n] + 1
            /\ t.red[p] => h[p] = h[sib]
            /\ ~t.red[p] => h[p] = h[sib] + 1
        BY <4>1 DEF Lacks
      <4>d. d \in Dirs
        BY <4>2
      <4>3. Family(t, key, sub, p, d, n, sib)
        BY <1>s, <4>2, ShapeOfNode
      <4>4. p \in Nodes /\ n # p /\ n # sib /\ t.parent[n] = p
        BY <3>1, <4>3 DEF Family
      <4>5. sib \in Places
        BY <3>3, <4>2, OtherFacts
      <4>6. \A e \in Dirs : t.kid[e][p] = n \/ t.kid[e][p] = sib
        BY <4>2, OtherFacts
      <4>7. h2[sib] = h[sib] /\ h2[n] = h[sib] /\ h2[p] = h[p] /\ u.red[p] = t.red[p]
        BY <1>3, <3>2, <4>2, <4>4, <4>5 DEF Places
      <4>8. Weighs(u, h2, p)
        BY <1>3, <4>2, <4>6, <4>7 DEF Weighs
      <4>9. ASSUME NEW m \in sub[t.root], m # p PROVE Weighs(u, h2, m)
        <5>1. \A e \in Dirs : h2[t.kid[e][m]] = h[t.kid[e][m]]
          BY <3>1, <3>2, <3>3, <4>4, <4>9
        <5>2. m \in Nodes /\ Weighs(t, h, m)
          BY <1>s, <3>5, <4>9, ShapeOfMember
        <5>3. CASE m = n
          BY <1>3, <3>1, <3>2, <5>1, <5>2, <5>3 DEF Weighs
        <5>4. CASE m # n
          <6>1. u.red[m] = t.red[m] /\ h2[m] = h[m]
            BY <1>3, <3>2, <5>2, <5>4 DEF Places
          <6> QED
            BY <1>3, <5>1, <5>2, <6>1 DEF Weighs
        <5> QED
          BY <5>3, <5>4
      <4> QED
        BY <4>8, <4>9
    <3> QED
      BY <3>2, <3>4, <3>5 DEF Shrinking
  <2> QED
    BY <2>1, <2>2
<1>9. PICK h2 : Heights(h2) /\ \A m \in sub[t.root] : Weighs(u, h2, m)
  BY <1>8
<1>10. Coloured(u, key, sub, h2)
  BY <1>3, <1>4, <1>6, <1>7, <1>9 DEF Coloured
<1> QED
  BY <1>3, <1>10, <1>u DEF Sound

(* RB_REMOVE_COLOR makes a red-black tree of one that lacks a black node below n. *)
LEMMA RemoveColorColours ==
  ASSUME NEW t, NEW key, NEW sub, NEW h, NEW p, NEW n, Shrinking(t, key, sub, h, p, n)
  PROVE  Sound(RemoveColor(t, p, n), key, sub[t.root])
<1>U. PICK U : U = sub[t.root]
  OBVIOUS
<1>S. PICK S : S = Trees \X Places \X Places
  OBVIOUS
<1>go. PICK go : go = {s \in S : ~IsRed(s[1], s[3]) /\ s[3] # s[1].root}
  OBVIOUS
<1>turn. PICK turn : turn = [s \in S |-> RemoveBelow(s[1], s[2], Side(s[1], s[2], s[3]))]
  OBVIOUS
<1>I. PICK I : I = [A \in SUBSET Nodes |-> {s \in S : ShortAt(key, U, A, s)}]
  OBVIOUS
<1>1. I \in [SUBSET Nodes -> SUBSET S]
  BY <1>I
<1>2. \A A \in SUBSET Nodes : \A s \in I[A] \cap go : \E B \in SUBSET A : B # A /\ turn[s] \in I[B]
  <2> SUFFICES ASSUME NEW A \in SUBSET Nodes, NEW s \in I[A] \cap go
               PROVE  \E B \in SUBSET A : B # A /\ turn[s] \in I[B]
    OBVIOUS
  <2>1. s \in S /\ ShortAt(key, U, A, s) /\ Lacking(s[1], s[3])
    BY <1>I, <1>go DEF Lacking
  <2>2. PICK B \in SUBSET A : B # A /\ RemoveTurn(s) \in S /\ ShortAt(key, U, B, RemoveTurn(s))
    BY <1>S, <2>1, RemoveTurns
  <2>3. turn[s] = RemoveTurn(s)
    BY <1>turn, <2>1 DEF RemoveTurn
  <2> QED
    BY <1>I, <2>2, <2>3
<1>x. PICK x : x = <<t, p, n>>
  OBVIOUS
<1>3. x \in I[Nodes] /\ Nodes \in SUBSET Nodes
  <2>1. x \in S /\ x[1] = t /\ x[2] = p /\ x[3] = n
    BY <1>x, <1>S DEF Shrinking, Shape
  <2>2. ShortAt(key, U, Nodes, x)
    BY <2>1, <1>U DEF ShortAt
  <2> QED
    BY <1>I, <2>1, <2>2
<1>4. \E B \in SUBSET Nodes : While(S, go, turn, x) \in I[B] \ go
  BY <1>1, <1>2, <1>3, LoopRule
<1>y. PICK y : y = While(S, go, turn, x)
  OBVIOUS
<1>5. PICK B \in SUBSET Nodes : y \in I[B] \ go
  BY <1>4, <1>y
<1>6. ShortAt(key, U, B, y) /\ ~Lacking(y[1], y[3])
  BY <1>I, <1>go, <1>5 DEF Lacking
<1>v. PICK v : v = y[1]
  OBVIOUS
<1>m. PICK m : m = y[3]
  OBVIOUS
<1>7. PICK sub2, h2 : Shrinking(v, key, sub2, h2, y[2], m) /\ sub2[v.root] = U
  BY <1>6, <1>v, <1>m DEF ShortAt
<1>8. Sound(Paint(v, m, FALSE), key, U)
  BY <1>6, <1>7, <1>v, <1>m, ShrunkIsSound
<1>9. RemoveColor(t, p, n) = Paint(v, m, FALSE)
  BY <1>v, <1>m, <1>y, <1>x, <1>go, <1>turn, <1>S DEF RemoveColor, Places
<1> QED
  BY <1>8, <1>9, <1>U

-----------------------------------------------------------------------------
(* What holds of a node when it holds of its children holds of all of them. *)
LEMMA TreeInduction ==
  ASSUME NEW t, NEW key, NEW sub, Shape(t, key, sub), NEW P,
         \A c \in sub[t.root] : (\A d \in Dirs : t.kid[d][c] # Nil => t.kid[d][c] \in P) => c \in P
  PROVE  sub[t.root] \subseteq P
<1> DEFINE F == {A \in SUBSET Nodes : \E c \in sub[t.root] : A = sub[c] /\ c \notin P}
<1>1. SUFFICES ASSUME NEW n \in sub[t.root], n \notin P PROVE FALSE
  OBVIOUS
<1>2. F \subseteq SUBSET Nodes /\ F # {}
  BY <1>1, ShapeOfMember
<1>3. PICK B \in F : \A C \in F : C \subseteq B => C = B
  <2> HIDE DEF F
  <2> QED
    BY <1>2, LeastSet
<1>4. PICK b \in sub[t.root] : sub[b] = B /\ b \notin P
  OBVIOUS
<1>5. PICK d \in Dirs : t.kid[d][b] # Nil /\ t.kid[d][b] \notin P
  BY <1>4
<1>k. PICK k : k = t.kid[d][b]
  OBVIOUS
<1>6. Family(t, key, sub, b, d, k, t.kid[Other[d]][b])
  BY <1>k, ShapeOfNode
<1>7. k \in sub[t.root] /\ sub[k] \subseteq sub[b] /\ b \in sub[b] /\ b \notin sub[k]
  BY <1>5, <1>6, <1>k DEF Family
<1>8. sub[k] \in F
  <2>1. sub[k] \in SUBSET Nodes
    BY <1>7, ShapeOfMember
  <2> QED
    BY <1>5, <1>7, <1>k, <2>1
<1> QED
  BY <1>3, <1>4, <1>7, <1>8

(* Below what is below a node is below the node. *)
LEMMA BelowBelow ==
  ASSUME NEW t, NEW key, NEW sub, Shape(t, key, sub), NEW c \in sub[t.root], NEW b \in sub[c]
  PROVE  sub[b] \subseteq sub[c]
<1> DEFINE P == {a \in Nodes : \A i \in sub[a] : sub[i] \subseteq sub[a]}
<1>1. ASSUME NEW a \in sub[t.root], \A d \in Dirs : t.kid[d][a] # Nil => t.kid[d][a] \in P
      PROVE  a \in P
  <2>1. a \in Nodes
    BY ShapeOfMember
  <2>2. SUFFICES ASSUME NEW i \in sub[a], i # a PROVE sub[i] \subseteq sub[a]
    BY <2>1
  <2>3. PICK d \in Dirs : i \in sub[t.kid[d][a]]
    BY <2>2 DEF Shape, NodeOK, Dirs
  <2>k. PICK k : k = t.kid[d][a]
    OBVIOUS
  <2>4. k # Nil
    BY <2>3, <2>k DEF Shape
  <2>5. sub[i] \subseteq sub[k]
    BY <1>1, <2>3, <2>4, <2>k
  <2>6. sub[k] \subseteq sub[a]
    BY <2>k, ShapeOfNode DEF Family
  <2> QED
    BY <2>5, <2>6
<1> HIDE DEF P
<1>2. sub[t.root] \subseteq P
  BY <1>1, TreeInduction
<1> USE DEF P
<1> QED
  BY <1>2

(* The last node on a side: it comes before or after all the others. *)
Extreme(key, A, m, d) == m \in A /\ \A x \in A \ {m} : Off(Other[d], key[x], key[m])

(* The loops to the left end and to the right end below c find the extreme there. *)
LEMMA OutermostFacts ==
  ASSUME NEW t, NEW key, NEW sub, Shape(t, key, sub), NEW c \in sub[t.root], NEW d \in Dirs
  PROVE  Extreme(key, sub[c], Outermost(t, c, d), d) /\ t.kid[d][Outermost(t, c, d)] = Nil
<1>o. PICK o : o = Other[d]
  OBVIOUS
<1>go. PICK go : go = {m \in Nodes : t.kid[d][m] # Nil}
  OBVIOUS
<1>turn. PICK turn : turn = t.kid[d]
  OBVIOUS
<1>J. PICK J : J = {m \in Nodes : m \in sub[c] /\ \A x \in sub[c] \ sub[m] : Off(o, key[x], key[m])}
  OBVIOUS
<1>rank. PICK rank : rank = [m \in Nodes |-> sub[m]]
  OBVIOUS
<1>1. sub[c] \subseteq Nodes /\ c \in sub[c] /\ c \in Nodes /\ sub[c] \subseteq sub[t.root]
  BY ShapeOfMember
<1>2. rank \in [Nodes -> SUBSET Nodes]
  BY <1>rank DEF Shape, Places
<1>3. o \in Dirs /\ Other[o] = d
  BY <1>o, OtherFacts
<1>4. \A i \in Nodes : key[i] \in Int
  BY DEF Shape, Keys
<1>5. ASSUME NEW m \in Nodes, m \in sub[c], \A x \in sub[c] \ sub[m] : Off(o, key[x], key[m]),
             NEW k, k = t.kid[d][m]
      PROVE  /\ k # Nil => /\ k \in Nodes /\ k \in sub[c]
                           /\ \A x \in sub[c] \ sub[k] : Off(o, key[x], key[k])
                           /\ sub[k] \subseteq sub[m] /\ sub[k] # sub[m]
             /\ k = Nil => \A x \in sub[c] \ {m} : Off(o, key[x], key[m])
  <2>1. m \in sub[t.root] /\ sub[Nil] = {}
    BY <1>1, <1>5 DEF Shape
  <2>2. Family(t, key, sub, m, d, k, t.kid[o][m])
    BY <1>5, <1>o, <2>1, ShapeOfNode
  <2>3. Family(t, key, sub, m, o, t.kid[o][m], k)
    BY <1>5, <1>3, <2>1, ShapeOfNode
  <2>4. \A x \in sub[m] \ {m} : x \in sub[k] \/ Off(o, key[x], key[m])
    BY <2>2, <2>3 DEF Family
  <2>5. CASE k = Nil
    BY <1>5, <2>1, <2>4, <2>5
  <2>6. CASE k # Nil
    <3>1. k \in Nodes /\ k \in sub[t.root] /\ sub[k] \subseteq sub[m] /\ m \in sub[m] /\ m \notin sub[k]
      BY <2>2, <2>6 DEF Family
    <3>2. k \in sub[k]
      BY <3>1, ShapeOfMember
    <3>3. k \in sub[c]
      BY <1>5, <3>1, <3>2, BelowBelow
    <3>4. Off(o, key[m], key[k])
      <4>1. Off(d, key[k], key[m])
        BY <2>2, <3>2 DEF Family
      <4> QED
        BY <1>4, <1>o, <3>1, <4>1, OffFacts
    <3>5. ASSUME NEW x \in sub[c] \ sub[k] PROVE Off(o, key[x], key[k])
      <4>1. x = m \/ Off(o, key[x], key[m])
        BY <1>5, <2>4, <3>5
      <4>2. key[x] \in Int /\ key[m] \in Int /\ key[k] \in Int
        BY <1>1, <1>4, <3>1
      <4> QED
        BY <1>3, <3>4, <4>1, <4>2, OffFacts
    <3> QED
      BY <2>6, <3>1, <3>3, <3>5
  <2> QED
    BY <2>5, <2>6
<1>6. \A m \in J \cap go : turn[m] \in J /\ rank[turn[m]] \subseteq rank[m] /\ rank[turn[m]] # rank[m]
  <2> SUFFICES ASSUME NEW m \in J \cap go
               PROVE  turn[m] \in J /\ rank[turn[m]] \subseteq rank[m] /\ rank[turn[m]] # rank[m]
    OBVIOUS
  <2>k. PICK k : k = t.kid[d][m]
    OBVIOUS
  <2>1. /\ m \in Nodes /\ m \in sub[c] /\ \A x \in sub[c] \ sub[m] : Off(o, key[x], key[m])
        /\ k # Nil /\ turn[m] = k
    BY <1>J, <1>go, <1>turn, <2>k
  <2>2. /\ k \in Nodes /\ k \in sub[c] /\ \A x \in sub[c] \ sub[k] : Off(o, key[x], key[k])
        /\ sub[k] \subseteq sub[m] /\ sub[k] # sub[m]
    BY <1>5, <2>1, <2>k
  <2> QED
    BY <1>J, <1>rank, <2>1, <2>2
<1>7. c \in J
  BY <1>1, <1>J
<1>8. While(Nodes, go, turn, c) \in J \ go
  <2>1. J \subseteq Nodes
    BY <1>J
  <2> QED
    BY <1>2, <1>6, <1>7, <2>1, SimpleLoopRule
<1>m. PICK m : m = Outermost(t, c, d)
  OBVIOUS
<1>9. m \in J \ go
  BY <1>8, <1>go, <1>turn, <1>m DEF Outermost
<1>10. /\ m \in Nodes /\ m \in sub[c] /\ \A x \in sub[c] \ sub[m] : Off(o, key[x], key[m])
       /\ t.kid[d][m] = Nil
  BY <1>9, <1>J, <1>go
<1>11. \A x \in sub[c] \ {m} : Off(o, key[x], key[m])
  BY <1>5, <1>10
<1>12. Extreme(key, sub[c], m, d)
  BY <1>10, <1>11, <1>o DEF Extreme
<1> QED
  BY <1>10, <1>12, <1>m
-----------------------------------------------------------------------------
(* u is t without n, whose one child takes its place below p, on side d. *)
Spliced(t, u, n, p, child, d) ==
    /\ u \in Trees /\ u.red = t.red
    /\ child # Nil => u.parent[child] = p
    /\ \A m \in Nodes \ {child} : u.parent[m] = t.parent[m]
    /\ p = Nil => u.root = child /\ u.kid = t.kid
    /\ p # Nil => u.root = t.root /\ u.kid[d][p] = child
    /\ \A e \in Dirs, m \in Nodes : e # d \/ m # p => u.kid[e][m] = t.kid[e][m]

(* n has but the child on side e, if any. *)
Single(t, n, e, child, p) ==
    /\ e \in Dirs /\ t.kid[Other[e]][n] = Nil /\ t.kid[e][n] = child /\ t.parent[n] = p

(* n is the child of p on side d, and only there, unless n is the root. *)
ChildOf(t, p, d, n) == p # Nil => d \in Dirs /\ t.kid[d][p] = n /\ t.kid[Other[d]][p] # n

SpliceOut(t, n, p, child) == Relink(SetParent(t, child, p), p, n, child)

(* The writes that take out a node with at most one child *)
LEMMA SpliceSplices ==
  ASSUME NEW t, NEW key, NEW sub, Shape(t, key, sub), NEW n \in sub[t.root],
         NEW e, NEW child, NEW p, Single(t, n, e, child, p)
  PROVE  \E d : /\ ChildOf(t, p, d, n)
                /\ Spliced(t, SpliceOut(t, n, p, child), n, p, child, d)
<1>0. t.kid[e][n] = child /\ t.parent[n] = p /\ e \in Dirs
  BY DEF Single
<1>1. t \in Trees /\ child \in Places /\ p \in Places /\ n \in Places
  BY <1>0, ShapeOfKid, ShapeOfMember DEF Shape, Places
<1>2. Descends(t, sub, n, p)
  BY <1>0, ShapeOfParent
<1>3. PICK d : p # Nil => d \in Dirs /\ t.kid[d][p] = n /\ t.kid[Other[d]][p] # n /\ Side(t, p, n) = d
  BY <1>2 DEF Descends
<1>a. PICK a : a = SetParent(t, child, p)
  OBVIOUS
<1>u. PICK u : u = Relink(a, p, n, child)
  OBVIOUS
<1>4. ParentSet(t, a, child, p)
  BY <1>1, <1>a, SetParentFields
<1>5. p # Nil => d \in Dirs /\ Side(a, p, n) = d
  BY <1>3, <1>4 DEF ParentSet, Side
<1>6. Relinked(a, u, p, d, child)
  <2>1. a \in Trees
    BY <1>4 DEF ParentSet
  <2> QED
    BY <1>1, <1>5, <1>u, <2>1, RelinkFields
<1>7. Spliced(t, u, n, p, child, d)
  <2>1. u \in Trees /\ u.red = t.red /\ u.parent = a.parent /\ a.kid = t.kid /\ a.root = t.root
    BY <1>4, <1>6 DEF ParentSet, Relinked
  <2>2. /\ child # Nil => a.parent[child] = p
        /\ \A m \in Nodes \ {child} : a.parent[m] = t.parent[m]
    BY <1>1, <1>4 DEF ParentSet, Places
  <2>3. /\ p = Nil => u.root = child /\ u.kid = a.kid
        /\ p # Nil => u.root = a.root /\ u.kid[d][p] = child
        /\ \A f \in Dirs, m \in Nodes : f # d \/ m # p => u.kid[f][m] = a.kid[f][m]
    BY <1>6 DEF Relinked
  <2> QED
    BY <2>1, <2>2, <2>3 DEF Spliced
<1> QED
  BY <1>3, <1>7, <1>a, <1>u DEF SpliceOut, ChildOf

(* The sets without n *)
Without(sub, sub2, n) == /\ sub2 \in [Places -> SUBSET Nodes]
                         /\ \A m \in Places : sub2[m] = sub[m] \ {n}

(* They keep links that agree and the order, without the node. *)
LEMMA ShapeOfSpliced ==
  ASSUME NEW t, NEW key, NEW sub, Shape(t, key, sub), NEW n \in sub[t.root],
         NEW e, NEW child, NEW p, Single(t, n, e, child, p),
         NEW d, ChildOf(t, p, d, n),
         NEW u, Spliced(t, u, n, p, child, d), NEW sub2, Without(sub, sub2, n)
  PROVE  Shape(u, key, sub2) /\ sub2[u.root] = sub[t.root] \ {n}
<1> USE DEF ChildOf
<1>0. e \in Dirs /\ t.kid[Other[e]][n] = Nil /\ t.kid[e][n] = child /\ t.parent[n] = p
  BY DEF Single
<1>e. e \in Dirs
  BY <1>0
<1>f. Other[e] \in Dirs /\ Dirs = {e, Other[e]} /\ Dirs = {"left", "right"}
  BY <1>e, OtherFacts
<1>1. /\ key \in Keys /\ sub \in [Places -> SUBSET Nodes] /\ sub[Nil] = {}
      /\ n \in Nodes /\ t.root \in Nodes /\ sub[t.root] \subseteq Nodes /\ t.root \in sub[t.root]
      /\ t.parent[t.root] = Nil
  BY ShapeOfMember, NodesAssumption DEF Shape
<1>2. Family(t, key, sub, n, e, child, Nil)
  BY <1>0, ShapeOfNode
<1>3. /\ child \in Places /\ sub[n] = {n} \cup sub[child] /\ n \notin sub[child] /\ n # child
      /\ child # Nil => /\ child \in sub[t.root] /\ child \in Nodes /\ t.parent[child] = n
                        /\ child # t.root
      /\ sub[child] \subseteq sub[t.root]
  BY <1>1, <1>2 DEF Family
<1>4. Descends(t, sub, n, p)
  BY <1>0, ShapeOfParent
<1>5. /\ p = Nil <=> n = t.root
      /\ p # Nil => p \in sub[t.root] /\ p \in Nodes /\ p # n /\ p # child /\ p \notin sub[n]
  BY <1>0, <1>4 DEF Descends
<1>6. /\ u \in Trees
      /\ child # Nil => u.parent[child] = p
      /\ \A m \in Nodes \ {child} : u.parent[m] = t.parent[m]
      /\ p = Nil => u.root = child /\ u.kid = t.kid
      /\ p # Nil => u.root = t.root /\ u.kid[d][p] = child
  BY DEF Spliced
<1>7. \A f \in Dirs, m \in Nodes : f # d \/ m # p => u.kid[f][m] = t.kid[f][m]
  BY DEF Spliced
<1>8. sub2 \in [Places -> SUBSET Nodes] /\ \A m \in Places : sub2[m] = sub[m] \ {n}
  BY DEF Without
<1>9. sub2[u.root] = sub[t.root] \ {n}
  <2>1. CASE p = Nil
    <3>1. sub2[child] = sub[child] \ {n} /\ sub[t.root] = {n} \cup sub[child]
      BY <1>3, <1>5, <1>8, <2>1
    <3> QED
      BY <1>3, <1>6, <2>1, <3>1
  <2>2. CASE p # Nil
    BY <1>1, <1>6, <1>8, <2>2 DEF Places
  <2> QED
    BY <2>1, <2>2
<1>10. ASSUME NEW m \in sub[t.root], m # n, NEW f \in Dirs
       PROVE  /\ m \in Nodes /\ SlotOK(u, key, sub2, m, f)
              /\ sub2[u.kid[f][m]] = sub[t.kid[f][m]] \ {n}
  <2>k. PICK k : k = t.kid[f][m]
    OBVIOUS
  <2>1. /\ m \in Nodes /\ k \in Places
        /\ k # Nil => k \in sub[t.root] /\ k \in Nodes /\ t.parent[k] = m
        /\ \A i \in sub[k] : Off(f, key[i], key[m])
    <3>1. Family(t, key, sub, m, f, k, t.kid[Other[f]][m])
      BY <2>k, ShapeOfNode
    <3> QED
      BY <3>1 DEF Family
  <2>2. CASE m = p /\ f = d
    <3>1. p # Nil /\ k = n
      BY <2>1, <2>2, <2>k, NodesAssumption
    <3>2. u.kid[f][m] = child /\ sub2[child] = sub[child] /\ sub[child] = sub[k] \ {n}
      BY <1>3, <1>6, <1>8, <2>2, <3>1
    <3>3. SlotOK(u, key, sub2, m, f)
      BY <1>3, <1>6, <1>9, <2>1, <2>2, <3>2 DEF SlotOK
    <3> QED
      BY <2>1, <2>k, <3>2, <3>3
  <2>3. CASE ~(m = p /\ f = d)
    <3>1. u.kid[f][m] = k
      BY <1>7, <2>1, <2>3, <2>k
    <3>2. k # n
      <4> SUFFICES ASSUME k = n PROVE FALSE
        OBVIOUS
      <4>1. m = p /\ n # Nil
        BY <1>0, <1>1, <2>1, NodesAssumption
      <4>2. p # Nil /\ f # d
        BY <2>1, <2>3, <4>1, NodesAssumption
      <4>3. f = Other[d]
        BY <4>2, OtherFacts
      <4> QED
        BY <2>k, <4>1, <4>2, <4>3
    <3>3. k # child \/ k = Nil
      BY <1>3, <1>10, <2>1
    <3>4. sub2[k] = sub[k] \ {n}
      BY <1>8, <2>1
    <3>5. SlotOK(u, key, sub2, m, f)
      BY <1>6, <1>9, <2>1, <3>1, <3>2, <3>3, <3>4 DEF SlotOK
    <3> QED
      BY <2>1, <2>k, <3>1, <3>4, <3>5
  <2> QED
    BY <2>2, <2>3
<1>11. ASSUME NEW m \in sub[t.root], m # n
       PROVE  NodeOK(u, key, sub2, m)
  <2>1. m \in Nodes /\ NodeOK(t, key, sub, m) /\ m \in Places
    BY <1>1 DEF Shape, Places
  <2>2. sub2[m] = {m} \cup sub2[u.kid["left"][m]] \cup sub2[u.kid["right"][m]]
    <3>1. sub[m] = {m} \cup sub[t.kid["left"][m]] \cup sub[t.kid["right"][m]]
      BY <2>1 DEF NodeOK
    <3>2. /\ sub2[u.kid["left"][m]] = sub[t.kid["left"][m]] \ {n}
          /\ sub2[u.kid["right"][m]] = sub[t.kid["right"][m]] \ {n}
      BY <1>10, <1>11, <1>f
    <3> QED
      BY <1>8, <1>11, <2>1, <3>1, <3>2
  <2>3. sub2[m] \subseteq sub2[u.root]
    BY <1>8, <1>9, <2>1 DEF NodeOK
  <2>4. Hangs(u, sub2, m)
    <3>1. CASE m = child
      <4>1. CASE p = Nil
        BY <1>6, <3>1, <4>1 DEF Hangs
      <4>2. CASE p # Nil
        <5>1. u.parent[m] = p /\ p \in sub2[u.root] /\ u.kid[d][p] = m /\ d \in Dirs
          BY <1>5, <1>6, <1>9, <2>1, <3>1, <4>2, NodesAssumption
        <5> QED
          BY <5>1 DEF Hangs
      <4> QED
        BY <4>1, <4>2
    <3>2. CASE m # child
      <4>1. CASE m = t.root
        BY <1>5, <1>6, <1>11, <4>1 DEF Hangs
      <4>2. CASE m # t.root
        <5>q. PICK q : q = t.parent[m]
          OBVIOUS
        <5>1. q \in sub[t.root] /\ \E f \in Dirs : t.kid[f][q] = m
          BY <2>1, <4>2, <5>q DEF NodeOK, Hangs
        <5>2. PICK f \in Dirs : t.kid[f][q] = m
          BY <5>1
        <5>3. q # n
          BY <1>0, <1>f, <2>1, <3>2, <5>2, NodesAssumption
        <5>4. ~(q = p /\ f = d)
          BY <1>11, <5>1, <5>2, <1>1, NodesAssumption
        <5>5. u.kid[f][q] = m /\ u.parent[m] = q
          BY <1>1, <1>6, <1>7, <2>1, <3>2, <5>1, <5>2, <5>4, <5>q
        <5> QED
          BY <1>9, <5>1, <5>3, <5>5 DEF Hangs
      <4> QED
        BY <4>1, <4>2
    <3> QED
      BY <3>1, <3>2
  <2> QED
    BY <1>10, <1>11, <2>2, <2>3, <2>4 DEF NodeOK
<1>12. u.root # Nil => u.root \in sub2[u.root] /\ u.parent[u.root] = Nil
  <2>1. CASE p = Nil
    <3>1. child # Nil => child \in sub[child]
      BY <1>3, ShapeOfMember
    <3> QED
      BY <1>3, <1>6, <1>9, <2>1, <3>1
  <2>2. CASE p # Nil
    BY <1>1, <1>3, <1>5, <1>6, <1>9, <2>2, NodesAssumption
  <2> QED
    BY <2>1, <2>2
<1>13. sub2[Nil] = {}
  BY <1>1, <1>8 DEF Places
<1>14. \A m \in sub2[u.root] : NodeOK(u, key, sub2, m)
  BY <1>9, <1>11
<1> QED
  BY <1>1, <1>6, <1>8, <1>9, <1>12, <1>13, <1>14 DEF Shape

-----------------------------------------------------------------------------
(* The node that is spliced out, and its place *)
Splice(t, key, sub, n, e, child, p, d, u, sub2) ==
    /\ Shape(t, key, sub) /\ n \in sub[t.root] /\ Single(t, n, e, child, p)
    /\ ChildOf(t, p, d, n)
    /\ Spliced(t, u, n, p, child, d) /\ Without(sub, sub2, n)
    /\ Shape(u, key, sub2) /\ sub2[u.root] = sub[t.root] \ {n}

(* There are a side and sets of nodes for them. *)
LEMMA SpliceExists ==
  ASSUME NEW t, NEW key, NEW sub, Shape(t, key, sub), NEW n \in sub[t.root],
         NEW e, NEW child, NEW p, Single(t, n, e, child, p)
  PROVE  \E d, sub2 : Splice(t, key, sub, n, e, child, p, d, SpliceOut(t, n, p, child), sub2)
<1>u. PICK u : u = SpliceOut(t, n, p, child)
  OBVIOUS
<1>1. PICK d : ChildOf(t, p, d, n) /\ Spliced(t, u, n, p, child, d)
  BY <1>u, SpliceSplices
<1>2. PICK sub2 : Without(sub, sub2, n)
  <2> WITNESS [m \in Places |-> sub[m] \ {n}]
  <2> QED
    BY DEF Without, Shape
<1>3. Shape(u, key, sub2) /\ sub2[u.root] = sub[t.root] \ {n}
  BY <1>1, <1>2, ShapeOfSpliced
<1> QED
  BY <1>1, <1>2, <1>3, <1>u DEF Splice

(* The children of the other nodes are the same, but for the one that was taken out. *)
LEMMA SpliceKids ==
  ASSUME NEW t, NEW key, NEW sub, NEW n, NEW e, NEW child, NEW p, NEW d, NEW u, NEW sub2,
         Splice(t, key, sub, n, e, child, p, d, u, sub2),
         NEW m \in sub[t.root], m # n, NEW f \in Dirs
  PROVE  /\ m = p /\ f = d => u.kid[f][m] = child /\ t.kid[f][m] = n
         /\ ~(m = p /\ f = d) => u.kid[f][m] = t.kid[f][m] /\ t.kid[f][m] # n
<1>1. m \in Nodes /\ n \in Nodes /\ (t.kid[f][m] = n => m = t.parent[n])
  BY ShapeOfMember, ShapeOfKid, NodesAssumption DEF Splice, ChildOf
<1>2. p = t.parent[n] /\ Spliced(t, u, n, p, child, d)
  BY DEF Splice, ChildOf, Single
<1>3. m = p => p # Nil /\ d \in Dirs /\ t.kid[d][p] = n /\ t.kid[Other[d]][p] # n
  BY <1>1, NodesAssumption DEF Splice, ChildOf
<1>4. CASE m = p /\ f = d
  BY <1>2, <1>3, <1>4 DEF Spliced
<1>5. CASE ~(m = p /\ f = d)
  <2>1. u.kid[f][m] = t.kid[f][m]
    BY <1>1, <1>2, <1>5 DEF Spliced
  <2>2. m = p => f = Other[d]
    BY <1>3, <1>5, OtherFacts
  <2> QED
    BY <1>1, <1>2, <1>3, <1>5, <2>1, <2>2
<1> QED
  BY <1>4, <1>5

(* Without a red node the tree is red-black still ... *)
LEMMA SpliceRed ==
  ASSUME NEW t, NEW key, NEW sub, NEW h, Coloured(t, key, sub, h),
         NEW n, NEW e, NEW child, NEW p, NEW d, NEW u, NEW sub2,
         Splice(t, key, sub, n, e, child, p, d, u, sub2), t.red[n]
  PROVE  Coloured(u, key, sub2, h)
<1>1. /\ Heights(h) /\ ~IsRed(t, t.root)
      /\ \A m \in sub[t.root] : Weighs(t, h, m) /\ Quiet(t, Nil, m)
  BY DEF Coloured
<1>2. /\ Shape(t, key, sub) /\ n \in sub[t.root] /\ e \in Dirs /\ t.kid[e][n] = child
      /\ t.parent[n] = p /\ u.red = t.red /\ Shape(u, key, sub2) /\ sub2[u.root] = sub[t.root] \ {n}
  BY DEF Splice, ChildOf, Single, Spliced
<1>3. h[child] = h[n] /\ ~IsRed(t, child) /\ n # Nil
  BY <1>1, <1>2, ShapeOfMember, NodesAssumption DEF Weighs, Quiet, IsRed
<1>4. ASSUME NEW m \in sub[t.root], m # n
      PROVE  Weighs(u, h, m) /\ Quiet(u, Nil, m)
  <2>1. \A f \in Dirs : \/ u.kid[f][m] = child /\ t.kid[f][m] = n
                        \/ u.kid[f][m] = t.kid[f][m]
    BY <1>4, SpliceKids
  <2>2. Weighs(t, h, m) /\ Quiet(t, Nil, m)
    BY <1>1
  <2>3. Weighs(u, h, m)
    BY <1>2, <1>3, <2>1, <2>2 DEF Weighs
  <2>4. Quiet(u, Nil, m)
    BY <1>2, <1>3, <2>1, <2>2 DEF Quiet, IsRed
  <2> QED
    BY <2>3, <2>4
<1>5. ~IsRed(u, u.root)
  <2>1. n # t.root
    BY <1>1, <1>3 DEF IsRed
  <2>2. p # Nil
    BY <1>2, <2>1, ShapeOfParent DEF Descends
  <2>3. u.root = t.root
    BY <2>2 DEF Splice, ChildOf, Spliced
  <2> QED
    BY <1>1, <1>2, <2>3 DEF IsRed
<1> QED
  BY <1>1, <1>2, <1>4, <1>5 DEF Coloured

(* ... and without a black one it is, but for the black node its place lacks. *)
LEMMA SpliceBlack ==
  ASSUME NEW t, NEW key, NEW sub, NEW h, Coloured(t, key, sub, h),
         NEW n, NEW e, NEW child, NEW p, NEW d, NEW u, NEW sub2,
         Splice(t, key, sub, n, e, child, p, d, u, sub2), ~t.red[n]
  PROVE  Shrinking(u, key, sub2, h, p, child)
<1>1. /\ Heights(h) /\ ~IsRed(t, t.root)
      /\ \A m \in sub[t.root] : Weighs(t, h, m) /\ Quiet(t, Nil, m)
  BY DEF Coloured
<1>2. /\ Shape(t, key, sub) /\ n \in sub[t.root] /\ e \in Dirs /\ t.kid[e][n] = child
      /\ t.parent[n] = p /\ u.red = t.red /\ Shape(u, key, sub2) /\ sub2[u.root] = sub[t.root] \ {n}
  BY DEF Splice, ChildOf, Single, Spliced
<1>3. h[n] = h[child] + 1 /\ n # Nil /\ n \in Nodes /\ child \in Places /\ p \in Places /\ h[child] \in Nat
  <2>1. n # Nil /\ n \in Nodes /\ child \in Places /\ p \in Places
    BY <1>2, ShapeOfMember, ShapeOfKid, NodesAssumption
  <2> QED
    BY <1>1, <1>2, <2>1 DEF Weighs, Heights
<1>4. ASSUME NEW m \in sub[t.root], m # n
      PROVE  /\ m # p => Weighs(u, h, m)
             /\ Quiet(u, child, m)
  <2>1. \A f \in Dirs : \/ m = p /\ u.kid[f][m] = child /\ t.kid[f][m] = n
                        \/ u.kid[f][m] = t.kid[f][m]
    BY <1>4, SpliceKids
  <2>2. Weighs(t, h, m) /\ Quiet(t, Nil, m)
    BY <1>1
  <2>3. m # p => Weighs(u, h, m)
    BY <1>2, <2>1, <2>2 DEF Weighs
  <2>4. Quiet(u, child, m)
    BY <1>2, <2>1, <2>2 DEF Quiet, IsRed
  <2> QED
    BY <2>3, <2>4
<1>5. CASE p = Nil
  <2>1. u.root = child
    BY <1>5 DEF Splice, ChildOf, Spliced
  <2>2. \A m \in sub[t.root] : m # p
    BY <1>2, <1>5, ShapeOfMember, NodesAssumption
  <2> QED
    BY <1>1, <1>2, <1>3, <1>4, <2>1, <2>2 DEF Shrinking
<1>6. CASE p # Nil
  <2>1. u.root = t.root /\ ~IsRed(u, u.root)
    BY <1>1, <1>2, <1>6 DEF Splice, ChildOf, Spliced, IsRed
  <2>2. Descends(t, sub, n, p)
    BY <1>2, ShapeOfParent
  <2>3. p \in sub[t.root] /\ p # n /\ p \in Nodes
    BY <1>6, <2>2 DEF Descends
  <2>4. d \in Dirs /\ t.kid[d][p] = n /\ t.kid[Other[d]][p] # n
    BY <1>6 DEF Splice, ChildOf
  <2>5. Other[d] \in Dirs /\ Other[d] # d
    BY <2>4, OtherFacts
  <2>sib. PICK sib : sib = t.kid[Other[d]][p]
    OBVIOUS
  <2>6. u.kid[d][p] = child /\ u.kid[Other[d]][p] = sib
    BY <2>3, <2>4, <2>5, <2>sib, SpliceKids
  <2>7. Weighs(t, h, p)
    BY <1>1, <2>3
  <2>8. /\ t.red[p] => h[p] = h[n] /\ h[p] = h[sib]
        /\ ~t.red[p] => h[p] = h[n] + 1 /\ h[p] = h[sib] + 1
    BY <2>4, <2>5, <2>7, <2>sib DEF Weighs
  <2>9. sib \in Places
    BY <1>2, <2>3, <2>5, <2>sib, ShapeOfKid
  <2>10. h[sib] \in Nat /\ h[n] \in Nat
    BY <1>1, <1>3, <2>9 DEF Heights, Places
  <2>11. h[sib] = h[child] + 1
    BY <1>3, <2>8, <2>10
  <2>12. Lacks(u, sub2, h, p, child, d, sib)
    BY <1>2, <2>3, <2>4, <2>6, <2>8, <2>11 DEF Lacks
  <2> QED
    BY <1>1, <1>2, <1>3, <1>4, <2>1, <2>12 DEF Shrinking
<1> QED
  BY <1>5, <1>6

(* RB_REMOVE of a node with at most one child keeps a red-black search tree. *)
LEMMA RemoveOuterSound ==
  ASSUME NEW t, NEW key, NEW sub, NEW h, Coloured(t, key, sub, h), NEW n \in sub[t.root],
         t.kid.left[n] = Nil \/ t.kid.right[n] = Nil
  PROVE  Sound(RemoveOuter(t, n), key, sub[t.root] \ {n})
<1>child. PICK child : child = IF t.kid.left[n] = Nil THEN t.kid.right[n] ELSE t.kid.left[n]
  OBVIOUS
<1>p. PICK p : p = t.parent[n]
  OBVIOUS
<1>u. PICK u : u = SpliceOut(t, n, p, child)
  OBVIOUS
<1>1. RemoveOuter(t, n) = IF t.red[n] THEN u ELSE RemoveColor(u, p, child)
  BY <1>child, <1>p, <1>u DEF RemoveOuter, SpliceOut
<1>2. \E e : Single(t, n, e, child, p)
  <2>1. CASE t.kid.left[n] = Nil
    <3>1. Single(t, n, "right", child, p)
      BY <1>child, <1>p, <2>1 DEF Single, Dirs, Other
    <3> QED
      BY <3>1
  <2>2. CASE t.kid.left[n] # Nil
    <3>1. Single(t, n, "left", child, p)
      BY <1>child, <1>p, <2>2 DEF Single, Dirs, Other
    <3> QED
      BY <3>1
  <2> QED
    BY <2>1, <2>2
<1>3. PICK e : Single(t, n, e, child, p)
  BY <1>2
<1>4. PICK d, sub2 : Splice(t, key, sub, n, e, child, p, d, u, sub2)
  BY <1>3, <1>u, SpliceExists DEF Coloured
<1>5. sub2[u.root] = sub[t.root] \ {n}
  BY <1>4 DEF Splice, ChildOf
<1>6. CASE t.red[n]
  BY <1>1, <1>4, <1>5, <1>6, SpliceRed DEF Sound
<1>7. CASE ~t.red[n]
  <2>1. Shrinking(u, key, sub2, h, p, child)
    BY <1>4, <1>7, SpliceBlack
  <2> QED
    BY <1>1, <1>5, <1>7, <2>1, RemoveColorColours
<1> QED
  BY <1>6, <1>7

-----------------------------------------------------------------------------
(* u is t with k, a node that is not in it, in the place of n. *)
Ren(n, k, m) == IF m = n THEN k ELSE m

Replaced(t, u, U, n, k) ==
    /\ u \in Trees /\ u.root = Ren(n, k, t.root)
    /\ \A m \in U \ {n} : /\ u.red[m] = t.red[m] /\ u.parent[m] = Ren(n, k, t.parent[m])
                          /\ \A e \in Dirs : u.kid[e][m] = Ren(n, k, t.kid[e][m])
    /\ u.red[k] = t.red[n] /\ u.parent[k] = t.parent[n]
    /\ \A e \in Dirs : u.kid[e][k] = t.kid[e][n]

(* The keys of n and k are on the same side of every other. *)
Replaces(t, key, sub, n, k) ==
    /\ n \in sub[t.root] /\ k \in Nodes /\ k \notin sub[t.root]
    /\ \A m \in sub[t.root], e \in Dirs : n \in sub[t.kid[e][m]] => Off(e, key[k], key[m])
    /\ \A e \in Dirs : \A m \in sub[t.kid[e][n]] : Off(e, key[m], key[k])

Swapped(sub, sub2, n, k) ==
    /\ sub2 \in [Places -> SUBSET Nodes] /\ sub2[k] = (sub[n] \ {n}) \cup {k}
    /\ \A m \in Places \ {k} : /\ n \in sub[m] => sub2[m] = (sub[m] \ {n}) \cup {k}
                               /\ n \notin sub[m] => sub2[m] = sub[m]

(* There are the sets of nodes below each node with k in the place of n. *)
LEMMA SwappedExists ==
  ASSUME NEW sub \in [Places -> SUBSET Nodes], NEW n \in Nodes, NEW k \in Nodes
  PROVE  \E sub2 : Swapped(sub, sub2, n, k)
<1> WITNESS [m \in Places |-> IF m = k THEN (sub[n] \ {n}) \cup {k}
                              ELSE IF n \in sub[m] THEN (sub[m] \ {n}) \cup {k} ELSE sub[m]]
<1> QED
  BY DEF Swapped, Places

(* k in the place of n keeps links that agree and the order. *)
LEMMA ShapeOfReplaced ==
  ASSUME NEW t, NEW key, NEW sub, Shape(t, key, sub), NEW n, NEW k, Replaces(t, key, sub, n, k),
         NEW u, Replaced(t, u, sub[t.root], n, k), NEW sub2, Swapped(sub, sub2, n, k)
  PROVE  Shape(u, key, sub2) /\ sub2[u.root] = (sub[t.root] \ {n}) \cup {k}
<1>0. /\ n \in sub[t.root] /\ k \in Nodes /\ k \notin sub[t.root]
      /\ \A m \in sub[t.root], e \in Dirs : n \in sub[t.kid[e][m]] => Off(e, key[k], key[m])
      /\ \A e \in Dirs : \A m \in sub[t.kid[e][n]] : Off(e, key[m], key[k])
  BY DEF Replaces
<1>1. /\ key \in Keys /\ sub \in [Places -> SUBSET Nodes] /\ sub[Nil] = {}
      /\ n \in Nodes /\ t.root \in Nodes /\ sub[t.root] \subseteq Nodes /\ t.root \in sub[t.root]
      /\ t.parent[t.root] = Nil /\ n \in sub[n] /\ n # k /\ k # Nil /\ n # Nil
  BY <1>0, ShapeOfMember, NodesAssumption DEF Shape
<1>2. /\ u \in Trees /\ u.root = Ren(n, k, t.root)
      /\ \A m \in sub[t.root] \ {n} : u.parent[m] = Ren(n, k, t.parent[m])
      /\ \A m \in sub[t.root] \ {n}, e \in Dirs : u.kid[e][m] = Ren(n, k, t.kid[e][m])
      /\ u.parent[k] = t.parent[n]
      /\ \A e \in Dirs : u.kid[e][k] = t.kid[e][n]
  BY DEF Replaced
<1>3. /\ sub2 \in [Places -> SUBSET Nodes] /\ sub2[k] = (sub[n] \ {n}) \cup {k}
      /\ \A m \in Places \ {k} : /\ n \in sub[m] => sub2[m] = (sub[m] \ {n}) \cup {k}
                                 /\ n \notin sub[m] => sub2[m] = sub[m]
  BY DEF Swapped
<1>V. PICK V : V = (sub[t.root] \ {n}) \cup {k}
  OBVIOUS
<1>4. sub2[Nil] = {} /\ sub2[u.root] = V
  <2>1. sub2[Nil] = {}
    BY <1>1, <1>3, NodesAssumption DEF Places
  <2>2. CASE t.root = n
    BY <1>2, <1>3, <1>V, <2>1, <2>2 DEF Ren
  <2>3. CASE t.root # n
    BY <1>0, <1>1, <1>2, <1>3, <1>V, <2>1, <2>3 DEF Ren, Places
  <2> QED
    BY <2>1, <2>2, <2>3
<1>5. ASSUME NEW m \in sub[t.root], NEW e \in Dirs
      PROVE  /\ m \in Nodes /\ m \in Places /\ m # k
             /\ t.kid[e][m] \in Places /\ t.kid[e][m] # k
             /\ t.kid[e][m] # Nil => t.kid[e][m] \in sub[t.root] /\ t.parent[t.kid[e][m]] = m
             /\ \A i \in sub[t.kid[e][m]] : Off(e, key[i], key[m])
  <2>1. Family(t, key, sub, m, e, t.kid[e][m], t.kid[Other[e]][m])
    BY ShapeOfNode
  <2>2. m \in Nodes /\ m \in Places
    BY <2>1 DEF Family, Places
  <2> QED
    BY <1>0, <1>1, <2>1, <2>2 DEF Family
<1>6. ASSUME NEW m \in sub[t.root] \ {n}
      PROVE  NodeOK(u, key, sub2, m)
  <2>1. NodeOK(t, key, sub, m) /\ m \in Places /\ m # k /\ m \in Nodes
    BY <1>0, <1>1 DEF Shape, Places
  <2>2. ASSUME NEW e \in Dirs
        PROVE  /\ SlotOK(u, key, sub2, m, e)
               /\ n \in sub[t.kid[e][m]] => sub2[u.kid[e][m]] = (sub[t.kid[e][m]] \ {n}) \cup {k}
               /\ n \notin sub[t.kid[e][m]] => sub2[u.kid[e][m]] = sub[t.kid[e][m]]
    <3>c. PICK c : c = t.kid[e][m]
      OBVIOUS
    <3>1. /\ c \in Places /\ c # k
          /\ c # Nil => c \in sub[t.root] /\ t.parent[c] = m
          /\ \A i \in sub[c] : Off(e, key[i], key[m])
          /\ n \in sub[c] => Off(e, key[k], key[m])
      BY <1>0, <1>5, <3>c
    <3>2. u.kid[e][m] = Ren(n, k, c)
      BY <1>2, <3>c
    <3>3. CASE c = n
      <4>1. u.kid[e][m] = k /\ sub2[k] = (sub[c] \ {n}) \cup {k} /\ n \in sub[c]
        BY <1>1, <1>3, <3>2, <3>3 DEF Ren
      <4>2. u.parent[k] = m /\ k \in V
        BY <1>1, <1>2, <1>V, <3>1, <3>3
      <4>3. SlotOK(u, key, sub2, m, e)
        BY <1>4, <3>1, <4>1, <4>2 DEF SlotOK
      <4> QED
        BY <3>c, <4>1, <4>3
    <3>4. CASE c # n
      <4>1. u.kid[e][m] = c
        BY <3>2, <3>4 DEF Ren
      <4>2. /\ n \in sub[c] => sub2[c] = (sub[c] \ {n}) \cup {k}
            /\ n \notin sub[c] => sub2[c] = sub[c]
        BY <1>3, <3>1
      <4>3. c # Nil => c \in V /\ u.parent[c] = m
        BY <1>2, <1>V, <3>1, <3>4 DEF Ren
      <4>4. SlotOK(u, key, sub2, m, e)
        BY <1>4, <3>1, <4>1, <4>2, <4>3 DEF SlotOK
      <4> QED
        BY <3>c, <4>1, <4>2, <4>4
    <3> QED
      BY <3>3, <3>4
  <2>3. sub[m] = {m} \cup sub[t.kid["left"][m]] \cup sub[t.kid["right"][m]] /\ sub[m] \subseteq sub[t.root]
    BY <2>1 DEF NodeOK
  <2>4. sub2[m] = {m} \cup sub2[u.kid["left"][m]] \cup sub2[u.kid["right"][m]]
    <3>0. "left" \in Dirs /\ "right" \in Dirs
      BY DEF Dirs
    <3>c. PICK c : c = t.kid["left"][m]
      OBVIOUS
    <3>b. PICK b : b = t.kid["right"][m]
      OBVIOUS
    <3>1. /\ n \in sub[c] => sub2[u.kid["left"][m]] = (sub[c] \ {n}) \cup {k}
          /\ n \notin sub[c] => sub2[u.kid["left"][m]] = sub[c]
      BY <2>2, <3>0, <3>c
    <3>2. /\ n \in sub[b] => sub2[u.kid["right"][m]] = (sub[b] \ {n}) \cup {k}
          /\ n \notin sub[b] => sub2[u.kid["right"][m]] = sub[b]
      BY <2>2, <3>0, <3>b
    <3>3. /\ n \in sub[m] => sub2[m] = (sub[m] \ {n}) \cup {k}
          /\ n \notin sub[m] => sub2[m] = sub[m]
      BY <1>3, <2>1
    <3>4. sub[m] = {m} \cup sub[c] \cup sub[b] /\ m # n
      BY <2>3, <3>c, <3>b
    <3> QED
      BY <3>1, <3>2, <3>3, <3>4
  <2>5. sub2[m] \subseteq sub2[u.root]
    BY <1>0, <1>3, <1>4, <1>V, <2>1, <2>3
  <2>6. Hangs(u, sub2, m)
    <3>1. CASE m = t.root
      BY <1>2, <3>1 DEF Hangs, Ren
    <3>2. CASE m # t.root
      <4>q. PICK q : q = t.parent[m]
        OBVIOUS
      <4>1. q \in sub[t.root] /\ \E e \in Dirs : t.kid[e][q] = m
        BY <2>1, <3>2, <4>q DEF NodeOK, Hangs
      <4>2. PICK e \in Dirs : t.kid[e][q] = m
        BY <4>1
      <4>3. u.parent[m] = Ren(n, k, q)
        BY <1>2, <4>q
      <4>4. CASE q = n
        BY <1>2, <1>4, <1>V, <4>2, <4>3, <4>4 DEF Hangs, Ren
      <4>5. CASE q # n
        <5>1. u.kid[e][q] = m /\ u.parent[m] = q /\ q \in V
          BY <1>2, <1>V, <4>1, <4>2, <4>3, <4>5 DEF Ren
        <5> QED
          BY <1>4, <5>1 DEF Hangs
      <4> QED
        BY <4>4, <4>5
    <3> QED
      BY <3>1, <3>2
  <2> QED
    BY <2>2, <2>4, <2>5, <2>6 DEF NodeOK
<1>7. NodeOK(u, key, sub2, k)
  <2>1. NodeOK(t, key, sub, n)
    BY <1>0 DEF Shape
  <2>2. ASSUME NEW e \in Dirs
        PROVE  /\ SlotOK(u, key, sub2, k, e) /\ sub2[u.kid[e][k]] = sub[t.kid[e][n]]
               /\ n \notin sub[t.kid[e][n]]
    <3>c. PICK c : c = t.kid[e][n]
      OBVIOUS
    <3>1. Family(t, key, sub, n, e, c, t.kid[Other[e]][n])
      BY <1>0, <3>c, ShapeOfNode
    <3>2. /\ c \in Places /\ c # n /\ n \notin sub[c]
          /\ c # Nil => c \in sub[t.root] /\ t.parent[c] = n
      BY <3>1 DEF Family
    <3>3. u.kid[e][k] = c /\ sub2[c] = sub[c] /\ c # k
      BY <1>0, <1>1, <1>2, <1>3, <3>2, <3>c
    <3>4. c # Nil => c \in V /\ u.parent[c] = k
      BY <1>2, <1>V, <3>2 DEF Ren
    <3>5. \A m \in sub[c] : Off(e, key[m], key[k])
      BY <1>0, <3>c
    <3>6. SlotOK(u, key, sub2, k, e)
      BY <1>4, <3>3, <3>4, <3>5 DEF SlotOK
    <3> QED
      BY <3>2, <3>3, <3>6, <3>c
  <2>3. sub[n] = {n} \cup sub[t.kid["left"][n]] \cup sub[t.kid["right"][n]] /\ sub[n] \subseteq sub[t.root]
    BY <2>1 DEF NodeOK
  <2>4. sub2[k] = {k} \cup sub2[u.kid["left"][k]] \cup sub2[u.kid["right"][k]]
    <3>0. "left" \in Dirs /\ "right" \in Dirs
      BY DEF Dirs
    <3>1. /\ sub2[u.kid["left"][k]] = sub[t.kid["left"][n]] /\ n \notin sub[t.kid["left"][n]]
          /\ sub2[u.kid["right"][k]] = sub[t.kid["right"][n]] /\ n \notin sub[t.kid["right"][n]]
      BY <2>2, <3>0
    <3> QED
      BY <1>3, <2>3, <3>1
  <2>5. sub2[k] \subseteq sub2[u.root]
    BY <1>3, <1>4, <1>V, <2>3
  <2>6. Hangs(u, sub2, k)
    <3>1. CASE n = t.root
      BY <1>2, <3>1 DEF Hangs, Ren
    <3>2. CASE n # t.root
      <4>q. PICK q : q = t.parent[n]
        OBVIOUS
      <4>1. Descends(t, sub, n, q)
        BY <1>0, <4>q, ShapeOfParent
      <4>2. q # Nil /\ q \in sub[t.root] /\ q # n /\ \E e \in Dirs : t.kid[e][q] = n
        BY <3>2, <4>1 DEF Descends
      <4>3. PICK e \in Dirs : t.kid[e][q] = n
        BY <4>2
      <4>4. u.kid[e][q] = k /\ u.parent[k] = q /\ q \in V
        BY <1>2, <1>V, <4>2, <4>3, <4>q DEF Ren
      <4> QED
        BY <1>4, <4>4 DEF Hangs
    <3> QED
      BY <3>1, <3>2
  <2> QED
    BY <2>2, <2>4, <2>5, <2>6 DEF NodeOK
<1>8. u.root \in sub2[u.root] /\ u.parent[u.root] = Nil
  <2>1. CASE t.root = n
    BY <1>1, <1>2, <1>4, <1>V, <2>1 DEF Ren
  <2>2. CASE t.root # n
    BY <1>1, <1>2, <1>4, <1>V, <2>2 DEF Ren
  <2> QED
    BY <2>1, <2>2
<1>9. \A m \in sub2[u.root] : NodeOK(u, key, sub2, m)
  BY <1>4, <1>6, <1>7, <1>V
<1> QED
  BY <1>1, <1>2, <1>3, <1>4, <1>8, <1>9, <1>V DEF Shape

(* The heights with it *)
LEMMA ReplacedColours ==
  ASSUME NEW t, NEW key, NEW sub, Shape(t, key, sub), NEW n, NEW k, Replaces(t, key, sub, n, k),
         NEW u, Replaced(t, u, sub[t.root], n, k), NEW h, NEW h2,
         h2[k] = h[n], \A m \in Places \ {k} : h2[m] = h[m]
  PROVE  /\ \A m \in sub[t.root] : Weighs(t, h, m) => Weighs(u, h2, Ren(n, k, m))
         /\ \A m \in sub[t.root], x \in sub[t.root] \cup {Nil} :
                Quiet(t, x, m) => Quiet(u, Ren(n, k, x), Ren(n, k, m))
         /\ \A m \in sub[t.root] \cup {Nil} : /\ h2[Ren(n, k, m)] = h[m]
                                              /\ IsRed(u, Ren(n, k, m)) <=> IsRed(t, m)
         /\ \A m \in sub[t.root] : u.red[Ren(n, k, m)] <=> t.red[m]
         /\ \A m \in sub[t.root], e \in Dirs : u.kid[e][Ren(n, k, m)] = Ren(n, k, t.kid[e][m])
         /\ IsRed(u, u.root) <=> IsRed(t, t.root)
<1>1. /\ n \in sub[t.root] /\ k \in Nodes /\ k \notin sub[t.root] /\ n \in Nodes
      /\ sub[t.root] \subseteq Nodes /\ k # Nil /\ n # Nil /\ t \in Trees
  BY ShapeOfMember, NodesAssumption DEF Replaces, Shape
<1>2. /\ \A m \in sub[t.root] \ {n} : u.red[m] = t.red[m]
      /\ \A m \in sub[t.root] \ {n}, e \in Dirs : u.kid[e][m] = Ren(n, k, t.kid[e][m])
      /\ u.red[k] = t.red[n] /\ \A e \in Dirs : u.kid[e][k] = t.kid[e][n]
      /\ u.root = Ren(n, k, t.root)
  BY DEF Replaced
<1>3. ASSUME NEW m \in sub[t.root], NEW e \in Dirs
      PROVE  /\ u.kid[e][Ren(n, k, m)] = Ren(n, k, t.kid[e][m])
             /\ t.kid[e][m] \in sub[t.root] \cup {Nil}
  <2>1. t.kid[e][m] \in sub[t.root] \cup {Nil} /\ t.kid[e][m] # m
    <3>1. Family(t, key, sub, m, e, t.kid[e][m], t.kid[Other[e]][m])
      BY ShapeOfNode
    <3> QED
      BY <3>1 DEF Family
  <2> QED
    BY <1>2, <2>1 DEF Ren
<1>4. ASSUME NEW m \in sub[t.root] \cup {Nil}
      PROVE  /\ h2[Ren(n, k, m)] = h[m] /\ (IsRed(u, Ren(n, k, m)) <=> IsRed(t, m))
             /\ m # Nil => (u.red[Ren(n, k, m)] <=> t.red[m])
  BY <1>1, <1>2 DEF Ren, IsRed, Places
<1>5. ASSUME NEW m \in sub[t.root], Weighs(t, h, m)
      PROVE  Weighs(u, h2, Ren(n, k, m))
  <2>r. PICK r : r = Ren(n, k, m)
    OBVIOUS
  <2>1. (u.red[r] <=> t.red[m]) /\ h2[r] = h[m]
    BY <1>1, <1>4, <2>r, NodesAssumption
  <2>2. ASSUME NEW e \in Dirs PROVE h2[u.kid[e][r]] = h[t.kid[e][m]]
    BY <1>3, <1>4, <2>r
  <2>3. Weighs(u, h2, r)
    BY <1>5, <2>1, <2>2 DEF Weighs
  <2> QED
    BY <2>3, <2>r
<1>6. ASSUME NEW m \in sub[t.root], NEW x \in sub[t.root] \cup {Nil}, Quiet(t, x, m)
      PROVE  Quiet(u, Ren(n, k, x), Ren(n, k, m))
  <2>r. PICK r : r = Ren(n, k, m)
    OBVIOUS
  <2>y. PICK y : y = Ren(n, k, x)
    OBVIOUS
  <2>1. u.red[r] <=> t.red[m]
    BY <1>1, <1>4, <2>r, NodesAssumption
  <2>2. ASSUME t.red[m], NEW e \in Dirs, u.kid[e][r] # y PROVE ~IsRed(u, u.kid[e][r])
    <3>1. u.kid[e][r] = Ren(n, k, t.kid[e][m]) /\ t.kid[e][m] \in sub[t.root] \cup {Nil}
      BY <1>3, <2>r
    <3>2. t.kid[e][m] # x
      BY <2>2, <2>y, <3>1
    <3>3. ~IsRed(t, t.kid[e][m])
      BY <1>6, <2>2, <3>2 DEF Quiet
    <3> QED
      BY <1>4, <3>1, <3>3
  <2>3. Quiet(u, y, r)
    BY <2>1, <2>2 DEF Quiet
  <2> QED
    BY <2>3, <2>r, <2>y
<1>7. IsRed(u, u.root) <=> IsRed(t, t.root)
  <2>1. t.root \in sub[t.root] \cup {Nil}
    BY DEF Shape
  <2> QED
    BY <1>2, <1>4, <2>1
<1>8. \A m \in sub[t.root] : u.red[Ren(n, k, m)] <=> t.red[m]
  BY <1>1, <1>4, NodesAssumption
<1> QED
  BY <1>3, <1>4, <1>5, <1>6, <1>7, <1>8

-----------------------------------------------------------------------------
(* What is right of the colours stays right. *)
HeightsSwapped(h, h2, n, k) == Heights(h2) /\ h2[k] = h[n] /\ \A m \in Places \ {k} : h2[m] = h[m]

(* There are the numbers of black nodes with k in the place of n. *)
LEMMA HeightsSwappedExists ==
  ASSUME NEW h, Heights(h), NEW n \in Nodes, NEW k \in Nodes
  PROVE  \E h2 : HeightsSwapped(h, h2, n, k)
<1> WITNESS [m \in Places |-> IF m = k THEN h[n] ELSE h[m]]
<1> QED
  BY NodesAssumption DEF HeightsSwapped, Heights, Places

(* Every node of the new tree is one of the old, or k for n ... *)
LEMMA RenamedMembers ==
  ASSUME NEW t, NEW key, NEW sub, Shape(t, key, sub), NEW n, NEW k, Replaces(t, key, sub, n, k),
         NEW x \in (sub[t.root] \ {n}) \cup {k}
  PROVE  \E m \in sub[t.root] : x = Ren(n, k, m)
BY DEF Replaces, Ren

(* ... and nodes that differ stay different. *)
LEMMA RenamedDiffer ==
  ASSUME NEW t, NEW key, NEW sub, Shape(t, key, sub), NEW n, NEW k, Replaces(t, key, sub, n, k),
         NEW x \in sub[t.root] \cup {Nil}, NEW y \in sub[t.root] \cup {Nil},
         Ren(n, k, x) = Ren(n, k, y)
  PROVE  x = y
BY ShapeOfMember, NodesAssumption DEF Replaces, Ren

(* k in the place of n keeps a red-black tree ... *)
LEMMA ReplacedColoured ==
  ASSUME NEW t, NEW key, NEW sub, NEW h, Coloured(t, key, sub, h),
         NEW n, NEW k, Replaces(t, key, sub, n, k),
         NEW u, Replaced(t, u, sub[t.root], n, k), NEW sub2, Swapped(sub, sub2, n, k),
         NEW h2, HeightsSwapped(h, h2, n, k)
  PROVE  Coloured(u, key, sub2, h2)
<1>1. /\ Shape(t, key, sub) /\ \A m \in sub[t.root] : Weighs(t, h, m) /\ Quiet(t, Nil, m)
      /\ ~IsRed(t, t.root)
  BY DEF Coloured
<1>2. Shape(u, key, sub2) /\ sub2[u.root] = (sub[t.root] \ {n}) \cup {k}
  BY <1>1, ShapeOfReplaced
<1>3. Heights(h2) /\ h2[k] = h[n] /\ \A m \in Places \ {k} : h2[m] = h[m]
  BY DEF HeightsSwapped
<1>4. /\ \A m \in sub[t.root] : Weighs(t, h, m) => Weighs(u, h2, Ren(n, k, m))
      /\ \A m \in sub[t.root], x \in sub[t.root] \cup {Nil} :
             Quiet(t, x, m) => Quiet(u, Ren(n, k, x), Ren(n, k, m))
      /\ IsRed(u, u.root) <=> IsRed(t, t.root)
  BY <1>1, <1>3, ReplacedColours
<1>5. Ren(n, k, Nil) = Nil
  BY <1>1, ShapeOfMember, NodesAssumption DEF Ren, Replaces
<1>6. ASSUME NEW x \in sub2[u.root] PROVE Weighs(u, h2, x) /\ Quiet(u, Nil, x)
  <2>1. PICK m \in sub[t.root] : x = Ren(n, k, m)
    BY <1>1, <1>2, RenamedMembers
  <2> QED
    BY <1>1, <1>4, <1>5, <2>1
<1> QED
  BY <1>1, <1>2, <1>3, <1>4, <1>6 DEF Coloured

(* ... and one that lacks a black node. *)
LEMMA ReplacedShrinking ==
  ASSUME NEW t, NEW key, NEW sub, NEW h, NEW p, NEW c, Shrinking(t, key, sub, h, p, c),
         p \in sub[t.root] \cup {Nil}, c \in sub[t.root] \cup {Nil},
         NEW n, NEW k, Replaces(t, key, sub, n, k),
         NEW u, Replaced(t, u, sub[t.root], n, k), NEW sub2, Swapped(sub, sub2, n, k),
         NEW h2, HeightsSwapped(h, h2, n, k)
  PROVE  Shrinking(u, key, sub2, h2, Ren(n, k, p), Ren(n, k, c))
<1>U. PICK U : U = sub[t.root]
  OBVIOUS
<1>q. PICK q : q = Ren(n, k, p)
  OBVIOUS
<1>b. PICK b : b = Ren(n, k, c)
  OBVIOUS
<1>1. /\ Shape(t, key, sub)
      /\ \A m \in U \ {c} : Quiet(t, c, m)
      /\ c # t.root => ~IsRed(t, t.root)
      /\ \/ c = t.root /\ \A m \in U : Weighs(t, h, m)
         \/ /\ \E d, sib : Lacks(t, sub, h, p, c, d, sib)
            /\ \A m \in U \ {p} : Weighs(t, h, m)
  BY <1>U DEF Shrinking
<1>2. Shape(u, key, sub2) /\ sub2[u.root] = (U \ {n}) \cup {k}
  BY <1>1, <1>U, ShapeOfReplaced
<1>3. Heights(h2) /\ h2[k] = h[n] /\ \A m \in Places \ {k} : h2[m] = h[m]
  BY DEF HeightsSwapped
<1>4. /\ \A m \in U : Weighs(t, h, m) => Weighs(u, h2, Ren(n, k, m))
      /\ \A m \in U, x \in U \cup {Nil} :
             Quiet(t, x, m) => Quiet(u, Ren(n, k, x), Ren(n, k, m))
      /\ \A m \in U \cup {Nil} : h2[Ren(n, k, m)] = h[m]
      /\ \A m \in U : u.red[Ren(n, k, m)] <=> t.red[m]
      /\ \A m \in U, e \in Dirs : u.kid[e][Ren(n, k, m)] = Ren(n, k, t.kid[e][m])
      /\ IsRed(u, u.root) <=> IsRed(t, t.root)
  BY <1>1, <1>3, <1>U, ReplacedColours
<1>5. U \subseteq Nodes /\ k \in Nodes /\ u.root = Ren(n, k, t.root) /\ t.root \in U \cup {Nil}
  BY <1>1, <1>U, ShapeOfMember DEF Replaces, Replaced, Shape
<1>6. b \in Places /\ q \in Places
  BY <1>5, <1>U, <1>b, <1>q DEF Ren, Places
<1>7. \A x \in U \cup {Nil}, y \in U \cup {Nil} : Ren(n, k, x) = Ren(n, k, y) => x = y
  BY <1>1, <1>U, RenamedDiffer
<1>8. ASSUME NEW x \in sub2[u.root]
      PROVE  \E m \in U : x = Ren(n, k, m)
  BY <1>1, <1>2, <1>U, RenamedMembers
<1>9. \A x \in sub2[u.root] \ {b} : Quiet(u, b, x)
  <2> SUFFICES ASSUME NEW x \in sub2[u.root] \ {b} PROVE Quiet(u, b, x)
    OBVIOUS
  <2>1. PICK m \in U : x = Ren(n, k, m)
    BY <1>8
  <2>2. m # c
    BY <1>b, <2>1
  <2> QED
    BY <1>1, <1>4, <1>U, <1>b, <2>1, <2>2
<1>10. b # u.root => ~IsRed(u, u.root)
  BY <1>1, <1>4, <1>5, <1>b
<1>11. CASE c = t.root /\ \A m \in U : Weighs(t, h, m)
  <2>1. b = u.root
    BY <1>5, <1>11, <1>b
  <2>2. \A x \in sub2[u.root] : Weighs(u, h2, x)
    BY <1>4, <1>8, <1>11
  <2> QED
    BY <1>2, <1>3, <1>6, <1>9, <1>10, <1>b, <1>q, <2>1, <2>2 DEF Shrinking
<1>12. CASE (\E d, sib : Lacks(t, sub, h, p, c, d, sib)) /\ \A m \in U \ {p} : Weighs(t, h, m)
  <2>1. PICK d, sib : Lacks(t, sub, h, p, c, d, sib)
    BY <1>12
  <2>2. /\ d \in Dirs /\ p \in U /\ t.kid[d][p] = c /\ t.kid[Other[d]][p] = sib
        /\ h[sib] = h[c] + 1
        /\ t.red[p] => h[p] = h[sib]
        /\ ~t.red[p] => h[p] = h[sib] + 1
    BY <1>U, <2>1 DEF Lacks
  <2>3. Other[d] \in Dirs
    BY <2>2, OtherFacts
  <2>4. sib \in U \cup {Nil}
    BY <1>1, <1>U, <2>2, <2>3, ShapeOfKid
  <2>s. PICK s : s = Ren(n, k, sib)
    OBVIOUS
  <2>5. u.kid[d][q] = b /\ u.kid[Other[d]][q] = s
    BY <1>4, <1>b, <1>q, <2>2, <2>3, <2>s
  <2>6. h2[s] = h[sib] /\ h2[b] = h[c] /\ h2[q] = h[p] /\ (u.red[q] <=> t.red[p])
    BY <1>4, <1>U, <1>b, <1>q, <2>2, <2>4, <2>s
  <2>7. q \in sub2[u.root]
    BY <1>2, <1>q, <2>2 DEF Ren
  <2>8. Lacks(u, sub2, h2, q, b, d, s)
    BY <2>2, <2>5, <2>6, <2>7 DEF Lacks
  <2>9. \A x \in sub2[u.root] \ {q} : Weighs(u, h2, x)
    BY <1>4, <1>8, <1>12, <1>q
  <2> QED
    BY <1>2, <1>3, <1>6, <1>9, <1>10, <1>b, <1>q, <2>8, <2>9 DEF Shrinking
<1> QED
  BY <1>1, <1>11, <1>12

-----------------------------------------------------------------------------
(* RB_REMOVE of a node with two children: what it does after next is out *)
TakeLinks(t, n, k) ==
    [root   |-> t.root,
     kid    |-> [d \in Dirs |-> Put(t.kid[d], k, t.kid[d][n])],
     parent |-> Put(t.parent, k, t.parent[n]),
     red    |-> Put(t.red, k, t.red[n])]

Adopt(t, n, k) == SetParent(SetParent(t, t.kid.left[n], k), t.kid.right[n], k)

TakePlace(t, n, k) ==
    LET t2 == TakeLinks(t, n, k)
    IN  Adopt(Relink(t2, t2.parent[n], n, k), n, k)

LinksTaken(t, u, n, k) ==
    /\ u \in Trees /\ u.root = t.root
    /\ u.parent[k] = t.parent[n] /\ u.red[k] = t.red[n] /\ \A d \in Dirs : u.kid[d][k] = t.kid[d][n]
    /\ \A m \in Nodes \ {k} : /\ u.parent[m] = t.parent[m] /\ u.red[m] = t.red[m]
                              /\ \A d \in Dirs : u.kid[d][m] = t.kid[d][m]

(* The next node copies the entry of n ... *)
LEMMA TakeLinksFields ==
  ASSUME NEW t \in Trees, NEW n \in Nodes, NEW k \in Nodes
  PROVE  LinksTaken(t, TakeLinks(t, n, k), n, k)
BY DEF LinksTaken, TakeLinks, Put, Trees

Adopted(t, u, l, r, k) ==
    /\ u \in Trees /\ u.root = t.root /\ u.kid = t.kid /\ u.red = t.red
    /\ \A m \in Nodes : /\ m \in {l, r} => u.parent[m] = k
                        /\ m \notin {l, r} => u.parent[m] = t.parent[m]

(* ... and becomes the parent of its children. *)
LEMMA AdoptFields ==
  ASSUME NEW t \in Trees, NEW n \in Nodes, NEW k \in Nodes
  PROVE  Adopted(t, Adopt(t, n, k), t.kid.left[n], t.kid.right[n], k)
<1>l. PICK l : l = t.kid.left[n]
  OBVIOUS
<1>r. PICK r : r = t.kid.right[n]
  OBVIOUS
<1>1. l \in Places /\ r \in Places /\ k \in Places
  BY <1>l, <1>r, FieldsTyped DEF Dirs, Places
<1>a. PICK a : a = SetParent(t, l, k)
  OBVIOUS
<1>2. ParentSet(t, a, l, k)
  BY <1>1, <1>a, SetParentFields
<1>3. a \in Trees
  BY <1>2 DEF ParentSet
<1>b. PICK b : b = SetParent(a, r, k)
  OBVIOUS
<1>4. ParentSet(a, b, r, k)
  BY <1>1, <1>3, <1>b, SetParentFields
<1>5. Adopted(t, b, l, r, k)
  BY <1>2, <1>4 DEF ParentSet, Adopted
<1> QED
  BY <1>5, <1>a, <1>b, <1>l, <1>r DEF Adopt

(* With the link from above the next node is in the place of n. *)
LEMMA TakePlaceReplaces ==
  ASSUME NEW t, NEW key, NEW sub, Shape(t, key, sub), NEW n \in sub[t.root],
         NEW k \in Nodes, k \notin sub[t.root]
  PROVE  Replaced(t, TakePlace(t, n, k), sub[t.root], n, k)
<1>U. PICK U : U = sub[t.root]
  OBVIOUS
<1>l. PICK l : l = t.kid.left[n]
  OBVIOUS
<1>r. PICK r : r = t.kid.right[n]
  OBVIOUS
<1>q. PICK q : q = t.parent[n]
  OBVIOUS
<1>1. t \in Trees /\ n \in Nodes /\ n # k /\ n # Nil /\ k # Nil /\ U \subseteq Nodes /\ n \in U /\ k \notin U
  BY <1>U, ShapeOfMember, NodesAssumption DEF Shape
<1>2. Descends(t, sub, n, q)
  BY <1>q, ShapeOfParent
<1>3. /\ q = Nil <=> n = t.root
      /\ q # Nil => q \in U /\ q \in Nodes /\ q # n /\ q # k
  BY <1>1, <1>2, <1>U DEF Descends
<1>d. PICK d : q # Nil => d \in Dirs /\ t.kid[d][q] = n /\ t.kid[Other[d]][q] # n
  BY <1>2 DEF Descends
<1>4. l \in U \cup {Nil} /\ r \in U \cup {Nil} /\ q \in Places /\ l # n /\ r # n
  <2>0. "left" \in Dirs /\ "right" \in Dirs
    BY DEF Dirs
  <2>1. l \in U \cup {Nil} /\ r \in U \cup {Nil}
    BY <1>U, <1>l, <1>r, <2>0, ShapeOfKid
  <2>2. Family(t, key, sub, n, "left", l, t.kid[Other["left"]][n])
    BY <1>l, <2>0, ShapeOfNode
  <2>3. Family(t, key, sub, n, "right", r, t.kid[Other["right"]][n])
    BY <1>r, <2>0, ShapeOfNode
  <2>4. l # n /\ r # n
    BY <2>2, <2>3 DEF Family
  <2> QED
    BY <1>3, <2>1, <2>4 DEF Places
<1>a. PICK a : a = TakeLinks(t, n, k)
  OBVIOUS
<1>5. LinksTaken(t, a, n, k)
  BY <1>1, <1>a, TakeLinksFields
<1>6. a.parent[n] = q /\ a \in Trees
  BY <1>1, <1>5, <1>q DEF LinksTaken
<1>b. PICK b : b = Relink(a, q, n, k)
  OBVIOUS
<1>7. Relinked(a, b, q, d, k)
  <2>1. q # Nil => d \in Dirs /\ Side(a, q, n) = d
    <3> SUFFICES ASSUME q # Nil PROVE d \in Dirs /\ Side(a, q, n) = d
      OBVIOUS
    <3>1. d \in Dirs /\ Other[d] \in Dirs
      BY <1>d, OtherFacts
    <3>2. a.kid[d][q] = n /\ a.kid[Other[d]][q] # n
      BY <1>3, <1>5, <1>d, <3>1 DEF LinksTaken
    <3> QED
      BY <1>1, <1>3, <1>6, <3>1, <3>2, SideFacts DEF Places
  <2> QED
    BY <1>1, <1>4, <1>6, <1>b, <2>1, RelinkFields DEF Places
<1>u. PICK u : u = Adopt(b, n, k)
  OBVIOUS
<1>8. b \in Trees /\ b.kid.left[n] = l /\ b.kid.right[n] = r
  <2>1. b.kid.left[n] = a.kid.left[n] /\ b.kid.right[n] = a.kid.right[n] /\ b \in Trees
    BY <1>1, <1>3, <1>7, OtherFacts DEF Relinked
  <2>2. a.kid.left[n] = l /\ a.kid.right[n] = r
    BY <1>1, <1>5, <1>l, <1>r, OtherFacts DEF LinksTaken
  <2> QED
    BY <2>1, <2>2
<1>9. Adopted(b, u, l, r, k)
  BY <1>1, <1>8, <1>u, AdoptFields
<1>10. /\ u \in Trees /\ u.root = b.root /\ u.kid = b.kid /\ u.red = a.red /\ b.parent = a.parent
       /\ \A m \in Nodes : /\ m \in {l, r} => u.parent[m] = k
                           /\ m \notin {l, r} => u.parent[m] = b.parent[m]
  BY <1>7, <1>9 DEF Adopted, Relinked
<1>11. u.root = Ren(n, k, t.root)
  BY <1>3, <1>5, <1>7, <1>10 DEF Relinked, LinksTaken, Ren
<1>12. ASSUME NEW m \in U \ {n}
       PROVE  /\ u.red[m] = t.red[m] /\ u.parent[m] = Ren(n, k, t.parent[m])
              /\ \A e \in Dirs : u.kid[e][m] = Ren(n, k, t.kid[e][m])
  <2>1. /\ m \in Nodes /\ m # k /\ m # n /\ m # Nil
        /\ a.parent[m] = t.parent[m] /\ a.red[m] = t.red[m]
        /\ \A e \in Dirs : a.kid[e][m] = t.kid[e][m]
    BY <1>1, <1>5, NodesAssumption DEF LinksTaken
  <2>2. u.parent[m] = Ren(n, k, t.parent[m])
    <3>1. CASE m \in {l, r}
      <4>1. t.parent[m] = n
        BY <1>l, <1>r, <2>1, <3>1, OtherFacts, ShapeOfKid
      <4> QED
        BY <1>10, <2>1, <3>1, <4>1 DEF Ren
    <3>2. CASE m \notin {l, r}
      <4>p. PICK p : p = t.parent[m]
        OBVIOUS
      <4>1. Descends(t, sub, m, p)
        BY <1>U, <4>p, ShapeOfParent
      <4>2. p # n
        BY <1>1, <1>l, <1>r, <3>2, <4>1, OtherFacts DEF Descends
      <4> QED
        BY <1>10, <2>1, <3>2, <4>2, <4>p DEF Ren
    <3> QED
      BY <3>1, <3>2
  <2>3. ASSUME NEW e \in Dirs PROVE u.kid[e][m] = Ren(n, k, t.kid[e][m])
    <3>1. CASE m = q /\ e = d
      <4>1. u.kid[e][m] = k /\ t.kid[e][m] = n
        BY <1>7, <1>10, <1>d, <2>1, <3>1 DEF Relinked
      <4> QED
        BY <4>1 DEF Ren
    <3>2. CASE ~(m = q /\ e = d)
      <4>1. u.kid[e][m] = t.kid[e][m]
        <5>1. b.kid[e][m] = a.kid[e][m]
          BY <1>7, <2>1, <3>2 DEF Relinked
        <5> QED
          BY <1>10, <2>1, <5>1
      <4>2. t.kid[e][m] # n
        <5> SUFFICES ASSUME t.kid[e][m] = n PROVE FALSE
          OBVIOUS
        <5>1. q = m
          BY <1>1, <1>U, <1>q, ShapeOfKid
        <5>2. e # d /\ d \in Dirs /\ t.kid[Other[d]][q] # n
          BY <1>d, <2>1, <3>2, <5>1
        <5>3. e = Other[d]
          BY <5>2, OtherFacts
        <5> QED
          BY <5>1, <5>2, <5>3
      <4> QED
        BY <4>1, <4>2 DEF Ren
    <3> QED
      BY <3>1, <3>2
  <2>4. u.red[m] = t.red[m]
    BY <1>10, <2>1
  <2> QED
    BY <2>2, <2>3, <2>4
<1>13. u.red[k] = t.red[n] /\ u.parent[k] = t.parent[n]
  <2>1. k \notin {l, r}
    BY <1>1, <1>4
  <2> QED
    BY <1>1, <1>5, <1>10, <2>1 DEF LinksTaken
<1>14. ASSUME NEW e \in Dirs PROVE u.kid[e][k] = t.kid[e][n]
  <2>1. k # q
    BY <1>1, <1>3
  <2>2. b.kid[e][k] = a.kid[e][k]
    BY <1>1, <1>7, <2>1 DEF Relinked
  <2> QED
    BY <1>5, <1>10, <2>2 DEF LinksTaken
<1>15. Replaced(t, u, U, n, k)
  BY <1>10, <1>11, <1>12, <1>13, <1>14 DEF Replaced
<1>16. u = TakePlace(t, n, k)
  BY <1>6, <1>a, <1>b, <1>u DEF TakePlace
<1> QED
  BY <1>15, <1>16, <1>U

-----------------------------------------------------------------------------
(* The next node of n, which has no left child *)
NextOf(t, key, sub, n, r, k) ==
    /\ t.kid["right"][n] = r /\ r \in sub[t.root] /\ k \in sub[r] /\ t.kid["left"][k] = Nil
    /\ \A x \in sub[r] \ {k} : Off("right", key[x], key[k])

(* Its key is between those of both sides, so it may be there. *)
LEMMA NextReplaces ==
  ASSUME NEW t, NEW key, NEW sub, Shape(t, key, sub), NEW n \in sub[t.root],
         NEW r, NEW k, NextOf(t, key, sub, n, r, k),
         NEW child, NEW p, NEW d, NEW u, NEW sub2,
         Splice(t, key, sub, k, "right", child, p, d, u, sub2)
  PROVE  Replaces(u, key, sub2, n, k)
<1>1. /\ t.kid["right"][n] = r /\ r \in sub[t.root] /\ k \in sub[r]
      /\ \A x \in sub[r] \ {k} : Off("right", key[x], key[k])
  BY DEF NextOf
<1>2. /\ Shape(u, key, sub2) /\ sub2[u.root] = sub[t.root] \ {k}
      /\ sub2 \in [Places -> SUBSET Nodes] /\ \A m \in Places : sub2[m] = sub[m] \ {k}
      /\ t.kid["right"][k] = child
      /\ p # Nil => t.kid[d][p] = k
  BY DEF Splice, ChildOf, Without, Single
<1>3. "left" \in Dirs /\ "right" \in Dirs /\ Other["left"] = "right" /\ Other["right"] = "left"
  BY DEF Dirs, Other
<1>l. PICK l : l = t.kid["left"][n]
  OBVIOUS
<1>4. Family(t, key, sub, n, "right", r, l)
  BY <1>1, <1>3, <1>l, ShapeOfNode
<1>5. Family(t, key, sub, n, "left", l, r)
  BY <1>1, <1>3, <1>l, ShapeOfNode
<1>6. /\ n \notin sub[r] /\ sub[r] \cap sub[l] = {} /\ n \in Nodes /\ l \in Places /\ r \in Places
      /\ sub[r] \subseteq sub[n] /\ k \in sub[t.root] /\ k \in sub[n] /\ sub[t.root] \subseteq Nodes
      /\ \A m \in sub[l] : Off("left", key[m], key[n])
      /\ Off("right", key[k], key[n]) /\ k # n /\ l # k
      /\ l # Nil => l \in sub[l]
  <2>1. /\ n \notin sub[r] /\ sub[r] \cap sub[l] = {} /\ n \in Nodes /\ l \in Places /\ r \in Places
        /\ sub[r] \subseteq sub[n] /\ k \in sub[n] /\ sub[n] \subseteq sub[t.root]
        /\ \A m \in sub[l] : Off("left", key[m], key[n])
        /\ Off("right", key[k], key[n]) /\ k # n /\ (l # Nil => l \in sub[t.root])
    BY <1>1, <1>4, <1>5 DEF Family
  <2>2. l # Nil => l \in sub[l]
    BY <2>1, ShapeOfMember
  <2>3. k # Nil /\ sub[t.root] \subseteq Nodes
    BY <2>1, ShapeOfMember, NodesAssumption
  <2>4. l # k
    BY <1>1, <2>1, <2>2, <2>3
  <2> QED
    BY <2>1, <2>2, <2>3, <2>4
<1>7. sub[child] \subseteq sub[k] /\ sub[k] \subseteq sub[r] /\ k \notin sub[child] /\ child \in Places
  <2>1. Family(t, key, sub, k, "right", child, t.kid[Other["right"]][k])
    BY <1>2, <1>3, <1>6, ShapeOfNode
  <2>2. sub[k] \subseteq sub[r]
    BY <1>1, BelowBelow
  <2> QED
    BY <2>1, <2>2 DEF Family
<1>8. ASSUME NEW m \in sub2[u.root], NEW e \in Dirs, n \in sub2[u.kid[e][m]]
      PROVE  Off(e, key[k], key[m])
  <2>1. m \in sub[t.root] /\ m # k
    BY <1>2
  <2>2. u.kid[e][m] = child \/ u.kid[e][m] = t.kid[e][m]
    BY <2>1, SpliceKids
  <2>3. u.kid[e][m] # child
    BY <1>2, <1>6, <1>7, <1>8
  <2>c. PICK c : c = t.kid[e][m]
    OBVIOUS
  <2>4. Family(t, key, sub, m, e, c, t.kid[Other[e]][m])
    BY <2>1, <2>c, ShapeOfNode
  <2>5. n \in sub[c] /\ c \in Places /\ c # Nil
    <3>1. c \in Places
      BY <2>4 DEF Family
    <3>2. n \in sub[c]
      BY <1>2, <1>8, <2>2, <2>3, <2>c, <3>1
    <3> QED
      BY <3>1, <3>2 DEF Shape
  <2>6. c \in sub[t.root]
    BY <2>4, <2>5 DEF Family
  <2>7. k \in sub[c]
    BY <1>6, <2>5, <2>6, BelowBelow
  <2> QED
    BY <2>4, <2>7 DEF Family
<1>9. \A i \in Nodes : key[i] \in Int
  BY DEF Shape, Keys
<1>10. ASSUME NEW m \in sub2[u.kid["left"][n]] PROVE Off("left", key[m], key[k])
  <2>1. u.kid["left"][n] = l
    <3>1. n # p \/ d # "left"
      BY <1>2, <1>6, <1>l, NodesAssumption
    <3> QED
      BY <1>3, <1>6, <1>l, <3>1, SpliceKids
  <2>2. m \in sub[l] /\ m \in Nodes
    BY <1>2, <1>6, <1>10, <2>1
  <2>3. Off("left", key[n], key[k])
    BY <1>3, <1>6, <1>9, OffFacts
  <2>4. key[m] \in Int /\ key[n] \in Int /\ key[k] \in Int /\ Off("left", key[m], key[n])
    BY <1>6, <1>9, <2>2
  <2> QED
    BY <1>3, <2>3, <2>4, OffFacts
<1>11. ASSUME NEW m \in sub2[u.kid["right"][n]] PROVE Off("right", key[m], key[k])
  <2>1. u.kid["right"][n] = child \/ u.kid["right"][n] = r
    BY <1>1, <1>3, <1>6, SpliceKids
  <2>2. m \in sub[r] \ {k}
    BY <1>2, <1>6, <1>7, <1>11, <2>1
  <2> QED
    BY <1>1, <2>2
<1>12. \A e \in Dirs : \A m \in sub2[u.kid[e][n]] : Off(e, key[m], key[k])
  <2> SUFFICES ASSUME NEW e \in Dirs PROVE \A m \in sub2[u.kid[e][n]] : Off(e, key[m], key[k])
    OBVIOUS
  <2>1. CASE e = "left"
    BY <1>10, <2>1
  <2>2. CASE e = "right"
    BY <1>11, <2>2
  <2> QED
    BY <2>1, <2>2 DEF Dirs
<1> QED
  BY <1>2, <1>6, <1>8, <1>12 DEF Replaces

(* RB_REMOVE of a node with two children takes out the next and puts it there. *)
LEMMA RemoveInnerTakesPlace ==
  ASSUME NEW t, NEW n
  PROVE  LET r     == t.kid.right[n]
             k     == Outermost(t, r, "left")
             child == t.kid.right[k]
             p     == t.parent[k]
             u     == TakePlace(SpliceOut(t, k, p, child), n, k)
         IN  RemoveInner(t, n) = IF t.red[k] THEN u ELSE RemoveColor(u, IF p = n THEN k ELSE p, child)
BY DEF RemoveInner, SpliceOut, TakePlace, TakeLinks, Adopt

(* It keeps a red-black search tree. *)
LEMMA RemoveInnerSound ==
  ASSUME NEW t, NEW key, NEW sub, NEW h, Coloured(t, key, sub, h), NEW n \in sub[t.root],
         t.kid.right[n] # Nil
  PROVE  Sound(RemoveInner(t, n), key, sub[t.root] \ {n})
<1>r. PICK r : r = t.kid.right[n]
  OBVIOUS
<1>k. PICK k : k = Outermost(t, r, "left")
  OBVIOUS
<1>child. PICK child : child = t.kid.right[k]
  OBVIOUS
<1>p. PICK p : p = t.parent[k]
  OBVIOUS
<1>t1. PICK t1 : t1 = SpliceOut(t, k, p, child)
  OBVIOUS
<1>u. PICK u : u = TakePlace(t1, n, k)
  OBVIOUS
<1>1. RemoveInner(t, n) = IF t.red[k] THEN u ELSE RemoveColor(u, IF p = n THEN k ELSE p, child)
  BY <1>r, <1>k, <1>child, <1>p, <1>t1, <1>u, RemoveInnerTakesPlace
<1>2. Shape(t, key, sub)
  BY DEF Coloured
<1>3. "left" \in Dirs /\ "right" \in Dirs /\ Other["left"] = "right" /\ Other["right"] = "left"
  BY DEF Dirs, Other
<1>4. r \in sub[t.root] /\ n \in Nodes
  BY <1>2, <1>3, <1>r, ShapeOfKid, ShapeOfMember
<1>5. Extreme(key, sub[r], k, "left") /\ t.kid["left"][k] = Nil
  BY <1>2, <1>3, <1>4, <1>k, OutermostFacts
<1>6. NextOf(t, key, sub, n, r, k)
  BY <1>3, <1>4, <1>5, <1>r DEF NextOf, Extreme
<1>7. /\ k \in sub[t.root] /\ k \in Nodes /\ k # n /\ n \notin sub[r] /\ sub[r] \subseteq sub[n]
      /\ k \in sub[r]
  <2>1. Family(t, key, sub, n, "right", r, t.kid[Other["right"]][n])
    BY <1>2, <1>3, <1>r, ShapeOfNode
  <2>2. n \notin sub[r] /\ sub[r] \subseteq sub[n] /\ sub[n] \subseteq sub[t.root]
    BY <2>1 DEF Family
  <2>3. k \in sub[r]
    BY <1>6 DEF NextOf
  <2> QED
    BY <1>2, <2>2, <2>3, ShapeOfMember
<1>8. Single(t, k, "right", child, p)
  BY <1>3, <1>5, <1>child, <1>p DEF Single
<1>9. PICK d, sub1 : Splice(t, key, sub, k, "right", child, p, d, t1, sub1)
  BY <1>2, <1>7, <1>8, <1>t1, SpliceExists
<1>U. PICK U : U = sub1[t1.root]
  OBVIOUS
<1>10. Shape(t1, key, sub1) /\ U = sub[t.root] \ {k}
  BY <1>9, <1>U DEF Splice, ChildOf
<1>11. Replaces(t1, key, sub1, n, k)
  BY <1>2, <1>6, <1>9, NextReplaces
<1>12. n \in U /\ k \notin U
  BY <1>7, <1>10
<1>13. Replaced(t1, u, U, n, k)
  <2>1. n \in sub1[t1.root] /\ k \notin sub1[t1.root] /\ k \in Nodes
    BY <1>7, <1>12, <1>U
  <2>2. Replaced(t1, TakePlace(t1, n, k), sub1[t1.root], n, k)
    BY <1>10, <2>1, TakePlaceReplaces
  <2> QED
    BY <1>u, <1>U, <2>2
<1>14. PICK sub2 : Swapped(sub1, sub2, n, k)
  <2>1. sub1 \in [Places -> SUBSET Nodes]
    BY <1>10 DEF Shape
  <2> QED
    BY <1>4, <1>7, <2>1, SwappedExists
<1>15. Heights(h)
  BY DEF Coloured
<1>16. PICK h2 : HeightsSwapped(h, h2, n, k)
  BY <1>4, <1>7, <1>15, HeightsSwappedExists
<1>17. sub2[u.root] = sub[t.root] \ {n}
  <2>1. sub2[u.root] = (U \ {n}) \cup {k}
    BY <1>10, <1>11, <1>13, <1>14, <1>U, ShapeOfReplaced
  <2> QED
    BY <1>7, <1>10, <2>1
<1>18. CASE t.red[k]
  <2>1. Coloured(t1, key, sub1, h)
    BY <1>9, <1>18, SpliceRed
  <2>2. Coloured(u, key, sub2, h2)
    BY <1>11, <1>13, <1>14, <1>16, <1>U, <2>1, ReplacedColoured
  <2> QED
    BY <1>1, <1>17, <1>18, <2>2 DEF Sound
<1>19. CASE ~t.red[k]
  <2>1. Shrinking(t1, key, sub1, h, p, child)
    BY <1>9, <1>19, SpliceBlack
  <2>2. p \in U \cup {Nil} /\ child \in U \cup {Nil} /\ child # n
    <3>1. Family(t, key, sub, k, "right", child, t.kid[Other["right"]][k])
      BY <1>2, <1>3, <1>7, <1>child, ShapeOfNode
    <3>2. Descends(t, sub, k, p)
      BY <1>2, <1>7, <1>p, ShapeOfParent
    <3>3. sub[k] \subseteq sub[r]
      BY <1>2, <1>4, <1>7, BelowBelow
    <3>4. /\ child # k /\ (child # Nil => child \in sub[t.root]) /\ sub[child] \subseteq sub[k]
      BY <3>1 DEF Family
    <3>5. child # Nil => child \in sub[child]
      BY <1>2, <3>4, ShapeOfMember
    <3>6. child # n
      BY <1>4, <1>7, <3>3, <3>4, <3>5, NodesAssumption
    <3>7. p # k /\ (p # Nil => p \in sub[t.root])
      BY <1>7, <3>2, NodesAssumption DEF Descends
    <3> QED
      BY <1>10, <3>4, <3>6, <3>7
  <2>3. Shrinking(u, key, sub2, h2, Ren(n, k, p), Ren(n, k, child))
    BY <1>11, <1>13, <1>14, <1>16, <1>U, <2>1, <2>2, ReplacedShrinking
  <2>4. Ren(n, k, child) = child /\ Ren(n, k, p) = IF p = n THEN k ELSE p
    BY <2>2 DEF Ren
  <2>5. Sound(RemoveColor(u, Ren(n, k, p), Ren(n, k, child)), key, sub2[u.root])
    BY <2>3, RemoveColorColours
  <2> QED
    BY <1>1, <1>17, <1>19, <2>4, <2>5
<1> QED
  BY <1>18, <1>19
-----------------------------------------------------------------------------
(* A tree of the same nodes with the same fields *)
Agree(t, u, U) ==
    /\ u \in Trees /\ u.root = t.root
    /\ \A m \in U : /\ u.parent[m] = t.parent[m] /\ u.red[m] = t.red[m]
                    /\ \A d \in Dirs : u.kid[d][m] = t.kid[d][m]

(* The fields of other nodes do not matter. *)
LEMMA AgreeColoured ==
  ASSUME NEW t, NEW key, NEW sub, NEW h, Coloured(t, key, sub, h),
         NEW u, Agree(t, u, sub[t.root])
  PROVE  Coloured(u, key, sub, h)
<1>U. PICK U : U = sub[t.root]
  OBVIOUS
<1>1. /\ u \in Trees /\ u.root = t.root
      /\ \A m \in U : /\ u.parent[m] = t.parent[m] /\ u.red[m] = t.red[m]
                      /\ \A d \in Dirs : u.kid[d][m] = t.kid[d][m]
  BY <1>U DEF Agree
<1>2. /\ Shape(t, key, sub) /\ Heights(h) /\ ~IsRed(t, t.root)
      /\ \A m \in U : Weighs(t, h, m) /\ Quiet(t, Nil, m)
  BY <1>U DEF Coloured
<1>3. ASSUME NEW m \in U, NEW d \in Dirs
      PROVE  u.kid[d][m] = t.kid[d][m] /\ t.kid[d][m] \in U \cup {Nil}
  BY <1>1, <1>2, <1>U, ShapeOfKid
<1>4. ASSUME NEW m \in U PROVE NodeOK(u, key, sub, m)
  <2>1. NodeOK(t, key, sub, m)
    BY <1>2, <1>U DEF Shape
  <2>2. \A d \in Dirs : SlotOK(u, key, sub, m, d)
    <3> SUFFICES ASSUME NEW d \in Dirs PROVE SlotOK(u, key, sub, m, d)
      OBVIOUS
    <3>1. SlotOK(t, key, sub, m, d)
      BY <2>1 DEF NodeOK
    <3> QED
      BY <1>1, <1>3, <1>U, <3>1 DEF SlotOK
  <2>3. Hangs(u, sub, m)
    BY <1>1, <1>U, <2>1 DEF Hangs, NodeOK
  <2>4. "left" \in Dirs /\ "right" \in Dirs
    BY DEF Dirs
  <2> QED
    BY <1>1, <1>3, <2>1, <2>2, <2>3, <2>4 DEF NodeOK
<1>5. Shape(u, key, sub)
  BY <1>1, <1>2, <1>4, <1>U DEF Shape
<1>6. ASSUME NEW m \in U PROVE Weighs(u, h, m) /\ Quiet(u, Nil, m)
  <2>1. Weighs(t, h, m) /\ Quiet(t, Nil, m)
    BY <1>2
  <2>2. Weighs(u, h, m)
    BY <1>1, <1>3, <2>1 DEF Weighs
  <2>3. Quiet(u, Nil, m)
    BY <1>1, <1>3, <2>1 DEF Quiet, IsRed
  <2> QED
    BY <2>2, <2>3
<1>7. ~IsRed(u, u.root)
  <2>1. t.root # Nil => t.root \in U
    BY <1>2, <1>U DEF Shape
  <2> QED
    BY <1>1, <1>2, <2>1 DEF IsRed
<1> QED
  BY <1>1, <1>2, <1>5, <1>6, <1>7, <1>U DEF Coloured

(* RB_REMOVE leaves a red-black search tree of the others. *)
LEMMA RemoveSound ==
  ASSUME NEW t, NEW key, NEW U, Sound(t, key, U), NEW n \in U
  PROVE  Sound(Remove(t, n), key, U \ {n})
<1>1. PICK sub, h : Coloured(t, key, sub, h) /\ sub[t.root] = U
  BY DEF Sound
<1>u. PICK u : u = IF Nil \in {t.kid[d][n] : d \in Dirs} THEN RemoveOuter(t, n) ELSE RemoveInner(t, n)
  OBVIOUS
<1>2. Sound(u, key, U \ {n})
  <2>1. CASE t.kid.left[n] = Nil \/ t.kid.right[n] = Nil
    <3>1. u = RemoveOuter(t, n)
      BY <1>u, <2>1 DEF Dirs
    <3> QED
      BY <1>1, <2>1, <3>1, RemoveOuterSound
  <2>2. CASE t.kid.left[n] # Nil /\ t.kid.right[n] # Nil
    <3>1. u = RemoveInner(t, n)
      BY <1>u, <2>2 DEF Dirs
    <3> QED
      BY <1>1, <2>2, <3>1, RemoveInnerSound
  <2> QED
    BY <2>1, <2>2
<1>3. PICK sub2, h2 : Coloured(u, key, sub2, h2) /\ sub2[u.root] = U \ {n}
  BY <1>2 DEF Sound
<1>v. PICK v : v = Forget(u, n)
  OBVIOUS
<1>4. n \in Nodes /\ u \in Trees /\ sub2[u.root] \subseteq Nodes
  <2>1. n \in Nodes
    BY <1>1, ShapeOfMember DEF Coloured
  <2>2. u \in Trees /\ Shape(u, key, sub2)
    BY <1>3 DEF Coloured, Shape
  <2> QED
    BY <2>1, <2>2, ShapeOfMember
<1>5. Agree(u, v, sub2[u.root])
  BY <1>3, <1>4, <1>v DEF Agree, Forget, Trees, Dirs
<1>6. Coloured(v, key, sub2, h2) /\ v.root = u.root
  BY <1>3, <1>5, AgreeColoured DEF Agree
<1> QED
  BY <1>3, <1>6, <1>u, <1>v DEF Sound, Remove

(* RB_INIT makes a red-black search tree of no nodes. *)
LEMMA EmptySound ==
  ASSUME NEW key \in Keys
  PROVE  Sound(EmptyTree, key, {})
<1>sub. PICK sub : sub = [m \in Places |-> {}]
  OBVIOUS
<1>h. PICK h : h = [m \in Places |-> 0]
  OBVIOUS
<1>1. EmptyTree \in Trees /\ EmptyTree.root = Nil
  BY DEF EmptyTree, Trees
<1>2. /\ sub \in [Places -> SUBSET Nodes] /\ sub[Nil] = {}
      /\ h \in [Places -> Nat] /\ h[Nil] = 0
  BY <1>sub, <1>h DEF Places
<1>3. Coloured(EmptyTree, key, sub, h)
  BY <1>1, <1>2 DEF Coloured, Shape, Heights, IsRed
<1> QED
  BY <1>1, <1>2, <1>3 DEF Sound

-----------------------------------------------------------------------------
(* What Under and Blacks compute *)
Steady(t, A) == \A m \in A, d \in Dirs : t.kid[d][m] # Nil => t.kid[d][m] \in A

Reach(t, n) == {x \in Nodes : \A A \in SUBSET Nodes : n \in A /\ Steady(t, A) => x \in A}

ReachOf(t, k) == IF k = Nil THEN {} ELSE Reach(t, k)

(* What is reached from a node: itself and what is reached from its children *)
LEMMA ReachUnfolds ==
  ASSUME NEW t \in Trees, NEW n \in Nodes
  PROVE  ReachOf(t, n) = {n} \cup ReachOf(t, t.kid.left[n]) \cup ReachOf(t, t.kid.right[n])
<1>l. PICK l : l = t.kid.left[n]
  OBVIOUS
<1>r. PICK r : r = t.kid.right[n]
  OBVIOUS
<1>L. PICK L : L = ReachOf(t, l)
  OBVIOUS
<1>R. PICK R : R = ReachOf(t, r)
  OBVIOUS
<1>0. Dirs = {"left", "right"}
  BY DEF Dirs
<1>1. l \in Places /\ r \in Places
  BY <1>0, <1>l, <1>r, FieldsTyped
<1>e. /\ L = (IF l = Nil THEN {} ELSE Reach(t, l)) /\ R = (IF r = Nil THEN {} ELSE Reach(t, r))
      /\ ReachOf(t, n) = Reach(t, n)
  BY <1>L, <1>R, NodesAssumption DEF ReachOf
<1>2. ASSUME NEW m \in Nodes
      PROVE  /\ Steady(t, Reach(t, m)) /\ m \in Reach(t, m) /\ Reach(t, m) \subseteq Nodes
  <2>1. m \in Reach(t, m) /\ Reach(t, m) \subseteq Nodes
    BY DEF Reach
  <2>2. ASSUME NEW x \in Reach(t, m), NEW d \in Dirs, t.kid[d][x] # Nil
        PROVE  t.kid[d][x] \in Reach(t, m)
    <3>1. x \in Nodes /\ t.kid[d][x] \in Nodes
      BY <2>2, FieldsTyped DEF Reach, Places
    <3>2. \A A \in SUBSET Nodes : m \in A /\ Steady(t, A) => t.kid[d][x] \in A
      BY <2>2 DEF Reach, Steady
    <3> QED
      BY <3>1, <3>2 DEF Reach
  <2> QED
    BY <2>1, <2>2 DEF Steady
<1>3. L \subseteq Reach(t, n) /\ R \subseteq Reach(t, n)
  <2>1. ASSUME NEW m \in Nodes, m = l \/ m = r, m # Nil PROVE Reach(t, m) \subseteq Reach(t, n)
    <3>1. \A A \in SUBSET Nodes : n \in A /\ Steady(t, A) => m \in A
      BY <1>0, <1>l, <1>r, <2>1 DEF Steady
    <3> QED
      BY <3>1 DEF Reach
  <2> QED
    BY <1>1, <1>e, <2>1 DEF Places
<1>A. PICK A : A = {n} \cup L \cup R
  OBVIOUS
<1>4. A \subseteq Nodes /\ n \in A
  BY <1>1, <1>2, <1>e, <1>A DEF Places
<1>5. Steady(t, A)
  <2>1. (l # Nil => l \in A) /\ (r # Nil => r \in A)
    BY <1>1, <1>2, <1>e, <1>A DEF Places
  <2>2. ASSUME NEW x \in A, NEW d \in Dirs, t.kid[d][x] # Nil PROVE t.kid[d][x] \in A
    <3>1. CASE x = n
      BY <1>0, <1>l, <1>r, <2>1, <2>2, <3>1
    <3>2. CASE x \in L
      <4>1. l # Nil /\ L = Reach(t, l) /\ l \in Nodes
        BY <1>1, <1>e, <3>2 DEF Places
      <4>2. Steady(t, L)
        BY <1>2, <4>1
      <4> QED
        BY <1>A, <2>2, <3>2, <4>2 DEF Steady
    <3>3. CASE x \in R
      <4>1. r # Nil /\ R = Reach(t, r) /\ r \in Nodes
        BY <1>1, <1>e, <3>3 DEF Places
      <4>2. Steady(t, R)
        BY <1>2, <4>1
      <4> QED
        BY <1>A, <2>2, <3>3, <4>2 DEF Steady
    <3> QED
      BY <1>A, <3>1, <3>2, <3>3
  <2> QED
    BY <2>2 DEF Steady
<1>6. Reach(t, n) \subseteq A
  BY <1>4, <1>5 DEF Reach
<1>7. n \in Reach(t, n)
  BY <1>2
<1> QED
  BY <1>3, <1>6, <1>7, <1>A, <1>e, <1>l, <1>r, <1>L, <1>R

(* Under computes the same. *)
LEMMA UnderUnfolds ==
  ASSUME NEW t \in Trees
  PROVE  /\ Under(t, Nil) = {}
         /\ \A n \in Nodes : Under(t, n) = {n} \cup Under(t, t.kid.left[n]) \cup Under(t, t.kid.right[n])
<1> DEFINE L == CHOOSE f : f = [m \in Nodes \cup {Nil} |->
                    IF m = Nil THEN {} ELSE {m} \cup f[t.kid.left[m]] \cup f[t.kid.right[m]]]
<1>f. PICK f : f = [m \in Nodes \cup {Nil} |-> ReachOf(t, m)]
  OBVIOUS
<1>1. \A m \in Nodes : t.kid.left[m] \in Nodes \cup {Nil} /\ t.kid.right[m] \in Nodes \cup {Nil}
  BY FieldsTyped DEF Dirs, Places
<1>2. \A m \in Nodes \cup {Nil} :
          f[m] = IF m = Nil THEN {} ELSE {m} \cup f[t.kid.left[m]] \cup f[t.kid.right[m]]
  <2>1. f[Nil] = {}
    BY <1>f DEF ReachOf
  <2>2. ASSUME NEW m \in Nodes PROVE f[m] = {m} \cup f[t.kid.left[m]] \cup f[t.kid.right[m]]
    <3>1. ReachOf(t, m) = {m} \cup ReachOf(t, t.kid.left[m]) \cup ReachOf(t, t.kid.right[m])
      BY ReachUnfolds
    <3> QED
      BY <1>1, <1>f, <3>1
  <2> QED
    BY <2>1, <2>2
<1>3. f = [m \in Nodes \cup {Nil} |->
               IF m = Nil THEN {} ELSE {m} \cup f[t.kid.left[m]] \cup f[t.kid.right[m]]]
  BY <1>2, <1>f
<1>4. L = [m \in Nodes \cup {Nil} |->
               IF m = Nil THEN {} ELSE {m} \cup L[t.kid.left[m]] \cup L[t.kid.right[m]]]
  BY <1>3
<1>5. \A m : Under(t, m) = L[m]
  BY DEF Under
<1> HIDE DEF L
<1>6. ASSUME NEW n \in Nodes PROVE L[n] = {n} \cup L[t.kid.left[n]] \cup L[t.kid.right[n]]
  BY <1>4, NodesAssumption
<1>7. L[Nil] = {}
  BY <1>4
<1> QED
  BY <1>5, <1>6, <1>7

(* In a tree the nodes Under a node are those that the witness has below it ... *)
LEMMA UnderIsSub ==
  ASSUME NEW t, NEW key, NEW sub, Shape(t, key, sub), NEW n \in sub[t.root] \cup {Nil}
  PROVE  Under(t, n) = sub[n]
<1>1. t \in Trees /\ sub[Nil] = {}
  BY DEF Shape
<1>P. PICK P : P = {m \in Nodes : Under(t, m) = sub[m]}
  OBVIOUS
<1>2. ASSUME NEW c \in sub[t.root], \A d \in Dirs : t.kid[d][c] # Nil => t.kid[d][c] \in P
      PROVE  c \in P
  <2>1. c \in Nodes /\ sub[c] = {c} \cup sub[t.kid["left"][c]] \cup sub[t.kid["right"][c]]
    BY ShapeOfMember DEF Shape, NodeOK
  <2>2. \A d \in Dirs : Under(t, t.kid[d][c]) = sub[t.kid[d][c]]
    BY <1>1, <1>2, <1>P, UnderUnfolds
  <2>3. Under(t, t.kid["left"][c]) = sub[t.kid["left"][c]] /\ Under(t, t.kid["right"][c]) = sub[t.kid["right"][c]]
    BY <2>2 DEF Dirs
  <2>4. Under(t, c) = {c} \cup Under(t, t.kid["left"][c]) \cup Under(t, t.kid["right"][c])
    BY <1>1, <2>1, UnderUnfolds
  <2> QED
    BY <1>P, <2>1, <2>3, <2>4
<1>3. sub[t.root] \subseteq P
  BY <1>2, TreeInduction
<1> QED
  BY <1>1, <1>3, <1>P, UnderUnfolds

(* ... and Blacks is its number of black ones. *)
LEMMA BlacksIsHeight ==
  ASSUME NEW t, NEW key, NEW sub, NEW h, Coloured(t, key, sub, h), NEW n \in sub[t.root] \cup {Nil}
  PROVE  Blacks(t, n) = h[n]
<1>U. PICK U : U = sub[t.root]
  OBVIOUS
<1>1. /\ Shape(t, key, sub) /\ h[Nil] = 0 /\ \A m \in Places : h[m] \in Nat
      /\ \A m \in U : Weighs(t, h, m)
  BY <1>U DEF Coloured, Heights
<1>2. Under(t, t.root) = U
  <2>1. t.root \in sub[t.root] \cup {Nil}
    BY <1>1 DEF Shape
  <2> QED
    BY <1>1, <1>U, <2>1, UnderIsSub
<1> DEFINE L == CHOOSE f : f = [m \in Under(t, t.root) \cup {Nil} |->
                    IF m = Nil THEN 0 ELSE f[t.kid.left[m]] + IF t.red[m] THEN 0 ELSE 1]
<1>f. PICK f : f = [m \in U \cup {Nil} |-> h[m]]
  OBVIOUS
<1>3. ASSUME NEW m \in U
      PROVE  /\ m \in Nodes /\ m # Nil /\ t.kid.left[m] \in U \cup {Nil}
             /\ h[m] = h[t.kid.left[m]] + IF t.red[m] THEN 0 ELSE 1
  <2>1. m \in Nodes /\ m # Nil /\ U \subseteq Nodes
    BY <1>1, <1>U, ShapeOfMember, NodesAssumption
  <2>2. t.kid["left"][m] \in U \cup {Nil} /\ "left" \in Dirs
    BY <1>1, <1>U, ShapeOfKid DEF Dirs
  <2>3. h[t.kid["left"][m]] \in Nat
    BY <1>1, <2>1, <2>2 DEF Places
  <2>4. Weighs(t, h, m)
    BY <1>1
  <2>5. (t.red[m] => h[m] = h[t.kid["left"][m]]) /\ (~t.red[m] => h[m] = h[t.kid["left"][m]] + 1)
    BY <2>2, <2>4 DEF Weighs
  <2> QED
    BY <2>1, <2>2, <2>3, <2>5
<1>4. \A m \in U \cup {Nil} : f[m] = IF m = Nil THEN 0 ELSE f[t.kid.left[m]] + IF t.red[m] THEN 0 ELSE 1
  BY <1>1, <1>3, <1>f
<1>5. f = [m \in U \cup {Nil} |-> IF m = Nil THEN 0 ELSE f[t.kid.left[m]] + IF t.red[m] THEN 0 ELSE 1]
  BY <1>4, <1>f
<1>6. L = [m \in U \cup {Nil} |-> IF m = Nil THEN 0 ELSE L[t.kid.left[m]] + IF t.red[m] THEN 0 ELSE 1]
  BY <1>2, <1>5
<1>7. \A m : Blacks(t, m) = L[m]
  BY DEF Blacks
<1> HIDE DEF L
<1>8. L[Nil] = 0
  BY <1>6
<1>9. \A m \in U : L[m] = L[t.kid.left[m]] + IF t.red[m] THEN 0 ELSE 1
  BY <1>3, <1>6
<1>P. PICK P : P = {m \in Nodes : L[m] = h[m]}
  OBVIOUS
<1>10. ASSUME NEW c \in sub[t.root], \A d \in Dirs : t.kid[d][c] # Nil => t.kid[d][c] \in P
       PROVE  c \in P
  <2>1. t.kid.left[c] # Nil => t.kid.left[c] \in P
    BY <1>10 DEF Dirs
  <2>2. L[t.kid.left[c]] = h[t.kid.left[c]]
    BY <1>1, <1>8, <1>P, <2>1
  <2> QED
    BY <1>3, <1>9, <1>P, <1>U, <2>2
<1>11. U \subseteq P
  BY <1>1, <1>10, <1>U, TreeInduction
<1> QED
  BY <1>1, <1>7, <1>8, <1>11, <1>P, <1>U

(* So the witnesses say that the tree is red-black and ordered. *)
LEMMA ColouredIsRedBlack ==
  ASSUME NEW t, NEW key, NEW sub, NEW h, Coloured(t, key, sub, h)
  PROVE  RedBlack(t, key) /\ Under(t, t.root) = sub[t.root]
<1>U. PICK U : U = sub[t.root]
  OBVIOUS
<1>1. Shape(t, key, sub) /\ ~IsRed(t, t.root) /\ \A m \in U : Weighs(t, h, m) /\ Quiet(t, Nil, m)
  BY <1>U DEF Coloured
<1>2. Under(t, t.root) = U
  <2>1. t.root \in sub[t.root] \cup {Nil}
    BY <1>1 DEF Shape
  <2> QED
    BY <1>1, <1>U, <2>1, UnderIsSub
<1>3. ASSUME NEW n \in U, NEW d \in Dirs
      PROVE  /\ t.kid[d][n] # Nil => t.parent[t.kid[d][n]] = n
             /\ \A m \in Under(t, t.kid[d][n]) : Off(d, key[m], key[n])
             /\ Blacks(t, t.kid[d][n]) = h[t.kid[d][n]]
             /\ t.red[n] => ~IsRed(t, t.kid[d][n])
  <2>k. PICK k : k = t.kid[d][n]
    OBVIOUS
  <2>1. Family(t, key, sub, n, d, k, t.kid[Other[d]][n])
    BY <1>1, <1>U, <2>k, ShapeOfNode
  <2>2. k \in sub[t.root] \cup {Nil} /\ (k # Nil => t.parent[k] = n) /\ \A m \in sub[k] : Off(d, key[m], key[n])
    BY <2>1 DEF Family
  <2>3. Under(t, k) = sub[k]
    BY <1>1, <2>2, UnderIsSub
  <2>4. Blacks(t, k) = h[k]
    BY <2>2, BlacksIsHeight
  <2>5. t.red[n] => ~IsRed(t, k)
    <3>1. Quiet(t, Nil, n)
      BY <1>1
    <3> QED
      BY <2>k, <3>1 DEF Quiet, IsRed
  <2> QED
    BY <2>2, <2>3, <2>4, <2>5, <2>k
<1>4. "left" \in Dirs /\ "right" \in Dirs
  BY DEF Dirs
<1>5. Linked(t)
  BY <1>2, <1>3 DEF Linked
<1>6. ASSUME NEW n \in U
      PROVE  /\ \A m \in Under(t, t.kid.left[n]) : key[m] < key[n]
             /\ \A m \in Under(t, t.kid.right[n]) : key[m] > key[n]
  <2>0. n \in Nodes /\ \A m \in Nodes : key[m] \in Int
    BY <1>1, <1>U, ShapeOfMember DEF Shape, Keys
  <2>1. t.kid["left"][n] \in sub[t.root] \cup {Nil} /\ t.kid["right"][n] \in sub[t.root] \cup {Nil}
    BY <1>1, <1>4, <1>U, ShapeOfKid
  <2>2. Under(t, t.kid["left"][n]) \subseteq Nodes /\ Under(t, t.kid["right"][n]) \subseteq Nodes
    <3>1. ASSUME NEW k \in sub[t.root] \cup {Nil} PROVE Under(t, k) \subseteq Nodes
      BY <1>1, UnderIsSub, ShapeOfMember DEF Shape
    <3> QED
      BY <2>1, <3>1
  <2>3. \A m \in Under(t, t.kid["left"][n]) : Off("left", key[m], key[n])
    BY <1>3, <1>4
  <2>4. \A m \in Under(t, t.kid["right"][n]) : Off("right", key[m], key[n])
    BY <1>3, <1>4
  <2> QED
    BY <2>0, <2>2, <2>3, <2>4 DEF Off
<1>7. Ordered(t, key)
  BY <1>2, <1>6 DEF Ordered
<1>8. ASSUME NEW n \in U PROVE Blacks(t, t.kid.left[n]) = Blacks(t, t.kid.right[n])
  <2>1. Weighs(t, h, n)
    BY <1>1
  <2>l. PICK l : l = h[t.kid["left"][n]]
    OBVIOUS
  <2>r. PICK r : r = h[t.kid["right"][n]]
    OBVIOUS
  <2>2. l = r
    <3>1. l \in Nat /\ r \in Nat
      <4>1. t.kid["left"][n] \in Places /\ t.kid["right"][n] \in Places
        BY <1>1, <1>4, <1>U, ShapeOfKid
      <4>2. \A m \in Places : h[m] \in Nat
        BY DEF Coloured, Heights
      <4> QED
        BY <2>l, <2>r, <4>1, <4>2
    <3>2. /\ t.red[n] => h[n] = l /\ h[n] = r
          /\ ~t.red[n] => h[n] = l + 1 /\ h[n] = r + 1
      BY <1>4, <2>1, <2>l, <2>r DEF Weighs
    <3> QED
      BY <3>1, <3>2
  <2>3. Blacks(t, t.kid["left"][n]) = l /\ Blacks(t, t.kid["right"][n]) = r
    BY <1>3, <1>4, <2>l, <2>r
  <2> QED
    BY <2>2, <2>3
<1>9. Balanced(t)
  BY <1>1, <1>2, <1>3, <1>8 DEF Balanced
<1> QED
  BY <1>2, <1>5, <1>7, <1>9, <1>U DEF RedBlack

-----------------------------------------------------------------------------
(* A node that is not below c is on one side of all that is. *)
Aside(key, A, x, e) == \A y \in A : Off(e, key[x], key[y])

(* The keys below a node are an interval: what is not below it is aside of all. *)
LEMMA Convex ==
  ASSUME NEW t, NEW key, NEW sub, Shape(t, key, sub), NEW c \in sub[t.root],
         NEW x \in sub[t.root], x \notin sub[c]
  PROVE  \E e \in Dirs : Aside(key, sub[c], x, e)
<1> DEFINE F == {A \in SUBSET Nodes : \E a \in sub[t.root] : A = sub[a] /\ c \in sub[a] /\ x \in sub[a]}
<1>1. F \subseteq SUBSET Nodes /\ F # {}
  <2>1. t.root \in sub[t.root]
    BY ShapeOfMember, NodesAssumption DEF Shape
  <2> QED
    BY <2>1, ShapeOfMember
<1>2. PICK B \in F : \A C \in F : C \subseteq B => C = B
  <2> HIDE DEF F
  <2> QED
    BY <1>1, LeastSet
<1>3. PICK a \in sub[t.root] : sub[a] = B /\ c \in sub[a] /\ x \in sub[a]
  OBVIOUS
<1>4. a # c
  BY <1>3
<1>5. PICK f \in Dirs : c \in sub[t.kid[f][a]]
  <2>1. NodeOK(t, key, sub, a)
    BY DEF Shape
  <2> QED
    BY <1>3, <1>4, <2>1 DEF NodeOK, Dirs
<1>g. PICK g : g = Other[f]
  OBVIOUS
<1>k. PICK k : k = t.kid[f][a]
  OBVIOUS
<1>j. PICK j : j = t.kid[g][a]
  OBVIOUS
<1>6. g \in Dirs /\ Other[g] = f
  BY <1>g, OtherFacts
<1>7. Family(t, key, sub, a, f, k, j)
  BY <1>k, <1>j, <1>g, ShapeOfNode
<1>8. Family(t, key, sub, a, g, j, k)
  BY <1>k, <1>j, <1>6, ShapeOfNode
<1>9. k # Nil /\ k \in sub[t.root]
  <2>1. k # Nil
    BY <1>5, <1>k DEF Shape
  <2> QED
    BY <1>7, <2>1 DEF Family
<1>10. x \notin sub[k]
  <2> SUFFICES ASSUME x \in sub[k] PROVE FALSE
    OBVIOUS
  <2>1. sub[k] \in SUBSET Nodes /\ sub[k] \subseteq sub[a] /\ a \in sub[a] /\ a \notin sub[k]
    BY <1>7, <1>9, ShapeOfMember DEF Family
  <2>2. sub[k] \in F
    BY <1>5, <1>9, <1>k, <2>1
  <2> QED
    BY <1>2, <1>3, <2>1, <2>2
<1>11. sub[c] \subseteq sub[k]
  BY <1>5, <1>9, <1>k, BelowBelow
<1>12. /\ \A y \in sub[k] : Off(f, key[y], key[a])
       /\ x = a \/ Off(g, key[x], key[a])
  BY <1>3, <1>7, <1>8, <1>10 DEF Family
<1>13. \A i \in sub[t.root] : key[i] \in Int
  BY ShapeOfMember DEF Shape, Keys
<1>14. sub[k] \subseteq sub[t.root]
  BY <1>9, ShapeOfMember
<1>15. ASSUME NEW y \in sub[c] PROVE Off(g, key[x], key[y])
  <2>1. key[y] \in Int /\ key[x] \in Int /\ key[a] \in Int /\ Off(f, key[y], key[a])
    BY <1>11, <1>12, <1>13, <1>14
  <2>2. Off(g, key[a], key[y])
    BY <1>g, <2>1, OffFacts
  <2> QED
    BY <1>6, <1>12, <2>1, <2>2, OffFacts
<1> QED
  BY <1>6, <1>15 DEF Aside

(* m is the next node after n on side d, or Nil if there is none. *)
Neighbour(key, U, n, d, m) ==
    /\ m = Nil => \A x \in U : ~Off(d, key[x], key[n])
    /\ m # Nil => /\ m \in U /\ Off(d, key[m], key[n])
                  /\ \A x \in U : Off(d, key[x], key[n]) => x = m \/ Off(d, key[x], key[m])

(* Without a child on that side the neighbour is found by going up ... *)
LEMMA ClimbFacts ==
  ASSUME NEW t, NEW key, NEW sub, Shape(t, key, sub), NEW n \in sub[t.root], NEW d \in Dirs,
         t.kid[d][n] = Nil
  PROVE  Neighbour(key, sub[t.root], n, d, Climb(t, n, d))
<1>U. PICK U : U = sub[t.root]
  OBVIOUS
<1>o. PICK o : o = Other[d]
  OBVIOUS
<1>go. PICK go : go = {m \in Nodes : t.parent[m] # Nil /\ t.kid[d][t.parent[m]] = m}
  OBVIOUS
<1>turn. PICK turn : turn = t.parent
  OBVIOUS
<1>J. PICK J : J = {m \in Nodes : m \in U /\ n \in sub[m] /\ \A x \in sub[m] \ {n} : Off(o, key[x], key[n])}
  OBVIOUS
<1>rank. PICK rank : rank = [m \in Nodes |-> Nodes \ sub[m]]
  OBVIOUS
<1>1. /\ n \in Nodes /\ n \in sub[n] /\ U \subseteq Nodes /\ n \in U
      /\ \A i \in U : key[i] \in Int /\ sub[i] \subseteq U
  BY <1>U, ShapeOfMember DEF Shape, Keys
<1>2. rank \in [Nodes -> SUBSET Nodes]
  BY <1>rank
<1>3. o \in Dirs /\ Other[o] = d /\ o # d
  BY <1>o, OtherFacts
<1>4. ASSUME NEW m \in J \cap go
      PROVE  turn[m] \in J /\ rank[turn[m]] \subseteq rank[m] /\ rank[turn[m]] # rank[m]
  <2>p. PICK p : p = t.parent[m]
    OBVIOUS
  <2>1. /\ m \in Nodes /\ m \in U /\ n \in sub[m] /\ \A x \in sub[m] \ {n} : Off(o, key[x], key[n])
        /\ p # Nil /\ t.kid[d][p] = m /\ turn[m] = p
    BY <1>J, <1>go, <1>turn, <2>p
  <2>2. Descends(t, sub, m, p)
    BY <1>U, <2>1, <2>p, ShapeOfParent
  <2>3. p \in U /\ p \in Nodes /\ sub[m] \subseteq sub[p] /\ p \notin sub[m]
    BY <1>U, <2>1, <2>2 DEF Descends
  <2>4. p \in sub[p]
    BY <1>U, <2>3, ShapeOfMember
  <2>j. PICK j : j = t.kid[o][p]
    OBVIOUS
  <2>5. Family(t, key, sub, p, d, m, j)
    BY <1>U, <1>o, <2>1, <2>3, <2>j, ShapeOfNode
  <2>6. Family(t, key, sub, p, o, j, m)
    BY <1>U, <1>3, <2>1, <2>3, <2>j, ShapeOfNode
  <2>7. /\ Off(d, key[n], key[p]) /\ \A x \in sub[j] : Off(o, key[x], key[p])
        /\ sub[p] = {p} \cup sub[m] \cup sub[j]
    BY <2>1, <2>5, <2>6 DEF Family
  <2>8. Off(o, key[p], key[n])
    BY <1>1, <1>o, <2>3, <2>7, OffFacts
  <2>9. ASSUME NEW x \in sub[p] \ {n} PROVE Off(o, key[x], key[n])
    <3>1. key[x] \in Int /\ key[p] \in Int /\ key[n] \in Int
      BY <1>1, <2>3
    <3>2. x = p \/ x \in sub[m] \ {n} \/ Off(o, key[x], key[p])
      BY <2>7
    <3> QED
      BY <1>3, <2>1, <2>8, <3>1, <3>2, OffFacts
  <2>10. p \in J
    BY <1>J, <2>1, <2>3, <2>9
  <2> QED
    BY <1>rank, <2>1, <2>3, <2>4, <2>10
<1>5. n \in J
  <2>1. Family(t, key, sub, n, d, Nil, t.kid[o][n])
    BY <1>o, ShapeOfNode
  <2>2. Family(t, key, sub, n, o, t.kid[o][n], Nil)
    BY <1>3, ShapeOfNode
  <2>3. \A x \in sub[n] \ {n} : Off(o, key[x], key[n])
    BY <2>1, <2>2 DEF Family, Shape
  <2> QED
    BY <1>1, <1>J, <2>3
<1>m. PICK m : m = While(Nodes, go, turn, n)
  OBVIOUS
<1>6. m \in J \ go
  <2>1. J \subseteq Nodes
    BY <1>J
  <2>2. While(Nodes, go, turn, n) \in J \ go
    BY <1>2, <1>4, <1>5, <2>1, SimpleLoopRule
  <2> QED
    BY <1>m, <2>2
<1>p. PICK p : p = t.parent[m]
  OBVIOUS
<1>7. /\ m \in Nodes /\ m \in U /\ n \in sub[m] /\ \A x \in sub[m] \ {n} : Off(o, key[x], key[n])
      /\ p = Nil \/ t.kid[d][p] # m
  BY <1>6, <1>J, <1>go, <1>p
<1>8. Climb(t, n, d) = p
  BY <1>go, <1>turn, <1>m, <1>p DEF Climb
<1>9. Descends(t, sub, m, p)
  BY <1>U, <1>7, <1>p, ShapeOfParent
<1>10. \A x \in U : Off(d, key[x], key[n]) => x \notin sub[m]
  <2> SUFFICES ASSUME NEW x \in U, Off(d, key[x], key[n]), x \in sub[m] PROVE FALSE
    OBVIOUS
  <2>1. x # n
    BY <1>1, OffFacts
  <2>2. Off(o, key[x], key[n]) /\ key[x] \in Int /\ key[n] \in Int
    BY <1>1, <1>7, <2>1
  <2> QED
    BY <1>o, <2>2, OffFacts
<1>11. CASE p = Nil
  <2>1. m = t.root
    BY <1>9, <1>11 DEF Descends
  <2>2. \A x \in U : ~Off(d, key[x], key[n])
    BY <1>10, <1>U, <2>1
  <2> QED
    BY <1>8, <1>11, <1>U, <2>2 DEF Neighbour
<1>12. CASE p # Nil
  <2>1. p \in U /\ p \in Nodes /\ \E f \in Dirs : t.kid[f][p] = m
    BY <1>9, <1>12, <1>U DEF Descends
  <2>2. t.kid[o][p] = m
    <3>1. PICK f \in Dirs : t.kid[f][p] = m
      BY <2>1
    <3>2. f # d
      BY <1>7, <1>12, <3>1
    <3> QED
      BY <1>o, <3>1, <3>2, OtherFacts
  <2>j. PICK j : j = t.kid[d][p]
    OBVIOUS
  <2>3. Family(t, key, sub, p, o, m, j)
    BY <1>U, <1>3, <2>1, <2>2, <2>j, ShapeOfNode
  <2>4. Family(t, key, sub, p, d, j, m)
    BY <1>U, <1>o, <2>1, <2>2, <2>j, ShapeOfNode
  <2>5. /\ Off(o, key[n], key[p]) /\ \A x \in sub[j] : Off(d, key[x], key[p])
        /\ sub[p] = {p} \cup sub[m] \cup sub[j] /\ p \in sub[p]
    BY <1>7, <2>3, <2>4 DEF Family
  <2>6. Off(d, key[p], key[n])
    BY <1>1, <1>3, <2>1, <2>5, OffFacts
  <2>7. ASSUME NEW x \in U, Off(d, key[x], key[n]) PROVE x = p \/ Off(d, key[x], key[p])
    <3>1. x \notin sub[m]
      BY <1>10, <2>7
    <3>2. CASE x \in sub[p]
      BY <2>5, <3>1, <3>2
    <3>3. CASE x \notin sub[p]
      <4>1. PICK e \in Dirs : Aside(key, sub[p], x, e)
        BY <1>U, <2>1, <3>3, Convex
      <4>2. Off(e, key[x], key[p]) /\ Off(e, key[x], key[n])
        BY <1>7, <2>5, <4>1 DEF Aside
      <4>3. e = d
        <5>1. e \in {d, o}
          BY <1>o, OtherFacts
        <5>2. key[x] \in Int /\ key[n] \in Int
          BY <1>1
        <5> QED
          BY <1>o, <2>7, <4>2, <5>1, <5>2, OffFacts
      <4> QED
        BY <4>2, <4>3
    <3> QED
      BY <3>2, <3>3
  <2> QED
    BY <1>8, <1>12, <1>U, <2>1, <2>6, <2>7 DEF Neighbour
<1> QED
  BY <1>11, <1>12

(* ... and RB_NEXT and RB_PREV find it in any case. *)
LEMMA StepFacts ==
  ASSUME NEW t, NEW key, NEW sub, Shape(t, key, sub), NEW n \in sub[t.root], NEW d \in Dirs
  PROVE  Neighbour(key, sub[t.root], n, d, Step(t, n, d))
<1>U. PICK U : U = sub[t.root]
  OBVIOUS
<1>o. PICK o : o = Other[d]
  OBVIOUS
<1>k. PICK k : k = t.kid[d][n]
  OBVIOUS
<1>1. CASE k = Nil
  BY <1>1, <1>k, ClimbFacts DEF Step
<1>2. CASE k # Nil
  <2>1. Family(t, key, sub, n, d, k, t.kid[o][n])
    BY <1>k, <1>o, ShapeOfNode
  <2>2. o \in Dirs /\ Other[o] = d
    BY <1>o, OtherFacts
  <2>3. Family(t, key, sub, n, o, t.kid[o][n], k)
    BY <1>k, <2>2, ShapeOfNode
  <2>4. k \in sub[t.root] /\ n \in Nodes /\ \A x \in sub[k] : Off(d, key[x], key[n])
    BY <1>2, <2>1 DEF Family
  <2>m. PICK m : m = Outermost(t, k, o)
    OBVIOUS
  <2>5. Extreme(key, sub[k], m, o)
    BY <2>2, <2>4, <2>m, OutermostFacts
  <2>6. m \in sub[k] /\ \A x \in sub[k] \ {m} : Off(d, key[x], key[m])
    BY <2>2, <2>5 DEF Extreme
  <2>7. /\ m \in U /\ m \in Nodes /\ m # Nil /\ m \in sub[n] /\ n \in sub[n]
        /\ \A i \in U : key[i] \in Int
    <3>1. sub[k] \subseteq sub[n] /\ sub[n] \subseteq sub[t.root] /\ n \in sub[n]
      BY <2>1 DEF Family
    <3>2. \A i \in U : i \in Nodes /\ i # Nil
      BY <1>U, ShapeOfMember, NodesAssumption
    <3> QED
      BY <1>U, <2>6, <3>1, <3>2 DEF Shape, Keys
  <2>8. Off(d, key[m], key[n])
    BY <2>4, <2>6
  <2>9. ASSUME NEW x \in U, Off(d, key[x], key[n]) PROVE x = m \/ Off(d, key[x], key[m])
    <3>0. key[x] \in Int /\ key[n] \in Int /\ n \in U
      BY <1>U, <2>7
    <3>1. CASE x \in sub[n]
      <4>1. x \in sub[k]
        <5>1. x # n
          BY <2>9, <3>0, OffFacts
        <5>2. ~Off(o, key[x], key[n])
          BY <1>o, <2>9, <3>0, OffFacts
        <5> QED
          BY <2>1, <2>3, <3>1, <5>1, <5>2 DEF Family
      <4> QED
        BY <2>6, <4>1
    <3>2. CASE x \notin sub[n]
      <4>1. PICK e \in Dirs : Aside(key, sub[n], x, e)
        BY <1>U, <3>2, Convex
      <4>2. Off(e, key[x], key[m]) /\ Off(e, key[x], key[n])
        BY <2>7, <4>1 DEF Aside
      <4>3. e = d
        <5>1. e \in {d, o}
          BY <1>o, OtherFacts
        <5> QED
          BY <1>o, <2>9, <3>0, <4>2, <5>1, OffFacts
      <4> QED
        BY <4>2, <4>3
    <3> QED
      BY <3>1, <3>2
  <2>10. Neighbour(key, U, n, d, m)
    BY <2>7, <2>8, <2>9 DEF Neighbour
  <2> QED
    BY <1>2, <1>k, <1>o, <1>U, <2>m, <2>10 DEF Step
<1> QED
  BY <1>1, <1>2

(* RB_MIN and RB_MAX find the extremes of the tree. *)
LEMMA MinMaxFacts ==
  ASSUME NEW t, NEW key, NEW sub, Shape(t, key, sub), NEW d \in Dirs
  PROVE  /\ t.root = Nil => MinMax(t, d) = Nil /\ sub[t.root] = {}
         /\ t.root # Nil => Extreme(key, sub[t.root], MinMax(t, d), d)
<1>1. CASE t.root = Nil
  BY <1>1 DEF MinMax, Shape
<1>2. CASE t.root # Nil
  <2>1. t.root \in sub[t.root]
    BY <1>2 DEF Shape
  <2> QED
    BY <1>2, <2>1, OutermostFacts DEF MinMax
<1> QED
  BY <1>1, <1>2

-----------------------------------------------------------------------------
(* The search for the first node not before k has come to m and passed b. *)
Passes(key, U, k, A, b) ==
    /\ b # Nil => b \in U /\ key[b] >= k /\ \A x \in A : key[x] < key[b]
    /\ \A x \in U : key[x] >= k => x \in A \/ (b # Nil /\ key[b] <= key[x])

FirstFrom(key, U, k, n) ==
    /\ n = Nil => \A x \in U : key[x] < k
    /\ n # Nil => n \in U /\ key[n] >= k /\ \A x \in U : key[x] >= k => key[n] <= key[x]

(* One step down of RB_NFIND *)
LEMMA NFindTurn ==
  ASSUME NEW t, NEW key, NEW sub, Shape(t, key, sub), NEW k \in Int, NEW m \in sub[t.root],
         key[m] # k, NEW b, Passes(key, sub[t.root], k, sub[m], b)
  PROVE  /\ t.kid[Toward(key, k, m)][m] \in sub[t.root] \cup {Nil}
         /\ sub[t.kid[Toward(key, k, m)][m]] \subseteq sub[m]
         /\ sub[t.kid[Toward(key, k, m)][m]] # sub[m]
         /\ Passes(key, sub[t.root], k, sub[t.kid[Toward(key, k, m)][m]], IF k < key[m] THEN m ELSE b)
<1>U. PICK U : U = sub[t.root]
  OBVIOUS
<1>l. PICK l : l = t.kid["left"][m]
  OBVIOUS
<1>r. PICK r : r = t.kid["right"][m]
  OBVIOUS
<1>0. "left" \in Dirs /\ "right" \in Dirs /\ Other["left"] = "right" /\ Other["right"] = "left"
  BY DEF Dirs, Other
<1>1. Family(t, key, sub, m, "left", l, r)
  BY <1>0, <1>l, <1>r, ShapeOfNode
<1>2. Family(t, key, sub, m, "right", r, l)
  BY <1>0, <1>l, <1>r, ShapeOfNode
<1>3. /\ m \in sub[m] /\ m \notin sub[l] /\ m \notin sub[r] /\ sub[m] = {m} \cup sub[l] \cup sub[r]
      /\ l \in U \cup {Nil} /\ r \in U \cup {Nil} /\ m \in U /\ sub[m] \subseteq U
  BY <1>1, <1>2, <1>U DEF Family
<1>4. /\ \A x \in sub[l] : key[x] < key[m]
      /\ \A x \in sub[r] : key[m] < key[x]
  <2>1. \A x \in sub[l] : Off("left", key[x], key[m])
    BY <1>1 DEF Family
  <2>2. \A x \in sub[r] : Off("right", key[x], key[m])
    BY <1>2 DEF Family
  <2> QED
    BY <2>1, <2>2 DEF Off
<1>5. /\ \A x \in U : key[x] \in Int /\ x # Nil
  BY <1>U, ShapeOfMember, NodesAssumption DEF Shape, Keys
<1>6. /\ b # Nil => b \in U /\ key[b] >= k /\ \A x \in sub[m] : key[x] < key[b]
      /\ \A x \in U : key[x] >= k => x \in sub[m] \/ (b # Nil /\ key[b] <= key[x])
  BY <1>U DEF Passes
<1>7. CASE k < key[m]
  <2>1. Toward(key, k, m) = "left"
    BY <1>7 DEF Toward
  <2>2. ASSUME NEW x \in U, key[x] >= k PROVE x \in sub[l] \/ key[m] <= key[x]
    <3>1. x \in sub[m] \/ (b # Nil /\ key[b] <= key[x])
      BY <1>6, <2>2
    <3>2. CASE x \in sub[m]
      BY <1>3, <1>4, <1>5, <3>2
    <3>3. CASE b # Nil /\ key[b] <= key[x]
      <4>1. key[m] < key[b] /\ b \in U
        BY <1>3, <1>6, <3>3
      <4> QED
        BY <1>3, <1>5, <3>3, <4>1
    <3> QED
      BY <3>1, <3>2, <3>3
  <2>3. key[m] >= k
    BY <1>3, <1>5, <1>7
  <2>4. Passes(key, U, k, sub[l], m)
    BY <1>3, <1>4, <1>5, <2>2, <2>3 DEF Passes
  <2> QED
    BY <1>3, <1>7, <1>l, <1>U, <2>1, <2>4
<1>8. CASE ~(k < key[m])
  <2>1. Toward(key, k, m) = "right" /\ key[m] < k
    BY <1>3, <1>5, <1>8 DEF Toward
  <2>2. ASSUME NEW x \in U, key[x] >= k PROVE x \in sub[r] \/ (b # Nil /\ key[b] <= key[x])
    <3>1. x \in sub[m] => x \in sub[r]
      BY <1>3, <1>4, <1>5, <2>1, <2>2
    <3> QED
      BY <1>6, <2>2, <3>1
  <2>3. Passes(key, U, k, sub[r], b)
    BY <1>3, <1>6, <2>2 DEF Passes
  <2> QED
    BY <1>3, <1>8, <1>r, <1>U, <2>1, <2>3
<1> QED
  BY <1>7, <1>8

(* RB_NFIND finds the first node that is not before k. *)
LEMMA NFindFacts ==
  ASSUME NEW t, NEW key, NEW sub, Shape(t, key, sub), NEW k \in Int
  PROVE  FirstFrom(key, sub[t.root], k, NFind(t, key, k))
<1>U. PICK U : U = sub[t.root]
  OBVIOUS
<1>S. PICK S : S = (Nodes \cup {Nil}) \X (Nodes \cup {Nil})
  OBVIOUS
<1>go. PICK go : go = {s \in S : s[1] # Nil /\ key[s[1]] # k}
  OBVIOUS
<1>turn. PICK turn : turn = [s \in S |-> <<t.kid[Toward(key, k, s[1])][s[1]],
                                          IF k < key[s[1]] THEN s[1] ELSE s[2]>>]
  OBVIOUS
<1>J. PICK J : J = {s \in S : s[1] \in U \cup {Nil} /\ Passes(key, U, k, sub[s[1]], s[2])}
  OBVIOUS
<1>rank. PICK rank : rank = [s \in S |-> sub[s[1]]]
  OBVIOUS
<1>1. /\ sub \in [Places -> SUBSET Nodes] /\ sub[Nil] = {} /\ t.root \in U \cup {Nil} /\ U \subseteq Nodes
      /\ \A x \in U : key[x] \in Int /\ x # Nil
  BY <1>U, ShapeOfMember, NodesAssumption DEF Shape, Keys
<1>2. rank \in [S -> SUBSET Nodes]
  BY <1>1, <1>rank, <1>S DEF Places
<1>3. \A s \in J \cap go : turn[s] \in J /\ rank[turn[s]] \subseteq rank[s] /\ rank[turn[s]] # rank[s]
  <2> SUFFICES ASSUME NEW s \in J \cap go
               PROVE  turn[s] \in J /\ rank[turn[s]] \subseteq rank[s] /\ rank[turn[s]] # rank[s]
    OBVIOUS
  <2>1. s \in S /\ s[1] \in U /\ key[s[1]] # k /\ Passes(key, U, k, sub[s[1]], s[2]) /\ s[2] \in Nodes \cup {Nil}
    BY <1>J, <1>go, <1>S
  <2>c. PICK c : c = t.kid[Toward(key, k, s[1])][s[1]]
    OBVIOUS
  <2>b. PICK b : b = IF k < key[s[1]] THEN s[1] ELSE s[2]
    OBVIOUS
  <2>2. /\ c \in U \cup {Nil} /\ sub[c] \subseteq sub[s[1]] /\ sub[c] # sub[s[1]]
        /\ Passes(key, U, k, sub[c], b)
    BY <1>U, <2>1, <2>b, <2>c, NFindTurn
  <2>3. turn[s] = <<c, b>>
    BY <1>turn, <2>1, <2>b, <2>c
  <2>4. <<c, b>> \in S /\ b \in Nodes \cup {Nil}
    BY <1>1, <1>S, <2>1, <2>2, <2>b
  <2>5. <<c, b>> \in J /\ rank[<<c, b>>] = sub[c] /\ rank[s] = sub[s[1]]
    BY <1>J, <1>rank, <2>1, <2>2, <2>4
  <2> QED
    BY <2>2, <2>3, <2>5
<1>4. <<t.root, Nil>> \in J
  BY <1>1, <1>J, <1>S, <1>U DEF Passes
<1>e. PICK e : e = While(S, go, turn, <<t.root, Nil>>)
  OBVIOUS
<1>5. e \in J \ go
  <2>1. J \subseteq S
    BY <1>J
  <2>2. While(S, go, turn, <<t.root, Nil>>) \in J \ go
    BY <1>2, <1>3, <1>4, <2>1, SimpleLoopRule
  <2> QED
    BY <1>e, <2>2
<1>6. NFind(t, key, k) = IF e[1] = Nil THEN e[2] ELSE e[1]
  BY <1>e, <1>go, <1>S, <1>turn DEF NFind
<1>7. e[1] \in U \cup {Nil} /\ Passes(key, U, k, sub[e[1]], e[2]) /\ (e[1] = Nil \/ key[e[1]] = k)
  BY <1>5, <1>J, <1>go
<1>8. CASE e[1] = Nil
  <2>1. FirstFrom(key, U, k, e[2])
    BY <1>1, <1>7, <1>8 DEF FirstFrom, Passes
  <2> QED
    BY <1>6, <1>8, <1>U, <2>1
<1>9. CASE e[1] # Nil
  <2>1. FirstFrom(key, U, k, e[1])
    BY <1>1, <1>7, <1>9 DEF FirstFrom
  <2> QED
    BY <1>6, <1>9, <1>U, <2>1
<1> QED
  BY <1>8, <1>9
-----------------------------------------------------------------------------
(* Least and Greatest are the least and the greatest. *)
LEMMA LeastIs ==
  ASSUME NEW S, S \subseteq Int, NEW m \in S, \A g \in S : m <= g
  PROVE  Least(S) = m
<1>1. \A f \in S : (\A g \in S : f <= g) => f = m
  BY Z3
<1> QED
  BY <1>1 DEF Least

(* See LeastIs. *)
LEMMA GreatestIs ==
  ASSUME NEW S, S \subseteq Int, NEW m \in S, \A g \in S : m >= g
  PROVE  Greatest(S) = m
<1>1. \A f \in S : (\A g \in S : f >= g) => f = m
  BY Z3
<1> QED
  BY <1>1 DEF Greatest

(* The inductive invariant: some sets and heights show that the tree is a *)
(* red-black search tree of those who wait.                               *)
IInv == Sound(tree, fd, waiters)

(* The keys are the descriptors. *)
LEMMA FdFacts == fd \in Keys /\ \A f \in Nodes : fd[f] = f /\ f \in Int /\ f # Nil
BY DescriptorsAssumption, NodesAssumption DEF fd, Keys

(* The extremes of the tree are the least and the greatest waiter. *)
LEMMA MinMaxOfWaiters ==
  ASSUME NEW sub, Shape(tree, fd, sub), sub[tree.root] = waiters
  PROVE  MinMax(tree, "left") = Least(waiters) /\ MinMax(tree, "right") = Greatest(waiters)
<1>0. "left" \in Dirs /\ "right" \in Dirs /\ Other["left"] = "right" /\ Other["right"] = "left"
  BY DEF Dirs, Other
<1>1. waiters \subseteq Nodes /\ \A f \in waiters : fd[f] = f /\ f \in Int
  BY FdFacts, ShapeOfMember
<1>2. CASE tree.root = Nil
  BY <1>0, <1>2, MinMaxFacts DEF Least, Greatest
<1>3. CASE tree.root # Nil
  <2>1. Extreme(fd, waiters, MinMax(tree, "left"), "left") /\ Extreme(fd, waiters, MinMax(tree, "right"), "right")
    BY <1>0, <1>3, MinMaxFacts
  <2>l. PICK l : l = MinMax(tree, "left")
    OBVIOUS
  <2>r. PICK r : r = MinMax(tree, "right")
    OBVIOUS
  <2>2. /\ l \in waiters /\ \A x \in waiters \ {l} : Off("right", fd[x], fd[l])
        /\ r \in waiters /\ \A x \in waiters \ {r} : Off("left", fd[x], fd[r])
    BY <1>0, <2>1, <2>l, <2>r DEF Extreme
  <2>3. waiters \subseteq Int /\ (\A x \in waiters : l <= x) /\ \A x \in waiters : r >= x
    BY <1>1, <2>2 DEF Off
  <2> QED
    BY <2>2, <2>3, <2>l, <2>r, LeastIs, GreatestIs
<1> QED
  BY <1>2, <1>3

(* What RB_FIND and RB_NFIND find is what the set of waiters says ... *)
LEMMA FindsOfWaiters ==
  ASSUME NEW sub, Shape(tree, fd, sub), sub[tree.root] = waiters, NEW f \in Nodes
  PROVE  /\ (Find(tree, fd, f) = f) <=> f \in waiters
         /\ Find(tree, fd, f) \in {f, Nil}
         /\ NFind(tree, fd, f) = Least({g \in waiters : g >= f})
<1>1. waiters \subseteq Nodes /\ f \in Int /\ f # Nil /\ \A g \in Nodes : fd[g] = g /\ g \in Int
  BY FdFacts, ShapeOfMember
<1>2. ((Find(tree, fd, f) = f) <=> f \in waiters) /\ Find(tree, fd, f) \in {f, Nil}
  <2>n. PICK n : n = Find(tree, fd, f)
    OBVIOUS
  <2>1. (n # Nil => n \in waiters /\ fd[n] = f) /\ (n = Nil => \A x \in waiters : fd[x] # f)
    BY <1>1, <2>n, FindFacts
  <2>2. n # Nil => n = f
    BY <1>1, <2>1
  <2>3. f \in waiters => n # Nil
    BY <1>1, <2>1
  <2> QED
    BY <1>1, <2>n, <2>1, <2>2, <2>3
<1>3. NFind(tree, fd, f) = Least({g \in waiters : g >= f})
  <2>n. PICK n : n = NFind(tree, fd, f)
    OBVIOUS
  <2>T. PICK T : T = {g \in waiters : g >= f}
    OBVIOUS
  <2>1. FirstFrom(fd, waiters, f, n)
    BY <1>1, <2>n, NFindFacts
  <2>2. CASE n = Nil
    <3>0. \A g \in waiters : ~(g >= f)
      <4>1. \A g \in waiters : g \in Int /\ g < f
        BY <1>1, <2>1, <2>2 DEF FirstFrom
      <4>2. \A i, j \in Int : i < j => ~(i >= j)
        OBVIOUS
      <4> QED
        BY <1>1, <4>1, <4>2
    <3>1. T = {}
      BY <2>T, <3>0, Zenon
    <3> QED
      BY <2>2, <2>n, <2>T, <3>1 DEF Least
  <2>3. CASE n # Nil
    <3>1. T \subseteq Int /\ n \in T /\ \A g \in T : n <= g
      BY <1>1, <2>1, <2>3, <2>T DEF FirstFrom
    <3> QED
      BY <2>n, <2>T, <3>1, LeastIs
  <2> QED
    BY <2>2, <2>3
<1> QED
  BY <1>2, <1>3

(* ... and so is where RB_NEXT and RB_PREV lead. *)
LEMMA StepsOfWaiters ==
  ASSUME NEW sub, Shape(tree, fd, sub), sub[tree.root] = waiters, NEW f \in waiters
  PROVE  /\ Step(tree, f, "right") = Least({g \in waiters : g > f})
         /\ Step(tree, f, "left") = Greatest({g \in waiters : g < f})
<1>0. "left" \in Dirs /\ "right" \in Dirs
  BY DEF Dirs
<1>1. waiters \subseteq Nodes /\ f \in Int /\ \A g \in Nodes : fd[g] = g /\ g \in Int
  BY FdFacts, ShapeOfMember
<1>2. Step(tree, f, "right") = Least({g \in waiters : g > f})
  <2>n. PICK n : n = Step(tree, f, "right")
    OBVIOUS
  <2>T. PICK T : T = {g \in waiters : g > f}
    OBVIOUS
  <2>1. Neighbour(fd, waiters, f, "right", n)
    BY <1>0, <2>n, StepFacts
  <2>2. CASE n = Nil
    <3>1. T = {}
      BY <1>1, <2>1, <2>2, <2>T DEF Neighbour, Off
    <3> QED
      BY <2>2, <2>n, <2>T, <3>1 DEF Least
  <2>3. CASE n # Nil
    <3>0. /\ n \in waiters /\ n > f /\ \A g \in waiters : g \in Int
          /\ \A g \in waiters : g > f => g = n \/ n < g
      BY <1>1, <2>1, <2>3 DEF Neighbour, Off
    <3>1. T \subseteq Int /\ n \in T /\ \A g \in T : n <= g
      BY <2>T, <3>0
    <3> QED
      BY <2>n, <2>T, <3>1, LeastIs
  <2> QED
    BY <2>2, <2>3
<1>3. Step(tree, f, "left") = Greatest({g \in waiters : g < f})
  <2>n. PICK n : n = Step(tree, f, "left")
    OBVIOUS
  <2>T. PICK T : T = {g \in waiters : g < f}
    OBVIOUS
  <2>1. Neighbour(fd, waiters, f, "left", n)
    BY <1>0, <2>n, StepFacts
  <2>2. CASE n = Nil
    <3>1. T = {}
      BY <1>1, <2>1, <2>2, <2>T DEF Neighbour, Off
    <3> QED
      BY <2>2, <2>n, <2>T, <3>1 DEF Greatest
  <2>3. CASE n # Nil
    <3>0. /\ n \in waiters /\ n < f /\ \A g \in waiters : g \in Int
          /\ \A g \in waiters : g < f => g = n \/ g < n
      BY <1>1, <2>1, <2>3 DEF Neighbour, Off
    <3>1. T \subseteq Int /\ n \in T /\ \A g \in T : n >= g
      BY <2>T, <3>0
    <3> QED
      BY <2>n, <2>T, <3>1, GreatestIs
  <2> QED
    BY <2>2, <2>3
<1> QED
  BY <1>2, <1>3

(* The invariant says all that TreeOfWaiters does. *)
LEMMA IInvImpliesTree == IInv => TreeOfWaiters
<1> SUFFICES ASSUME IInv PROVE TreeOfWaiters
  OBVIOUS
<1>1. PICK sub, h : Coloured(tree, fd, sub, h) /\ sub[tree.root] = waiters
  BY DEF IInv, Sound
<1>2. Shape(tree, fd, sub)
  BY <1>1 DEF Coloured
<1>3. RedBlack(tree, fd) /\ Under(tree, tree.root) = waiters
  BY <1>1, ColouredIsRedBlack
<1>4. MinMax(tree, "left") = Least(waiters) /\ MinMax(tree, "right") = Greatest(waiters)
  BY <1>1, <1>2, MinMaxOfWaiters
<1>5. \A f \in Nodes : /\ (Find(tree, fd, f) = f) <=> f \in waiters
                       /\ NFind(tree, fd, f) = Least({g \in waiters : g >= f})
  BY <1>1, <1>2, FindsOfWaiters
<1>6. \A f \in waiters : /\ Step(tree, f, "right") = Least({g \in waiters : g > f})
                         /\ Step(tree, f, "left") = Greatest({g \in waiters : g < f})
  BY <1>1, <1>2, StepsOfWaiters
<1> QED
  BY <1>3, <1>4, <1>5, <1>6 DEF TreeOfWaiters

(* It holds of the empty tree ... *)
LEMMA InitIInv == WaitInit => IInv
BY FdFacts, EmptySound DEF WaitInit, IInv

(* ... and a wait that begins or ends keeps it. *)
LEMMA NextIInv == IInv /\ [WaitNext]_waitVars => IInv'
<1> SUFFICES ASSUME IInv, [WaitNext]_waitVars PROVE IInv'
  OBVIOUS
<1>1. PICK sub, h : Coloured(tree, fd, sub, h) /\ sub[tree.root] = waiters
  BY DEF IInv, Sound
<1>2. Shape(tree, fd, sub) /\ Sound(tree, fd, waiters)
  BY <1>1 DEF Coloured, IInv, Sound
<1>3. waiters \subseteq Nodes
  BY <1>1, <1>2, ShapeOfMember
<1>4. SUFFICES Sound(tree', fd, waiters')
  BY DEF IInv
<1>5. ASSUME NEW f \in Nodes, SchedWait(f) PROVE Sound(tree', fd, waiters')
  <2>1. f \notin waiters /\ tree' = Insert(tree, fd, f) /\ waiters' = waiters \cup {f}
    BY <1>5 DEF SchedWait
  <2>2. \A x \in waiters : fd[x] # fd[f]
    BY <1>3, <2>1, FdFacts
  <2> QED
    BY <1>2, <2>1, <2>2, InsertSound
<1>6. ASSUME NEW f \in Nodes, DeschedWait(f) PROVE Sound(tree', fd, waiters')
  <2>1. Find(tree, fd, f) = f /\ f \in waiters
    BY <1>1, <1>2, <1>6, FindsOfWaiters DEF DeschedWait
  <2>2. tree' = Remove(tree, f) /\ waiters' = waiters \ {f}
    BY <1>6, <2>1 DEF DeschedWait
  <2> QED
    BY <1>2, <2>1, <2>2, RemoveSound
<1>7. CASE UNCHANGED waitVars
  BY <1>2, <1>7 DEF waitVars
<1> QED
  BY <1>5, <1>6, <1>7 DEF WaitNext

(* Whatever coroutines waited and were woken, the tree is a red-black      *)
(* search tree of those that wait now, and RB_MIN, RB_MAX, RB_FIND,        *)
(* RB_NFIND, RB_NEXT and RB_PREV find in it what the set of them says.     *)
THEOREM TreeOfWaitersHolds == WaitSpec => []TreeOfWaiters
<1>1. IInv /\ [WaitNext]_waitVars => IInv'
  BY NextIInv
<1> QED
  BY <1>1, InitIInv, IInvImpliesTree, PTL DEF WaitSpec
-----------------------------------------------------------------------------
(* What a red-black tree of the nodes U is good for: Under is U, keys tell *)
(* its nodes apart, ...                                                    *)
LEMMA SoundFacts ==
  ASSUME NEW t, NEW key, NEW U, Sound(t, key, U)
  PROVE  /\ Under(t, t.root) = U /\ U \subseteq Nodes /\ t \in Trees /\ key \in Keys
         /\ \A x, y \in U : key[x] = key[y] => x = y
<1>1. PICK sub, h : Coloured(t, key, sub, h) /\ sub[t.root] = U
  BY DEF Sound
<1>2. Shape(t, key, sub)
  BY <1>1 DEF Coloured
<1>3. Under(t, t.root) = U
  BY <1>1, ColouredIsRedBlack
<1>4. U \subseteq Nodes /\ t \in Trees /\ key \in Keys
  BY <1>1, <1>2, ShapeOfMember DEF Shape
<1>5. ASSUME NEW x \in U, NEW y \in U, x # y PROVE key[x] # key[y]
  <2>0. key[x] \in Int /\ key[y] \in Int
    BY <1>4 DEF Keys
  <2>1. CASE x \in sub[y]
    <3>1. PICK d \in Dirs : x \in sub[t.kid[d][y]]
      BY <1>1, <1>2, <1>5, <2>1, OtherFacts, ShapeOfNode DEF Family
    <3>2. Off(d, key[x], key[y])
      BY <1>1, <1>2, <3>1, ShapeOfNode DEF Family
    <3> QED
      BY <2>0, <3>2, OffFacts
  <2>2. CASE x \notin sub[y]
    <3>1. PICK e \in Dirs : Aside(key, sub[y], x, e)
      BY <1>1, <1>2, <2>2, Convex
    <3>2. y \in sub[y]
      BY <1>1, <1>2, ShapeOfMember
    <3> QED
      BY <2>0, <3>1, <3>2, OffFacts DEF Aside
  <2> QED
    BY <2>1, <2>2
<1> QED
  BY <1>3, <1>4, <1>5

(* ... RB_FIND finds by key, ... *)
LEMMA SoundFind ==
  ASSUME NEW t, NEW key, NEW U, Sound(t, key, U), NEW k \in Int
  PROVE  /\ Find(t, key, k) = Nil => \A x \in U : key[x] # k
         /\ Find(t, key, k) # Nil => Find(t, key, k) \in U /\ key[Find(t, key, k)] = k
<1>1. PICK sub, h : Coloured(t, key, sub, h) /\ sub[t.root] = U
  BY DEF Sound
<1>2. Shape(t, key, sub)
  BY <1>1 DEF Coloured
<1> QED
  BY <1>1, <1>2, FindFacts

(* ... RB_MIN finds the first, ... *)
LEMMA SoundMin ==
  ASSUME NEW t, NEW key, NEW U, Sound(t, key, U), NEW m, m = MinMax(t, "left")
  PROVE  /\ m = Nil <=> U = {}
         /\ m # Nil => m \in U /\ \A x \in U : key[m] <= key[x]
<1>1. PICK sub, h : Coloured(t, key, sub, h) /\ sub[t.root] = U
  BY DEF Sound
<1>2. Shape(t, key, sub)
  BY <1>1 DEF Coloured
<1>3. U \subseteq Nodes /\ key \in Keys /\ "left" \in Dirs
  BY SoundFacts DEF Dirs
<1>4. /\ t.root = Nil => m = Nil /\ U = {}
      /\ t.root # Nil => Extreme(key, U, m, "left")
  BY <1>1, <1>2, <1>3, MinMaxFacts
<1>5. CASE t.root = Nil
  BY <1>4, <1>5
<1>6. CASE t.root # Nil
  <2>1. m \in U /\ \A x \in U \ {m} : Off(Other["left"], key[x], key[m])
    BY <1>4, <1>6 DEF Extreme
  <2>2. \A x \in U : key[x] \in Int
    BY <1>3 DEF Keys
  <2>3. \A x \in U : key[m] <= key[x]
    <3> SUFFICES ASSUME NEW x \in U PROVE key[m] <= key[x]
      OBVIOUS
    <3>1. CASE x = m
      BY <2>1, <2>2, <3>1
    <3>2. CASE x # m
      BY <2>1, <2>2, <3>2 DEF Off, Other
    <3> QED
      BY <3>1, <3>2
  <2> QED
    BY <1>3, <2>1, <2>3, NodesAssumption
<1> QED
  BY <1>5, <1>6

(* ... and the keys of other nodes do not matter. *)
LEMMA SoundRekeyed ==
  ASSUME NEW t, NEW key, NEW U, Sound(t, key, U), NEW key2 \in Keys,
         \A x \in U : key2[x] = key[x]
  PROVE  Sound(t, key2, U)
<1>1. PICK sub, h : Coloured(t, key, sub, h) /\ sub[t.root] = U
  BY DEF Sound
<1>2. Shape(t, key, sub)
  BY <1>1 DEF Coloured
<1>3. ASSUME NEW n \in U, NEW d \in Dirs PROVE SlotOK(t, key2, sub, n, d)
  <2>1. SlotOK(t, key, sub, n, d) /\ sub[Nil] = {} /\ t.kid[d][n] \in Places
    BY <1>1, <1>2, <1>3, ShapeOfKid DEF Shape, NodeOK
  <2>2. sub[t.kid[d][n]] \subseteq U
    BY <1>1, <1>2, <1>3, <2>1, ShapeOfKid, ShapeOfMember
  <2>3. \A m \in sub[t.kid[d][n]] : key2[m] = key[m] /\ key2[n] = key[n]
    BY <2>2
  <2> QED
    BY <2>1, <2>3 DEF SlotOK
<1>4. Shape(t, key2, sub)
  BY <1>1, <1>2, <1>3 DEF Shape, NodeOK
<1> QED
  BY <1>1, <1>4 DEF Coloured, Sound
(* A set of numbers has a least one. *)
LEMMA LeastNatural ==
  ASSUME NEW T, T \subseteq Nat, T # {}
  PROVE  \E x \in T : \A y \in T : x =< y
<1>1. PICK x \in T : \A y \in T : ~(<<y, x>> \in OpToRel(<, Nat))
  BY NatLessThanWellFounded, WFMin, Zenon
<1>2. ASSUME NEW y \in T, y < x
      PROVE  <<y, x>> \in OpToRel(<, Nat)
  BY <1>2, Zenon DEF OpToRel
<1>3. \A y \in T : ~(y < x)
  BY <1>1, <1>2
<1> QED
  BY <1>3

(* Among more keys than there are coroutines one is free, so that the count *)
(* from the end of a sleep on comes to an end.                              *)
LEMMA FreeFromFacts ==
  ASSUME NEW t, NEW key, NEW U, Sound(t, key, U), U \subseteq Coroutines,
         NEW wish \in Nat, NEW k, k = FreeFrom(t, key, wish)
  PROVE  k \in Nat /\ k >= wish /\ \A x \in U : key[x] # k
<1>N. PICK N : N = Cardinality(Coroutines)
  OBVIOUS
<1>1. /\ IsFiniteSet(Coroutines) /\ N \in Nat /\ IsFiniteSet(U)
      /\ Cardinality(U) \in Nat /\ Cardinality(U) <= N
  BY <1>N, NodesAssumption, TimerAssumption, FS_Subset, FS_CardinalityType
<1>S. PICK S : S = wish..(wish + N)
  OBVIOUS
<1>2. IsFiniteSet(S) /\ Cardinality(S) = N + 1
  BY <1>1, <1>S, FS_Interval
<1>3. \A n \in Int : (~Taken(t, key, n) => \A x \in U : key[x] # n)
                   /\ (Taken(t, key, n) => Find(t, key, n) \in U /\ key[Find(t, key, n)] = n)
  BY SoundFind DEF Taken
<1>4. \E n \in S : ~Taken(t, key, n)
  <2> SUFFICES ASSUME \A n \in S : Taken(t, key, n) PROVE FALSE
    OBVIOUS
  <2>f. PICK f : f = [n \in S |-> Find(t, key, n)]
    OBVIOUS
  <2>1. S \subseteq Int
    BY <1>1, <1>S
  <2>2. f \in [S -> U] /\ \A n \in S : key[f[n]] = n
    BY <1>3, <2>f, <2>1
  <2>3. \E x, y \in S : x # y /\ f[x] = f[y]
    BY <1>1, <1>2, <2>2, FS_PigeonHole
  <2> QED
    BY <2>2, <2>3
<1>T. PICK T : T = {n \in S : ~Taken(t, key, n)}
  OBVIOUS
<1>5. T \subseteq Nat /\ T # {}
  BY <1>1, <1>S, <1>T, <1>4
<1>6. PICK n \in T : \A m \in T : n <= m
  BY <1>5, LeastNatural
<1>7. ASSUME NEW m \in wish..(n - 1) PROVE Taken(t, key, m)
  <2>1. n \in Nat /\ n <= wish + N /\ m \in S /\ ~(n <= m)
    BY <1>1, <1>S, <1>T, <1>5, <1>7
  <2> QED
    BY <1>6, <1>T, <2>1
<1>8. \E i \in S : ~Taken(t, key, i) /\ \A m \in wish..(i - 1) : Taken(t, key, m)
  BY <1>6, <1>7, <1>T
<1>9. k \in S /\ ~Taken(t, key, k)
  BY <1>8, <1>S, <1>N DEF FreeFrom
<1> QED
  BY <1>1, <1>3, <1>9, <1>S
-----------------------------------------------------------------------------
(* Sleepers are in the tree of their keys.  Who is awake has a key that is  *)
(* over, and no sleeper's: so the search under the last key of a coroutine  *)
(* that is awake finds nobody.                                              *)
ClockInv == /\ now \in Nat /\ timeout \in Nat /\ curr \in Coroutines \cup {Nil}
            /\ sleep_usecs \in [Nodes -> Nat]

LiveInv(A) == A \subseteq live /\ live \subseteq Coroutines /\ (curr # Nil => curr \in live)

AwakeInv(A) == /\ \A co \in Nodes \ A : sleep_usecs[co] <= now
               /\ \A co \in A : sleep_usecs[co] > 0
               /\ \A co \in Nodes \ A, other \in A : sleep_usecs[co] # sleep_usecs[other]

SleepersKnown(A) == ClockInv /\ LiveInv(A) /\ AwakeInv(A) /\ Sound(sleeping, sleep_usecs, A)

TimerInv == SleepersKnown(Asleep)

(* The sleepers may be any set that the tree is a tree of. *)
LEMMA SleepersAre ==
  ASSUME NEW A, Sound(sleeping, sleep_usecs, A)
  PROVE  Asleep = A
BY SoundFacts DEF Asleep

(* ... after a step too. *)
LEMMA SleepersAreNext ==
  ASSUME NEW A, Sound(sleeping', sleep_usecs', A)
  PROVE  Asleep' = A
BY SoundFacts DEF Asleep

(* Coroutines are nodes of the trees, and NULL is none. *)
LEMMA CoroutinesAreNodes == Coroutines \subseteq Nodes /\ Nil \notin Coroutines
BY TimerAssumption, NodesAssumption

(* nty_schedule_create leaves nobody asleep. *)
LEMMA TimerInit == Init => TimerInv
<1> SUFFICES ASSUME Init PROVE TimerInv
  OBVIOUS
<1>1. sleep_usecs \in Keys /\ sleep_usecs \in [Nodes -> Nat] /\ \A co \in Nodes : sleep_usecs[co] = 0
  BY DEF Init, Keys
<1>2. Sound(sleeping, sleep_usecs, {})
  BY <1>1, EmptySound DEF Init
<1>3. Asleep = {}
  BY <1>2, SleepersAre
<1>4. SleepersKnown({})
  BY <1>1, <1>2, CoroutinesAreNodes DEF Init, SleepersKnown, ClockInv, LiveInv, AwakeInv
<1> QED
  BY <1>3, <1>4 DEF TimerInv

(* Nobody else is taken out before a coroutine goes to sleep, ... *)
LEMMA ClearedFacts ==
  ASSUME TimerInv, curr # Nil
  PROVE  Sound(Cleared, sleep_usecs, Asleep \ {curr})
<1>old. PICK old : old = Find(sleeping, sleep_usecs, sleep_usecs[curr])
  OBVIOUS
<1>1. /\ Sound(sleeping, sleep_usecs, Asleep) /\ AwakeInv(Asleep) /\ ClockInv
      /\ curr \in Nodes /\ sleep_usecs[curr] \in Int
  BY CoroutinesAreNodes DEF TimerInv, SleepersKnown, ClockInv
<1>2. /\ old = Nil => \A x \in Asleep : sleep_usecs[x] # sleep_usecs[curr]
      /\ old # Nil => old \in Asleep /\ sleep_usecs[old] = sleep_usecs[curr]
  BY <1>1, <1>old, SoundFind
<1>3. CASE old = Nil
  <2>1. curr \notin Asleep
    BY <1>2, <1>3
  <2>2. Asleep \ {curr} = Asleep /\ Cleared = sleeping
    BY <1>3, <1>old, <2>1 DEF Cleared
  <2> QED
    BY <1>1, <2>2
<1>4. CASE old # Nil
  <2>1. curr \in Asleep
    BY <1>1, <1>2, <1>4 DEF AwakeInv
  <2>2. old = curr
    BY <1>1, <1>2, <1>4, <2>1, SoundFacts
  <2>3. Cleared = Remove(sleeping, curr)
    BY <1>4, <1>old, <2>2 DEF Cleared
  <2> QED
    BY <1>1, <2>1, <2>3, RemoveSound
<1> QED
  BY <1>3, <1>4

(* ... which then sleeps until a time of its own that has not come yet. *)
SleptUntil(k) == /\ k \in Nat /\ k > now /\ \A x \in Asleep \ {curr} : sleep_usecs[x] # k
                 /\ sleep_usecs' = [sleep_usecs EXCEPT ![curr] = k]
                 /\ Sound(sleeping', sleep_usecs', Asleep \cup {curr})

(* nty_schedule_sched_sleepdown files who sleeps, under such a time. *)
LEMMA SleepFacts ==
  ASSUME TimerInv, NEW msecs \in Msecs, Sleep(msecs)
  PROVE  \E k : SleptUntil(k)
<1>k. PICK k : k = FreeFrom(Cleared, sleep_usecs, now + msecs * Milli)
  OBVIOUS
<1>U. PICK U : U = Asleep \ {curr}
  OBVIOUS
<1>0. curr # Nil /\ msecs # 0 /\ SleepUntil(k)
  BY <1>k DEF Sleep, SleepDown
<1>1. /\ ClockInv /\ LiveInv(Asleep) /\ curr \in Nodes /\ curr \in Coroutines
      /\ U \subseteq Coroutines /\ U \subseteq Nodes
  BY <1>0, <1>U, CoroutinesAreNodes DEF TimerInv, SleepersKnown, ClockInv, LiveInv
<1>2. Sound(Cleared, sleep_usecs, U)
  BY <1>0, <1>U, ClearedFacts
<1>3. now + msecs * Milli \in Nat /\ now + msecs * Milli > now
  <2>1. \A m, n \in Nat : m # 0 /\ n # 0 => m * n \in Nat /\ m * n > 0
    BY Z3
  <2> QED
    BY <1>0, <1>1, <2>1, TimerAssumption DEF ClockInv
<1>4. k \in Nat /\ k >= now + msecs * Milli /\ \A x \in U : sleep_usecs[x] # k
  BY <1>1, <1>2, <1>3, <1>k, FreeFromFacts
<1>5. k > now
  BY <1>1, <1>3, <1>4 DEF ClockInv
<1>K. PICK K : K = [sleep_usecs EXCEPT ![curr] = k]
  OBVIOUS
<1>6. K \in Keys /\ K[curr] = k /\ \A x \in U : K[x] = sleep_usecs[x]
  BY <1>1, <1>4, <1>U, <1>K DEF ClockInv, Keys
<1>7. Sound(Cleared, K, U)
  BY <1>2, <1>6, SoundRekeyed
<1>8. curr \in Nodes \ U /\ \A x \in U : K[x] # K[curr]
  BY <1>1, <1>4, <1>6, <1>U
<1>9. Sound(Insert(Cleared, K, curr), K, U \cup {curr})
  BY <1>7, <1>8, InsertSound
<1>10. U \cup {curr} = Asleep \cup {curr}
  BY <1>U
<1>11. sleep_usecs' = K /\ sleeping' = Insert(Cleared, K, curr)
  BY <1>0, <1>K DEF SleepUntil
<1> QED
  BY <1>4, <1>5, <1>9, <1>10, <1>11, <1>K, <1>U DEF SleptUntil
-----------------------------------------------------------------------------
(* The ready queue as the sequence s of coroutines: the links are numbered  *)
(* from the head's on, and the i-th link points to the element behind it,   *)
(* which, or for the last one the head, points back to it.  Nobody else     *)
(* links to anything.                                                       *)
LinkAt(s, i)   == IF i = 0 THEN ReadyHead ELSE s[i]
BehindAt(s, i) == IF i = Len(s) THEN Nil ELSE s[i + 1]
HolderAt(s, i) == IF i = Len(s) THEN ReadyHead ELSE s[i + 1]

InLine(s) == {s[i] : i \in 1..Len(s)}

Once(s) == \A i, j \in 1..Len(s) : s[i] = s[j] => i = j

ReadyLinks == Coroutines \cup {ReadyHead}

Queues == [link : [ReadyLinks -> Coroutines \cup {Nil}], back : [ReadyLinks -> ReadyLinks \cup {Nil}]]

Chained(q, s) == \A i \in 0..Len(s) : /\ q.link[LinkAt(s, i)] = BehindAt(s, i)
                                      /\ q.back[HolderAt(s, i)] = LinkAt(s, i)

LineOf(q, s) == /\ q \in Queues /\ s \in Seq(Coroutines)
                /\ Once(s) /\ Chained(q, s)
                /\ \A co \in Coroutines \ InLine(s) : q.link[co] = Nil

(* A link of the queue is the head's or a member's, and no two are the same. *)
LEMMA LinksOfLine ==
  ASSUME NEW s \in Seq(Coroutines), Once(s)
  PROVE  /\ Len(s) \in Nat
         /\ \A i \in 1..Len(s) : s[i] \in Coroutines /\ s[i] # Nil /\ s[i] # ReadyHead
         /\ \A i \in 0..Len(s) : /\ LinkAt(s, i) \in {ReadyHead} \cup InLine(s)
                                 /\ HolderAt(s, i) \in {ReadyHead} \cup InLine(s)
                                 /\ LinkAt(s, i) \in ReadyLinks /\ HolderAt(s, i) \in ReadyLinks
                                 /\ BehindAt(s, i) \in Coroutines \cup {Nil}
         /\ \A i, j \in 0..Len(s) : /\ LinkAt(s, i) = LinkAt(s, j) => i = j
                                    /\ HolderAt(s, i) = HolderAt(s, j) => i = j
<1>1. Len(s) \in Nat /\ \A i \in 1..Len(s) : s[i] \in Coroutines /\ s[i] \in InLine(s)
  BY LenProperties, ElementOfSeq DEF InLine
<1>2. \A co \in Coroutines : co # Nil /\ co # ReadyHead
  BY TimerAssumption, NodesAssumption
<1>3. \A i \in 0..Len(s) : (i # 0 => i \in 1..Len(s)) /\ (i # Len(s) => i + 1 \in 1..Len(s))
  BY <1>1
<1>4. ASSUME NEW i \in 0..Len(s)
      PROVE  /\ LinkAt(s, i) \in {ReadyHead} \cup InLine(s)
             /\ HolderAt(s, i) \in {ReadyHead} \cup InLine(s)
             /\ LinkAt(s, i) \in ReadyLinks /\ HolderAt(s, i) \in ReadyLinks
             /\ BehindAt(s, i) \in Coroutines \cup {Nil}
  BY <1>1, <1>3 DEF LinkAt, HolderAt, BehindAt, ReadyLinks
<1>5. ASSUME NEW i \in 0..Len(s), NEW j \in 0..Len(s), i # j PROVE LinkAt(s, i) # LinkAt(s, j)
  BY <1>1, <1>2, <1>3, <1>5 DEF LinkAt, Once
<1>6. ASSUME NEW i \in 0..Len(s), NEW j \in 0..Len(s), i # j PROVE HolderAt(s, i) # HolderAt(s, j)
  <2>1. i # Len(s) /\ j # Len(s) => s[i + 1] # s[j + 1]
    <3>1. i + 1 # j + 1
      BY <1>1, <1>6
    <3> QED
      BY <1>3, <3>1 DEF Once
  <2> QED
    BY <1>1, <1>2, <1>3, <1>6, <2>1 DEF HolderAt
<1> QED
  BY <1>1, <1>2, <1>4, <1>5, <1>6

(* TAILQ_INIT *)
LEMMA LineEmpty == LineOf(Ready!NoQueues, <<>>)
<1>1. <<>> \in Seq(Coroutines) /\ Len(<<>>) = 0 /\ 1..0 = {} /\ 0..0 = {0}
  BY EmptySeq
<1>2. Ready!NoQueues \in Queues /\ \A l \in ReadyLinks : Ready!NoQueues.link[l] = Nil
  BY DEF Ready!NoQueues, Ready!Links, Queues, ReadyLinks
<1>3. Ready!NoQueues.back[ReadyHead] = ReadyHead
  BY DEF Ready!NoQueues, Ready!Links
<1> QED
  BY <1>1, <1>2, <1>3 DEF LineOf, Once, Chained, LinkAt, BehindAt, HolderAt, ReadyLinks

(* TAILQ_EMPTY and TAILQ_FIRST *)
LEMMA LineFirst ==
  ASSUME NEW q, NEW s, LineOf(q, s)
  PROVE  /\ Ready!Empty(q, ReadyHead) <=> s = <<>>
         /\ s # <<>> => Ready!First(q, ReadyHead) = s[1] /\ 1 \in 1..Len(s)
<1>1. s \in Seq(Coroutines) /\ Once(s) /\ Chained(q, s)
  BY DEF LineOf
<1>2. Len(s) \in Nat /\ (s = <<>> <=> Len(s) = 0) /\ 0 \in 0..Len(s)
  BY <1>1, LenProperties, EmptySeq
<1>3. q.link[ReadyHead] = IF Len(s) = 0 THEN Nil ELSE s[1]
  BY <1>1, <1>2 DEF Chained, LinkAt, BehindAt
<1>4. s # <<>> => 1 \in 1..Len(s) /\ s[1] # Nil
  BY <1>1, <1>2, LinksOfLine
<1> QED
  BY <1>2, <1>3, <1>4 DEF Ready!Empty, Ready!First

(* What TAILQ_INSERT_TAIL writes *)
LEMMA InsertTailFields ==
  ASSUME NEW q \in Queues, NEW e \in Coroutines, q.back[ReadyHead] \in ReadyLinks,
         NEW b, b = q.back[ReadyHead], NEW r, r = Ready!InsertTail(q, ReadyHead, e)
  PROVE  /\ r \in Queues
         /\ \A l \in ReadyLinks : r.link[l] = IF l = b THEN e ELSE IF l = e THEN Nil ELSE q.link[l]
         /\ \A l \in ReadyLinks : r.back[l] = IF l = ReadyHead THEN e ELSE IF l = e THEN b ELSE q.back[l]
<1>1. e # ReadyHead /\ e \in ReadyLinks /\ ReadyHead \in ReadyLinks
  BY TimerAssumption DEF ReadyLinks
<1> QED
  BY <1>1 DEF Ready!InsertTail, Queues

(* ... puts a coroutine to the end. *)
LEMMA LineAppended ==
  ASSUME NEW q, NEW s, LineOf(q, s), NEW e \in Coroutines \ InLine(s)
  PROVE  LineOf(Ready!InsertTail(q, ReadyHead, e), Append(s, e))
<1>0. q \in Queues /\ s \in Seq(Coroutines) /\ Once(s) /\ Chained(q, s) /\ Len(s) \in Nat
  BY LinksOfLine DEF LineOf
<1>b. PICK b : b = q.back[ReadyHead]
  OBVIOUS
<1>r. PICK r : r = Ready!InsertTail(q, ReadyHead, e)
  OBVIOUS
<1>t. PICK t : t = Append(s, e)
  OBVIOUS
<1>1. /\ t \in Seq(Coroutines) /\ Len(t) = Len(s) + 1
      /\ \A i \in 1..Len(s) : t[i] = s[i]
      /\ t[Len(s) + 1] = e
  BY <1>0, <1>t, AppendProperties
<1>2. b = LinkAt(s, Len(s)) /\ b \in ReadyLinks
  BY <1>0, <1>b, LinksOfLine DEF Chained, HolderAt
<1>3. /\ r \in Queues
      /\ \A l \in ReadyLinks : r.link[l] = IF l = b THEN e ELSE IF l = e THEN Nil ELSE q.link[l]
      /\ \A l \in ReadyLinks : r.back[l] = IF l = ReadyHead THEN e ELSE IF l = e THEN b ELSE q.back[l]
  <2>1. q.back[ReadyHead] \in ReadyLinks /\ e \in Coroutines
    BY <1>2, <1>b
  <2> QED
    BY <1>0, <1>b, <1>r, <2>1, InsertTailFields
<1>4. /\ e \notin {ReadyHead} \cup InLine(s) /\ e \in ReadyLinks /\ ReadyHead \in ReadyLinks
  BY TimerAssumption DEF ReadyLinks
<1>5. Once(t)
  <2>1. \A i \in 1..Len(s) : s[i] # e
    BY DEF InLine
  <2> QED
    BY <1>0, <1>1, <2>1 DEF Once
<1>6. InLine(t) = InLine(s) \cup {e}
  BY <1>0, <1>1 DEF InLine
<1>7. \A co \in Coroutines \ InLine(t) : r.link[co] = Nil
  <2> SUFFICES ASSUME NEW co \in Coroutines \ InLine(t) PROVE r.link[co] = Nil
    OBVIOUS
  <2>1. co # e /\ co \in Coroutines \ InLine(s) /\ co \in ReadyLinks
    BY <1>6 DEF ReadyLinks
  <2>2. q.link[co] = Nil
    BY <2>1 DEF LineOf
  <2>3. b \in {ReadyHead} \cup InLine(s)
    BY <1>0, <1>2, LinksOfLine
  <2>4. co # b
    BY <2>1, <2>3, TimerAssumption
  <2> QED
    BY <1>3, <2>1, <2>2, <2>4
<1>8. ASSUME NEW i \in 0..Len(t)
      PROVE  r.link[LinkAt(t, i)] = BehindAt(t, i) /\ r.back[HolderAt(t, i)] = LinkAt(t, i)
  <2>1. CASE i < Len(s)
    <3>1. i \in 0..Len(s) /\ i + 1 \in 1..Len(s) /\ Len(s) \in 0..Len(s) /\ i # Len(t) /\ i # Len(s)
      BY <1>0, <1>1, <1>8, <2>1
    <3>2. LinkAt(t, i) = LinkAt(s, i) /\ BehindAt(t, i) = BehindAt(s, i) /\ HolderAt(t, i) = HolderAt(s, i)
      BY <1>0, <1>1, <3>1 DEF LinkAt, BehindAt, HolderAt
    <3>3. /\ LinkAt(s, i) # e /\ HolderAt(s, i) # e /\ LinkAt(s, i) # b
          /\ HolderAt(s, i) # ReadyHead
          /\ LinkAt(s, i) \in ReadyLinks /\ HolderAt(s, i) \in ReadyLinks
      <4>1. HolderAt(s, Len(s)) = ReadyHead
        BY DEF HolderAt
      <4> QED
        BY <1>0, <1>2, <1>4, <3>1, <4>1, LinksOfLine
    <3> QED
      BY <1>0, <1>3, <3>1, <3>2, <3>3 DEF Chained
  <2>2. CASE i = Len(s)
    <3>1. LinkAt(t, i) = b /\ BehindAt(t, i) = e /\ HolderAt(t, i) = e
      BY <1>0, <1>1, <1>2, <2>2 DEF LinkAt, BehindAt, HolderAt
    <3> QED
      BY <1>2, <1>3, <1>4, <3>1
  <2>3. CASE i = Len(s) + 1
    <3>1. LinkAt(t, i) = e /\ BehindAt(t, i) = Nil /\ HolderAt(t, i) = ReadyHead
      BY <1>0, <1>1, <2>3 DEF LinkAt, BehindAt, HolderAt
    <3>2. e # b
      BY <1>0, <1>2, <1>4, LinksOfLine
    <3> QED
      BY <1>3, <1>4, <3>1, <3>2
  <2> QED
    BY <1>0, <1>1, <1>8, <2>1, <2>2, <2>3
<1>9. Chained(r, t)
  BY <1>8 DEF Chained
<1> QED
  BY <1>1, <1>3, <1>5, <1>7, <1>9, <1>r, <1>t DEF LineOf

(* What TAILQ_REMOVE of the first writes *)
LEMMA RemoveFields ==
  ASSUME NEW q \in Queues, NEW e \in Coroutines, q.back[e] = ReadyHead,
         NEW n, n = q.link[e], NEW x, x = (IF n = Nil THEN ReadyHead ELSE n), x # e,
         NEW r, r = Ready!Remove(q, ReadyHead, e)
  PROVE  /\ r \in Queues
         /\ \A l \in ReadyLinks : r.link[l] = IF l = ReadyHead THEN n ELSE IF l = e THEN Nil ELSE q.link[l]
         /\ \A l \in ReadyLinks : l # e => r.back[l] = IF l = x THEN ReadyHead ELSE q.back[l]
<1>1. /\ e # ReadyHead /\ e \in ReadyLinks /\ ReadyHead \in ReadyLinks
      /\ n \in Coroutines \cup {Nil} /\ x \in ReadyLinks
  BY TimerAssumption DEF ReadyLinks, Queues
<1>q1. PICK q1 : q1 = Ready!PointBack(q, ReadyHead, e, ReadyHead)
  OBVIOUS
<1>2. /\ q1 \in Queues /\ q1.link = q.link
      /\ \A l \in ReadyLinks : q1.back[l] = IF l = x THEN ReadyHead ELSE q.back[l]
  BY <1>1, <1>q1 DEF Ready!PointBack, Queues
<1>3. r = [q1 EXCEPT !.link[ReadyHead] = n, !.link[e] = Nil, !.back[e] = Nil]
  BY <1>q1 DEF Ready!Remove
<1>4. /\ r.link = [[q1.link EXCEPT ![ReadyHead] = n] EXCEPT ![e] = Nil]
      /\ r.back = [q1.back EXCEPT ![e] = Nil]
      /\ r = [link |-> r.link, back |-> r.back]
  BY <1>2, <1>3 DEF Queues
<1>5. q1.link \in [ReadyLinks -> Coroutines \cup {Nil}] /\ q1.back \in [ReadyLinks -> ReadyLinks \cup {Nil}]
  BY <1>2 DEF Queues
<1>6. r.link \in [ReadyLinks -> Coroutines \cup {Nil}] /\ r.back \in [ReadyLinks -> ReadyLinks \cup {Nil}]
  BY <1>1, <1>4, <1>5
<1>7. r \in Queues
  BY <1>4, <1>6 DEF Queues
<1> QED
  BY <1>1, <1>2, <1>4, <1>5, <1>7

(* ... takes it out. *)
LEMMA LineRemoved ==
  ASSUME NEW q, NEW s, LineOf(q, s), s # <<>>
  PROVE  /\ LineOf(Ready!Remove(q, ReadyHead, s[1]), Tail(s))
         /\ InLine(Tail(s)) = InLine(s) \ {s[1]} /\ s[1] \in InLine(s)
<1>0. q \in Queues /\ s \in Seq(Coroutines) /\ Once(s) /\ Chained(q, s) /\ Len(s) \in Nat
  BY LinksOfLine DEF LineOf
<1>e. PICK e : e = s[1]
  OBVIOUS
<1>r. PICK r : r = Ready!Remove(q, ReadyHead, e)
  OBVIOUS
<1>t. PICK t : t = Tail(s)
  OBVIOUS
<1>n. PICK n : n = q.link[e]
  OBVIOUS
<1>x. PICK x : x = IF n = Nil THEN ReadyHead ELSE n
  OBVIOUS
<1>1. Len(s) # 0 /\ 1 \in 1..Len(s) /\ 0 \in 0..Len(s) /\ 1 \in 0..Len(s) /\ Len(s) - 1 \in Nat
  BY <1>0, EmptySeq
<1>2. /\ t \in Seq(Coroutines) /\ Len(t) = Len(s) - 1
      /\ \A i \in 1..Len(t) : t[i] = s[i + 1] /\ i + 1 \in 1..Len(s)
  BY <1>0, <1>1, <1>t, HeadTailProperties
<1>3. e \in Coroutines /\ e \in InLine(s) /\ e # ReadyHead
  BY <1>0, <1>1, <1>e, LinksOfLine DEF InLine
<1>4. /\ LinkAt(s, 0) = ReadyHead /\ HolderAt(s, 0) = e /\ LinkAt(s, 1) = e
      /\ n = BehindAt(s, 1) /\ x = HolderAt(s, 1) /\ q.back[e] = ReadyHead
  <2>1. LinkAt(s, 0) = ReadyHead /\ HolderAt(s, 0) = e /\ LinkAt(s, 1) = e
    BY <1>1, <1>e DEF LinkAt, HolderAt
  <2>2. n = BehindAt(s, 1) /\ q.back[e] = ReadyHead
    BY <1>0, <1>1, <1>n, <2>1 DEF Chained
  <2>3. 1 # Len(s) => s[1 + 1] # Nil
    <3>0. \A m \in Nat : m # 0 /\ m # 1 => 1 + 1 \in 1..m
      OBVIOUS
    <3>1. 1 # Len(s) => 1 + 1 \in 1..Len(s)
      BY <1>0, <1>1, <3>0
    <3> QED
      BY <1>0, <3>1, LinksOfLine
  <2>4. x = HolderAt(s, 1)
    BY <1>x, <2>2, <2>3 DEF BehindAt, HolderAt
  <2> QED
    BY <2>1, <2>2, <2>4
<1>5. x # e
  BY <1>0, <1>1, <1>4, LinksOfLine
<1>6. /\ r \in Queues
      /\ \A l \in ReadyLinks : r.link[l] = IF l = ReadyHead THEN n ELSE IF l = e THEN Nil ELSE q.link[l]
      /\ \A l \in ReadyLinks : l # e => r.back[l] = IF l = x THEN ReadyHead ELSE q.back[l]
  BY <1>0, <1>3, <1>4, <1>5, <1>n, <1>x, <1>r, RemoveFields
<1>7. Once(t)
  <2> SUFFICES ASSUME NEW i \in 1..Len(t), NEW j \in 1..Len(t), t[i] = t[j] PROVE i = j
    BY DEF Once
  <2>1. s[i + 1] = s[j + 1] /\ i + 1 \in 1..Len(s) /\ j + 1 \in 1..Len(s)
    BY <1>2
  <2>2. i + 1 = j + 1
    BY <1>0, <2>1 DEF Once
  <2> QED
    BY <1>1, <1>2, <2>2
<1>8. InLine(t) = InLine(s) \ {e}
  <2>1. ASSUME NEW c \in InLine(t) PROVE c \in InLine(s) \ {e}
    <3>1. PICK i \in 1..Len(t) : c = t[i]
      BY <2>1 DEF InLine
    <3>2. c = s[i + 1] /\ i + 1 \in 1..Len(s) /\ i + 1 # 1
      BY <1>1, <1>2, <3>1
    <3>3. c # s[1]
      BY <1>0, <1>1, <3>2 DEF Once
    <3> QED
      BY <1>e, <3>2, <3>3 DEF InLine
  <2>2. ASSUME NEW c \in InLine(s) \ {e} PROVE c \in InLine(t)
    <3>1. PICK i \in 1..Len(s) : c = s[i]
      BY <2>2 DEF InLine
    <3>2. i # 1
      BY <1>e, <2>2, <3>1
    <3>3. i - 1 \in 1..Len(t) /\ (i - 1) + 1 = i
      BY <1>0, <1>1, <1>2, <3>1, <3>2
    <3>4. t[i - 1] = s[i]
      BY <1>2, <3>3
    <3> QED
      BY <3>1, <3>3, <3>4 DEF InLine
  <2> QED
    BY <2>1, <2>2
<1>9. \A co \in Coroutines \ InLine(t) : r.link[co] = Nil
  <2> SUFFICES ASSUME NEW co \in Coroutines \ InLine(t) PROVE r.link[co] = Nil
    OBVIOUS
  <2>1. co \in ReadyLinks /\ co # ReadyHead /\ (co = e \/ co \in Coroutines \ InLine(s))
    BY <1>8, TimerAssumption DEF ReadyLinks
  <2>2. co # e => q.link[co] = Nil
    BY <2>1 DEF LineOf
  <2> QED
    BY <1>6, <2>1, <2>2
<1>10. ASSUME NEW i \in 0..Len(t)
       PROVE  r.link[LinkAt(t, i)] = BehindAt(t, i) /\ r.back[HolderAt(t, i)] = LinkAt(t, i)
  <2>1. /\ i + 1 \in 0..Len(s) /\ i + 1 # 0 /\ (i = Len(t) <=> i + 1 = Len(s))
        /\ i # 0 => i \in 1..Len(t) /\ i + 1 # 1
        /\ i # Len(t) => i + 1 \in 1..Len(t)
    BY <1>0, <1>1, <1>2, <1>10
  <2>2. /\ BehindAt(t, i) = BehindAt(s, i + 1) /\ HolderAt(t, i) = HolderAt(s, i + 1)
        /\ i # 0 => LinkAt(t, i) = LinkAt(s, i + 1)
        /\ i = 0 => LinkAt(t, i) = ReadyHead
    BY <1>2, <2>1 DEF BehindAt, HolderAt, LinkAt
  <2>3. /\ q.link[LinkAt(s, i + 1)] = BehindAt(s, i + 1)
        /\ q.back[HolderAt(s, i + 1)] = LinkAt(s, i + 1)
    BY <1>0, <2>1 DEF Chained
  <2>4. /\ LinkAt(s, i + 1) \in ReadyLinks /\ HolderAt(s, i + 1) \in ReadyLinks
        /\ LinkAt(s, i + 1) # ReadyHead /\ HolderAt(s, i + 1) # e
        /\ i # 0 => LinkAt(s, i + 1) # e /\ HolderAt(s, i + 1) # x
    BY <1>0, <1>1, <1>4, <2>1, LinksOfLine
  <2>5. CASE i = 0
    <3>1. i + 1 = 1
      BY <2>5
    <3>2. r.link[ReadyHead] = n /\ r.back[x] = ReadyHead
      BY <1>5, <1>6, <1>4, <2>4, <3>1 DEF ReadyLinks
    <3> QED
      BY <1>4, <2>2, <2>5, <3>1, <3>2
  <2>6. CASE i # 0
    BY <1>6, <2>2, <2>3, <2>4, <2>6
  <2> QED
    BY <2>5, <2>6
<1>11. Chained(r, t)
  BY <1>10 DEF Chained
<1> QED
  BY <1>2, <1>3, <1>6, <1>7, <1>8, <1>9, <1>11, <1>e, <1>r, <1>t DEF LineOf

(* What is left of the walk along the queue at the i-th link *)
Rest(s, i) == SubSeq(s, i + 1, Len(s))

(* It is all at the head, nothing at the last, and loses one a link. *)
LEMMA RestFacts ==
  ASSUME NEW s \in Seq(Coroutines)
  PROVE  /\ Rest(s, 0) = s /\ Rest(s, Len(s)) = <<>>
         /\ \A i \in 0..Len(s) : i # Len(s) => Rest(s, i) = <<s[i + 1]>> \o Rest(s, i + 1)
<1>1. Len(s) \in Nat
  BY LenProperties
<1>2. Rest(s, 0) = s
  <2>1. SubSeq(s, 1, Len(s)) = s
    BY SubSeqFull
  <2> QED
    BY <2>1 DEF Rest
<1>3. Rest(s, Len(s)) = <<>>
  <2>1. Len(s) + 1 \in Int /\ Len(s) \in Int /\ Len(s) < Len(s) + 1
    BY <1>1
  <2> QED
    BY <2>1, SubSeqEmpty DEF Rest
<1>4. ASSUME NEW i \in 0..Len(s), i # Len(s)
      PROVE  Rest(s, i) = <<s[i + 1]>> \o Rest(s, i + 1)
  <2>m. PICK m : m = i + 1
    OBVIOUS
  <2>1. m \in 1..Len(s) /\ Len(s) \in m..Len(s)
    BY <1>1, <1>4, <2>m
  <2>2. SubSeq(s, m, Len(s)) = <<s[m]>> \o SubSeq(s, m + 1, Len(s))
    BY <2>1, SubSeqRecursiveFirst
  <2> QED
    BY <2>m, <2>2 DEF Rest
<1> QED
  BY <1>2, <1>3, <1>4

(* The walk that a function on links describes *)
Walks(q, f) == \A l \in ReadyLinks :
                   f[l] = IF q.link[l] = Nil THEN <<>> ELSE <<q.link[l]>> \o f[q.link[l]]

(* The links of a line have such a function, ... *)
LEMMA WalkExists ==
  ASSUME NEW q, NEW s, LineOf(q, s)
  PROVE  \E f : f = [l \in ReadyLinks |-> f[l]] /\ Walks(q, f)
<1>0. q \in Queues /\ s \in Seq(Coroutines) /\ Once(s) /\ Chained(q, s) /\ Len(s) \in Nat
  BY LinksOfLine DEF LineOf
<1>at. PICK at : at = [l \in ReadyLinks |-> CHOOSE i \in 0..Len(s) : LinkAt(s, i) = l]
  OBVIOUS
<1>L. PICK L : L = {LinkAt(s, i) : i \in 0..Len(s)}
  OBVIOUS
<1>f. PICK f : f = [l \in ReadyLinks |-> IF l \in L THEN Rest(s, at[l]) ELSE <<>>]
  OBVIOUS
<1>1. \A i \in 0..Len(s) : LinkAt(s, i) \in ReadyLinks /\ LinkAt(s, i) \in L
  BY <1>0, <1>L, LinksOfLine
<1>2. ASSUME NEW i \in 0..Len(s) PROVE at[LinkAt(s, i)] = i
  <2>l. PICK l : l = LinkAt(s, i)
    OBVIOUS
  <2>1. \E j \in 0..Len(s) : LinkAt(s, j) = l
    BY <2>l
  <2>2. at[l] \in 0..Len(s) /\ LinkAt(s, at[l]) = l
    BY <1>1, <1>at, <2>l, <2>1
  <2> QED
    BY <1>0, <2>l, <2>2, LinksOfLine
<1>3. ASSUME NEW i \in 0..Len(s) PROVE f[LinkAt(s, i)] = Rest(s, i)
  BY <1>1, <1>2, <1>f
<1>4. ASSUME NEW i \in 0..Len(s)
      PROVE  LET l == LinkAt(s, i)
             IN  f[l] = IF q.link[l] = Nil THEN <<>> ELSE <<q.link[l]>> \o f[q.link[l]]
  <2>l. PICK l : l = LinkAt(s, i)
    OBVIOUS
  <2>1. q.link[l] = BehindAt(s, i)
    BY <1>0, <2>l DEF Chained
  <2>2. CASE i = Len(s)
    <3>1. q.link[l] = Nil
      BY <2>1, <2>2 DEF BehindAt
    <3>2. f[l] = <<>>
      BY <1>0, <1>3, <2>l, <2>2, RestFacts
    <3> QED
      BY <2>l, <3>1, <3>2
  <2>3. CASE i # Len(s)
    <3>1. i + 1 \in 0..Len(s) /\ i + 1 \in 1..Len(s) /\ i + 1 # 0
      BY <1>0, <2>3
    <3>2. q.link[l] = s[i + 1] /\ s[i + 1] # Nil /\ LinkAt(s, i + 1) = s[i + 1]
      BY <1>0, <2>1, <2>3, <3>1, LinksOfLine DEF BehindAt, LinkAt
    <3>3. f[s[i + 1]] = Rest(s, i + 1)
      BY <1>3, <3>1, <3>2
    <3>4. Rest(s, i) = <<s[i + 1]>> \o Rest(s, i + 1)
      BY <1>0, <2>3, RestFacts
    <3>5. f[l] = Rest(s, i)
      BY <1>3, <2>l
    <3> QED
      BY <2>l, <3>2, <3>3, <3>4, <3>5
  <2> QED
    BY <2>2, <2>3
<1>5. ASSUME NEW l \in ReadyLinks
      PROVE  f[l] = IF q.link[l] = Nil THEN <<>> ELSE <<q.link[l]>> \o f[q.link[l]]
  <2>1. CASE l \in L
    BY <1>4, <1>L, <2>1
  <2>2. CASE l \notin L
    <3>0. /\ 0 \in 0..Len(s) /\ LinkAt(s, 0) = ReadyHead
          /\ \A i \in 1..Len(s) : i \in 0..Len(s) /\ LinkAt(s, i) = s[i]
      BY <1>0 DEF LinkAt
    <3>1. l \in Coroutines \ InLine(s)
      BY <1>L, <2>2, <3>0 DEF ReadyLinks, InLine
    <3>2. q.link[l] = Nil
      BY <3>1 DEF LineOf
    <3> QED
      BY <1>f, <2>2, <3>2
  <2> QED
    BY <2>1, <2>2
<1>6. f = [l \in ReadyLinks |-> f[l]]
  BY <1>f
<1> QED
  BY <1>5, <1>6 DEF Walks

(* ... and any such function has the line at the head. *)
LEMMA WalkIsLine ==
  ASSUME NEW q, NEW s, LineOf(q, s), NEW f, Walks(q, f)
  PROVE  f[ReadyHead] = s
<1>0. q \in Queues /\ s \in Seq(Coroutines) /\ Once(s) /\ Chained(q, s) /\ Len(s) \in Nat
  BY LinksOfLine DEF LineOf
<1>T. PICK T : T = {j \in 0..Len(s) : f[LinkAt(s, Len(s) - j)] # Rest(s, Len(s) - j)}
  OBVIOUS
<1>1. T = {}
  <2> SUFFICES ASSUME T # {} PROVE FALSE
    OBVIOUS
  <2>1. T \subseteq Nat
    BY <1>0, <1>T
  <2>2. PICK j \in T : \A k \in T : j <= k
    BY <2>1, LeastNatural
  <2>i. PICK i : i = Len(s) - j
    OBVIOUS
  <2>3. /\ j \in 0..Len(s) /\ i \in 0..Len(s) /\ f[LinkAt(s, i)] # Rest(s, i)
        /\ (i = Len(s) <=> j = 0)
    BY <1>0, <1>T, <2>i
  <2>l. PICK l : l = LinkAt(s, i)
    OBVIOUS
  <2>4. /\ l \in ReadyLinks /\ q.link[l] = BehindAt(s, i)
    BY <1>0, <2>3, <2>l, LinksOfLine DEF Chained
  <2>5. f[l] = IF q.link[l] = Nil THEN <<>> ELSE <<q.link[l]>> \o f[q.link[l]]
    BY <2>4 DEF Walks
  <2>6. CASE i = Len(s)
    <3>1. q.link[l] = Nil
      BY <2>4, <2>6 DEF BehindAt
    <3>2. Rest(s, i) = <<>>
      BY <1>0, <2>6, RestFacts
    <3> QED
      BY <2>3, <2>5, <2>l, <3>1, <3>2
  <2>7. CASE i # Len(s)
    <3>1. /\ i + 1 \in 0..Len(s) /\ i + 1 \in 1..Len(s) /\ i + 1 # 0
          /\ j - 1 \in 0..Len(s) /\ ~(j <= j - 1) /\ i + 1 = Len(s) - (j - 1)
      BY <1>0, <2>3, <2>7, <2>i
    <3>2. q.link[l] = s[i + 1] /\ s[i + 1] # Nil /\ LinkAt(s, i + 1) = s[i + 1]
      BY <1>0, <2>4, <2>7, <3>1, LinksOfLine DEF BehindAt, LinkAt
    <3>3. f[LinkAt(s, Len(s) - (j - 1))] = Rest(s, Len(s) - (j - 1))
      BY <1>T, <2>2, <3>1
    <3>4. f[s[i + 1]] = Rest(s, i + 1)
      BY <3>1, <3>2, <3>3
    <3>5. Rest(s, i) = <<s[i + 1]>> \o Rest(s, i + 1)
      BY <1>0, <2>3, <2>7, RestFacts
    <3> QED
      BY <2>3, <2>5, <2>l, <3>2, <3>4, <3>5
  <2> QED
    BY <2>6, <2>7
<1>2. Len(s) \in 0..Len(s) /\ Len(s) - Len(s) = 0
  BY <1>0
<1>3. f[LinkAt(s, 0)] = Rest(s, 0)
  BY <1>1, <1>2, <1>T
<1> QED
  BY <1>0, <1>3, RestFacts DEF LinkAt

(* TAILQ_FOREACH visits the coroutines of the line in its order. *)
LEMMA LineContents ==
  ASSUME NEW q, NEW s, LineOf(q, s)
  PROVE  Ready!Contents(q, ReadyHead) = s
<1> DEFINE F == CHOOSE f : f = [l \in Ready!Links |->
                    IF q.link[l] = Nil THEN <<>> ELSE <<q.link[l]>> \o f[q.link[l]]]
<1>0. Ready!Links = ReadyLinks
  BY DEF Ready!Links, ReadyLinks
<1>1. \E f : f = [l \in Ready!Links |->
                  IF q.link[l] = Nil THEN <<>> ELSE <<q.link[l]>> \o f[q.link[l]]]
  <2>1. PICK f : f = [l \in ReadyLinks |-> f[l]] /\ Walks(q, f)
    BY WalkExists
  <2>2. f = [l \in Ready!Links |->
                  IF q.link[l] = Nil THEN <<>> ELSE <<q.link[l]>> \o f[q.link[l]]]
    BY <1>0, <2>1 DEF Walks
  <2> QED
    BY <2>2
<1>2. F = [l \in Ready!Links |->
                  IF q.link[l] = Nil THEN <<>> ELSE <<q.link[l]>> \o F[q.link[l]]]
  BY <1>1
<1>3. Ready!Contents(q, ReadyHead) = F[ReadyHead]
  BY DEF Ready!Contents
<1> HIDE DEF F
<1>4. Walks(q, F)
  BY <1>0, <1>2 DEF Walks
<1> QED
  BY <1>3, <1>4, WalkIsLine
-----------------------------------------------------------------------------
(* Quotient and remainder, and that there is one remainder only *)
LEMMA DivFacts ==
  ASSUME NEW a \in Nat, NEW b \in Nat \ {0}
  PROVE  /\ a \div b \in Nat /\ a % b \in 0..(b - 1)
         /\ a = b * (a \div b) + (a % b) /\ b * (a \div b) \in Nat
<1>1. a \div b \in Int /\ a % b \in 0..(b - 1) /\ a = b * (a \div b) + (a % b)
  <2>1. a \div b \in Int
    BY Z3
  <2>2. a % b \in 0..(b - 1)
    BY Z3
  <2>3. a = b * (a \div b) + (a % b)
    BY Z3
  <2> QED
    BY <2>1, <2>2, <2>3
<1>2. \A q, m, r \in Int : m > 0 /\ r < m /\ m * q + r >= 0 => q >= 0
  <2> SUFFICES ASSUME NEW q \in Int, NEW m \in Int, NEW r \in Int,
                      m > 0, r < m, q < 0
               PROVE  m * q + r < 0
    OBVIOUS
  <2>1. m * (q + 1) <= 0
    BY Z3
  <2>2. m * (q + 1) = m * q + m
    BY Z3
  <2> QED
    BY <2>1, <2>2, Z3
<1>3. a \div b \in Nat
  <2>1. a \div b >= 0
    BY <1>1, <1>2
  <2> QED
    BY <1>1, <2>1
<1>4. \A x, y \in Nat : x * y \in Nat
  BY Z3
<1> QED
  BY <1>1, <1>3, <1>4

(* Two divisions of the same number leave the same. *)
LEMMA OneRemainder ==
  ASSUME NEW m \in Nat \ {0}, NEW x \in Nat, NEW y \in Nat,
         NEW e \in 0..(m - 1), NEW f \in 0..(m - 1), m * x + e = m * y + f
  PROVE  e = f
<1>1. \A k, n \in Nat : k < n => m * n >= m * k + m
  <2> SUFFICES ASSUME NEW k \in Nat, NEW n \in Nat, k < n PROVE m * n >= m * k + m
    OBVIOUS
  <2>1. PICK d \in Nat : n = k + 1 + d
    <3>1. n - k - 1 \in Nat /\ n = k + 1 + (n - k - 1)
      OBVIOUS
    <3> QED
      BY <3>1
  <2>2. m * n = m * k + m + m * d /\ m * d >= 0 /\ m * k \in Nat /\ m * d \in Nat
    BY <2>1, Z3
  <2> QED
    BY <2>2
<1>2. m * x \in Nat /\ m * y \in Nat
  BY Z3
<1>3. ~(x < y) /\ ~(y < x)
  BY <1>1, <1>2
<1>4. x = y
  BY <1>3
<1> QED
  BY <1>2, <1>4

(* Cut into seconds and nanoseconds, and down to milliseconds, a time does *)
(* not grow.                                                               *)
LEMMA CutDown ==
  ASSUME NEW u \in Nat
  PROVE  WholeMillis(Timespec(u)) \in Nat /\ WholeMillis(Timespec(u)) <= u
<1>q. PICK q : q = u \div Sec
  OBVIOUS
<1>r. PICK r : r = u % Sec
  OBVIOUS
<1>c. PICK c : c = Sec \div Milli
  OBVIOUS
<1>0. Milli \in Nat \ {0} /\ Sec \in Nat \ {0} /\ Sec % Milli = 0
  BY TimerAssumption
<1>1. q \in Nat /\ r \in Nat /\ u = Sec * q + r /\ Sec * q \in Nat
  BY <1>0, <1>q, <1>r, DivFacts
<1>2. c \in Nat /\ Sec = Milli * c
  BY <1>0, <1>c, DivFacts
<1>3. /\ r \div Milli \in Nat /\ r % Milli \in 0..(Milli - 1)
      /\ r = Milli * (r \div Milli) + (r % Milli) /\ Milli * (r \div Milli) \in Nat
  BY <1>0, <1>1, DivFacts
<1>4. /\ u \div Milli \in Nat /\ u % Milli \in 0..(Milli - 1)
      /\ u = Milli * (u \div Milli) + (u % Milli)
  BY <1>0, DivFacts
<1>5. Milli * ((c * q) + (r \div Milli)) + (r % Milli) = Milli * (u \div Milli) + (u % Milli)
  <2>1. \A m, d, e, f \in Nat : m * (d * e + f) = (m * d) * e + m * f
    BY Z3
  <2>2. Milli * ((c * q) + (r \div Milli)) = Sec * q + Milli * (r \div Milli)
    BY <1>0, <1>1, <1>2, <1>3, <2>1
  <2> QED
    BY <1>1, <1>3, <1>4, <2>2
<1>6. (c * q) + (r \div Milli) \in Nat
  <2>1. \A x, y, z \in Nat : x * y + z \in Nat
    BY Z3
  <2> QED
    BY <1>1, <1>2, <1>3, <2>1
<1>7. u % Milli = r % Milli
  BY <1>0, <1>3, <1>4, <1>5, <1>6, OneRemainder
<1>8. u % Milli \in Nat /\ u % Milli <= r
  BY <1>0, <1>1, <1>3, <1>7
<1>v. PICK v : v = Timespec(u)
  OBVIOUS
<1>9. v \in Nat /\ v <= u
  <2>1. q * Sec = Sec * q
    BY <1>0, <1>1, Z3
  <2> QED
    BY <1>q, <1>v, <1>1, <1>8, <2>1 DEF Timespec
<1>10. /\ v \div Milli \in Nat /\ v % Milli \in 0..(Milli - 1)
       /\ v = Milli * (v \div Milli) + (v % Milli) /\ Milli * (v \div Milli) \in Nat
  BY <1>0, <1>9, DivFacts
<1>11. (v \div Milli) * Milli = Milli * (v \div Milli)
  BY <1>0, <1>10, Z3
<1>12. WholeMillis(v) \in Nat /\ WholeMillis(v) <= v
  BY <1>0, <1>10, <1>11 DEF WholeMillis
<1> QED
  BY <1>9, <1>12, <1>v
-----------------------------------------------------------------------------
(* Who waits in the ready queue lives, and neither sleeps nor runs. *)
Lined(s, A) == LineOf(queue, s) /\ InLine(s) \subseteq live \ (A \cup {curr})

SleepInv == \E A, s : SleepersKnown(A) /\ Lined(s, A)

(* The promise's state, from the sleepers A and the line s *)
DeadlineOf(A) == [co \in Coroutines |-> IF co \in A THEN sleep_usecs[co] ELSE 0]

(* The sleepers and the line are the ones the tree and the links show, ... *)
LEMMA ShownNow ==
  ASSUME NEW A, NEW s, SleepersKnown(A), Lined(s, A)
  PROVE  Asleep = A /\ Deadline = DeadlineOf(A) /\ Queued = s
<1>1. Asleep = A
  BY SleepersAre DEF SleepersKnown
<1>2. Queued = s
  BY LineContents DEF Lined, Queued
<1> QED
  BY <1>1, <1>2 DEF Deadline, DeadlineOf

(* ... after a step too. *)
LEMMA ShownNext ==
  ASSUME NEW A, NEW s, SleepersKnown(A)', Lined(s, A)'
  PROVE  Asleep' = A /\ Deadline' = DeadlineOf(A)' /\ Queued' = s
<1>1. Asleep' = A
  <2>1. Sound(sleeping', sleep_usecs', A)
    BY DEF SleepersKnown
  <2> QED
    BY <2>1, SleepersAreNext
<1>2. Queued' = s
  <2>1. LineOf(queue', s)
    BY DEF Lined
  <2>2. Ready!Contents(queue', ReadyHead) = s
    BY <2>1, LineContents
  <2> QED
    BY <2>2 DEF Queued
<1> QED
  BY <1>1, <1>2 DEF Deadline, DeadlineOf
-----------------------------------------------------------------------------
(* The state after a step, and what it looks like to those who sleep and    *)
(* queue: the sleepers go from A to B, the line from s to t.                *)
Became(B, t) == SleepersKnown(B)' /\ Lined(t, B)'

Kept(A, s, B, t) == Became(B, t) /\ [Promise!Next]_(Promise!vars)

Known(A, s) == SleepersKnown(A) /\ Lined(s, A)

(* Who may go to the end of the line *)
LEMMA LineGrows ==
  ASSUME NEW A, NEW s, Known(A, s), NEW co \in Coroutines \ (live \ (A \cup {curr})),
         queue' = Ready!InsertTail(queue, ReadyHead, co),
         InLine(s) \subseteq live' \ (A \cup {curr'}), co \in live' \ (A \cup {curr'})
  PROVE  Lined(Append(s, co), A)'
<1>1. LineOf(queue, s) /\ co \notin InLine(s) /\ s \in Seq(Coroutines)
  BY DEF Known, Lined, LineOf
<1>t. PICK t : t = Append(s, co)
  OBVIOUS
<1>2. LineOf(queue', t)
  BY <1>1, <1>t, LineAppended
<1>3. InLine(t) = InLine(s) \cup {co}
  <2>1. /\ Len(s) \in Nat /\ Len(t) = Len(s) + 1
        /\ \A i \in 1..Len(s) : t[i] = s[i]
        /\ t[Len(s) + 1] = co
    BY <1>1, <1>t, LenProperties, AppendProperties
  <2> QED
    BY <2>1 DEF InLine
<1> QED
  BY <1>2, <1>3, <1>t DEF Lined

(* Steps that leave the tree, its keys and time alone *)
LEMMA SleepersStay ==
  ASSUME NEW A, SleepersKnown(A), UNCHANGED <<now, sleeping, sleep_usecs>>, timeout' \in Nat,
         curr' \in Coroutines \cup {Nil}, A \subseteq live', live' \subseteq Coroutines,
         curr' # Nil => curr' \in live'
  PROVE  SleepersKnown(A)'
BY DEF SleepersKnown, ClockInv, LiveInv, AwakeInv

(* How a step of the code looks to those who sleep and queue *)
LEMMA PromisedQueue ==
  ASSUME NEW A, NEW s, Known(A, s), NEW co \in Coroutines, Became(A, Append(s, co)),
         UNCHANGED <<now, sleep_usecs>>
  PROVE  [Promise!Next]_(Promise!vars)
<1>1. Deadline = DeadlineOf(A) /\ Queued = s
  BY ShownNow DEF Known
<1>2. Deadline' = DeadlineOf(A)' /\ Queued' = Append(s, co)
  BY ShownNext DEF Became
<1>3. DeadlineOf(A)' = DeadlineOf(A)
  BY DEF DeadlineOf
<1>4. Promise!Queue(co)
  BY <1>1, <1>2, <1>3 DEF Promise!Queue
<1> QED
  BY <1>4 DEF Promise!Next

(* ... a step that neither the sleepers nor the line shows, ... *)
LEMMA PromisedStutter ==
  ASSUME NEW A, NEW s, Known(A, s), Became(A, s), UNCHANGED <<now, sleep_usecs>>
  PROVE  [Promise!Next]_(Promise!vars)
<1>1. Deadline = DeadlineOf(A) /\ Queued = s
  BY ShownNow DEF Known
<1>2. Deadline' = DeadlineOf(A)' /\ Queued' = s
  BY ShownNext DEF Became
<1>3. DeadlineOf(A)' = DeadlineOf(A)
  BY DEF DeadlineOf
<1> QED
  BY <1>1, <1>2, <1>3 DEF Promise!vars

(* ... and one that only takes time *)
LEMMA PromisedPass ==
  ASSUME NEW A, NEW s, Known(A, s), Became(A, s), now' > now, UNCHANGED sleep_usecs
  PROVE  [Promise!Next]_(Promise!vars)
<1>1. Deadline = DeadlineOf(A) /\ Queued = s
  BY ShownNow DEF Known
<1>2. Deadline' = DeadlineOf(A)' /\ Queued' = s
  BY ShownNext DEF Became
<1>3. DeadlineOf(A)' = DeadlineOf(A)
  BY DEF DeadlineOf
<1>4. Promise!Pass
  BY <1>1, <1>2, <1>3 DEF Promise!Pass
<1> QED
  BY <1>4 DEF Promise!Next
-----------------------------------------------------------------------------
(* Each step of the code keeps the sleepers and the line, and is a step of *)
(* the promise or none: nty_coroutine_sleep is a sleep, ...                 *)
LEMMA SleepKeeps ==
  ASSUME NEW A, NEW s, Known(A, s), NEW msecs \in Msecs, Sleep(msecs)
  PROVE  (\E B, t : Became(B, t)) /\ [Promise!Next]_(Promise!vars)
<1>0. /\ Asleep = A /\ SleepersKnown(A) /\ Lined(s, A) /\ curr # Nil
      /\ Deadline = DeadlineOf(A) /\ Queued = s
  BY ShownNow DEF Known, Sleep
<1>k. PICK k : SleptUntil(k)
  <2>1. TimerInv
    BY <1>0 DEF TimerInv
  <2> QED
    BY <2>1, SleepFacts
<1>B. PICK B : B = A \cup {curr}
  OBVIOUS
<1>1. /\ k \in Nat /\ k > now /\ \A x \in A \ {curr} : sleep_usecs[x] # k
      /\ sleep_usecs' = [sleep_usecs EXCEPT ![curr] = k]
      /\ Sound(sleeping', sleep_usecs', B)
  BY <1>0, <1>k, <1>B DEF SleptUntil
<1>2. UNCHANGED <<now, queue, curr, ops, live, phase, last, timeout>>
  BY DEF Sleep, SleepDown, SleepUntil
<1>3. curr \in Coroutines /\ curr \in live /\ curr \in Nodes /\ A \subseteq Nodes
  BY <1>0, CoroutinesAreNodes DEF SleepersKnown, ClockInv, LiveInv
<1>4. ClockInv' /\ LiveInv(B)'
  BY <1>0, <1>1, <1>2, <1>3, <1>B DEF SleepersKnown, ClockInv, LiveInv
<1>5. AwakeInv(B)'
  <2>1. /\ now \in Nat /\ sleep_usecs \in [Nodes -> Nat] /\ AwakeInv(A)
    BY <1>0 DEF SleepersKnown, ClockInv
  <2>2. sleep_usecs'[curr] = k /\ \A x \in Nodes \ {curr} : sleep_usecs'[x] = sleep_usecs[x]
    BY <1>1, <1>3, <2>1
  <2>3. \A co \in Nodes \ B : sleep_usecs'[co] <= now
    BY <1>B, <2>1, <2>2 DEF AwakeInv
  <2>4. \A co \in B : sleep_usecs'[co] > 0
    BY <1>1, <1>3, <1>B, <2>1, <2>2 DEF AwakeInv
  <2>5. \A co \in Nodes \ B, other \in B : sleep_usecs'[co] # sleep_usecs'[other]
    <3> SUFFICES ASSUME NEW co \in Nodes \ B, NEW other \in B
                 PROVE  sleep_usecs'[co] # sleep_usecs'[other]
      OBVIOUS
    <3>1. co \in Nodes \ A /\ co \in Nodes /\ co # curr /\ sleep_usecs'[co] = sleep_usecs[co]
      BY <1>B, <2>2
    <3>2. CASE other = curr
      <4>1. sleep_usecs'[co] <= now /\ sleep_usecs'[co] \in Nat
        BY <2>1, <2>3, <3>1
      <4> QED
        BY <1>1, <2>1, <2>2, <3>2, <4>1
    <3>3. CASE other # curr
      BY <1>3, <1>B, <2>1, <2>2, <3>1, <3>3 DEF AwakeInv
    <3> QED
      BY <3>2, <3>3
  <2> QED
    BY <1>2, <2>3, <2>4, <2>5 DEF AwakeInv
<1>6. Lined(s, B)'
  BY <1>0, <1>2, <1>B DEF Lined
<1>7. Became(B, s)
  BY <1>1, <1>4, <1>5, <1>6 DEF Became, SleepersKnown
<1>8. Deadline' = DeadlineOf(B)' /\ Queued' = s
  BY <1>7, ShownNext DEF Became
<1>9. DeadlineOf(B)' = [DeadlineOf(A) EXCEPT ![curr] = k]
  <2>1. sleep_usecs'[curr] = k /\ \A x \in Coroutines \ {curr} : sleep_usecs'[x] = sleep_usecs[x]
    BY <1>0, <1>1, <1>3, CoroutinesAreNodes DEF SleepersKnown, ClockInv
  <2>D. PICK D : D = DeadlineOf(B)'
    OBVIOUS
  <2>2. D = [co \in Coroutines |-> IF co \in B THEN sleep_usecs'[co] ELSE 0]
    BY <2>D DEF DeadlineOf
  <2> QED
    BY <1>B, <2>1, <2>2, <2>D DEF DeadlineOf
<1>D. PICK D : D = DeadlineOf(A)
  OBVIOUS
<1>10. D \in [Coroutines -> Nat] /\ \A co \in Coroutines \ A : D[co] = 0
  BY <1>0, <1>D, CoroutinesAreNodes DEF SleepersKnown, ClockInv, DeadlineOf
<1>11. Promise!Sleep(curr)
  <2>1. Deadline = D /\ Deadline' = [D EXCEPT ![curr] = k] /\ Deadline'[curr] = k
    BY <1>0, <1>3, <1>8, <1>9, <1>10, <1>D
  <2>2. ASSUME NEW other \in Promise!Sleepers \ {curr} PROVE D[other] # k
    <3>1. other \in Coroutines /\ D[other] # 0
      BY <2>1, <2>2 DEF Promise!Sleepers
    <3>2. other \in A \ {curr} /\ D[other] = sleep_usecs[other]
      BY <1>10, <1>D, <2>2, <3>1 DEF DeadlineOf
    <3> QED
      BY <1>1, <3>2
  <2> QED
    BY <1>0, <1>1, <1>2, <1>8, <2>1, <2>2 DEF Promise!Sleep
<1>12. Promise!Next
  BY <1>3, <1>11 DEF Promise!Next
<1> QED
  BY <1>7, <1>12

(* ... nty_schedule_expired wakes the earliest sleeper, ... *)
LEMMA ExpireKeeps ==
  ASSUME NEW A, NEW s, Known(A, s), Expire
  PROVE  (\E B, t : Became(B, t)) /\ [Promise!Next]_(Promise!vars)
<1>0. /\ Asleep = A /\ SleepersKnown(A) /\ Lined(s, A)
      /\ Deadline = DeadlineOf(A) /\ Queued = s /\ Sound(sleeping, sleep_usecs, A)
  BY ShownNow DEF Known, SleepersKnown
<1>m. PICK m : m = First
  OBVIOUS
<1>1. m # Nil /\ sleep_usecs[m] <= now
  BY <1>m DEF Expire, Due
<1>2. m \in A /\ \A x \in A : sleep_usecs[m] <= sleep_usecs[x]
  <2>1. m = MinMax(sleeping, "left")
    BY <1>m DEF First
  <2> QED
    BY <1>0, <1>1, <2>1, SoundMin
<1>B. PICK B : B = A \ {m}
  OBVIOUS
<1>3. /\ UNCHANGED <<now, sleep_usecs, queue, ops, live, phase, last, timeout>>
      /\ curr' = m /\ sleeping' = Remove(sleeping, m)
  BY <1>m DEF Expire
<1>4. Sound(sleeping', sleep_usecs', B)
  BY <1>0, <1>2, <1>3, <1>B, RemoveSound
<1>5. m \in Coroutines /\ m \in live /\ m \in Nodes /\ A \subseteq Nodes
  BY <1>0, <1>2, CoroutinesAreNodes DEF SleepersKnown, LiveInv
<1>6. ClockInv' /\ LiveInv(B)'
  BY <1>0, <1>3, <1>5, <1>B DEF SleepersKnown, ClockInv, LiveInv
<1>7. AwakeInv(B)'
  <2>1. AwakeInv(A) /\ \A x, y \in A : sleep_usecs[x] = sleep_usecs[y] => x = y
    BY <1>0, SoundFacts DEF SleepersKnown
  <2>2. AwakeInv(B)
    BY <1>1, <1>2, <1>5, <1>B, <2>1 DEF AwakeInv
  <2> QED
    BY <1>3, <2>2 DEF AwakeInv
<1>8. Lined(s, B)'
  BY <1>0, <1>2, <1>3, <1>B DEF Lined
<1>9. Became(B, s)
  BY <1>4, <1>6, <1>7, <1>8 DEF Became, SleepersKnown
<1>10. Deadline' = DeadlineOf(B)' /\ Queued' = s
  BY <1>9, ShownNext DEF Became
<1>D. PICK D : D = DeadlineOf(A)
  OBVIOUS
<1>11. DeadlineOf(B)' = [D EXCEPT ![m] = 0]
  BY <1>3, <1>5, <1>B, <1>D DEF DeadlineOf
<1>12. /\ D \in [Coroutines -> Nat] /\ \A co \in Coroutines \ A : D[co] = 0
       /\ \A co \in A : D[co] = sleep_usecs[co] /\ D[co] # 0
  BY <1>0, <1>D, CoroutinesAreNodes DEF SleepersKnown, ClockInv, LiveInv, AwakeInv, DeadlineOf
<1>13. Promise!Wake(m)
  <2>1. Deadline = D /\ Deadline' = [D EXCEPT ![m] = 0]
    BY <1>0, <1>10, <1>11, <1>D
  <2>2. Promise!Sleepers = A
    BY <1>0, <1>12, <2>1 DEF Promise!Sleepers, SleepersKnown, LiveInv
  <2> QED
    BY <1>0, <1>1, <1>2, <1>3, <1>10, <1>12, <2>1, <2>2 DEF Promise!Wake
<1>14. Promise!Next
  BY <1>5, <1>13 DEF Promise!Next
<1> QED
  BY <1>9, <1>14

(* ... the ready queue gives its first, ... *)
LEMMA RunReadyKeeps ==
  ASSUME NEW A, NEW s, Known(A, s), RunReady
  PROVE  (\E B, t : Became(B, t)) /\ [Promise!Next]_(Promise!vars)
<1>0. /\ SleepersKnown(A) /\ Lined(s, A) /\ LineOf(queue, s)
      /\ Deadline = DeadlineOf(A) /\ Queued = s
  BY ShownNow DEF Known, Lined
<1>1. s # <<>> /\ Ready!First(queue, ReadyHead) = s[1]
  BY <1>0, LineFirst DEF RunReady
<1>t. PICK t : t = Tail(s)
  OBVIOUS
<1>2. /\ UNCHANGED <<now, sleeping, sleep_usecs, ops, live, phase, last, timeout>>
      /\ curr' = s[1] /\ queue' = Ready!Remove(queue, ReadyHead, s[1])
  BY <1>1 DEF RunReady
<1>3. LineOf(queue', t) /\ InLine(t) = InLine(s) \ {s[1]} /\ s[1] \in InLine(s)
  BY <1>0, <1>1, <1>2, <1>t, LineRemoved
<1>4. curr' \in live /\ curr' \in Coroutines
  BY <1>0, <1>2, <1>3 DEF Lined, SleepersKnown, LiveInv
<1>5. SleepersKnown(A)'
  BY <1>0, <1>2, <1>4, SleepersStay DEF SleepersKnown, LiveInv, ClockInv
<1>6. Lined(t, A)'
  BY <1>0, <1>2, <1>3 DEF Lined
<1>7. Became(A, t)
  BY <1>5, <1>6 DEF Became
<1>8. Deadline' = DeadlineOf(A)' /\ Queued' = t /\ DeadlineOf(A)' = DeadlineOf(A)
  BY <1>2, <1>5, <1>6, ShownNext DEF DeadlineOf
<1>9. Promise!RunFirst
  BY <1>0, <1>1, <1>2, <1>8, <1>t DEF Promise!RunFirst
<1>10. Promise!Next
  BY <1>9 DEF Promise!Next
<1> QED
  BY <1>7, <1>10

(* Who goes to the end of the line: a new coroutine, one whose sleep is     *)
(* over at once, one that was nice for long enough.                         *)
LEMMA QueueKeeps ==
  ASSUME NEW A, NEW s, Known(A, s), NEW co \in Coroutines \ (live \ (A \cup {curr})),
         queue' = Ready!InsertTail(queue, ReadyHead, co),
         UNCHANGED <<now, sleeping, sleep_usecs, timeout>>,
         live \subseteq live', live' \subseteq Coroutines, co \in live' \ (A \cup {curr'}),
         curr' \in {curr, Nil}
  PROVE  (\E B, t : Became(B, t)) /\ [Promise!Next]_(Promise!vars)
<1>t. PICK t : t = Append(s, co)
  OBVIOUS
<1>0. SleepersKnown(A) /\ Lined(s, A) /\ Nil \notin Coroutines
  BY CoroutinesAreNodes DEF Known
<1>1. /\ timeout' \in Nat /\ curr' \in Coroutines \cup {Nil} /\ A \subseteq live'
      /\ curr' # Nil => curr' \in live'
      /\ InLine(s) \subseteq live' \ (A \cup {curr'})
  BY <1>0 DEF SleepersKnown, ClockInv, LiveInv, Lined
<1>2. SleepersKnown(A)'
  BY <1>0, <1>1, SleepersStay
<1>3. Lined(t, A)'
  BY <1>1, <1>t, LineGrows
<1>4. Became(A, t)
  BY <1>2, <1>3 DEF Became
<1>5. [Promise!Next]_(Promise!vars)
  BY <1>4, <1>t, PromisedQueue
<1> QED
  BY <1>4, <1>5

(* nty_coroutine_create *)
LEMMA CreateKeeps ==
  ASSUME NEW A, NEW s, Known(A, s), NEW new \in Coroutines, Create(new)
  PROVE  (\E B, t : Became(B, t)) /\ [Promise!Next]_(Promise!vars)
<1>1. LiveInv(A) /\ curr # Nil /\ new \notin live
  BY DEF Create, Known, SleepersKnown
<1>2. /\ queue' = Ready!InsertTail(queue, ReadyHead, new) /\ live' = live \cup {new}
      /\ UNCHANGED <<now, sleeping, sleep_usecs, timeout>> /\ curr' \in {curr, Nil}
  BY DEF Create
<1>3. /\ new \in Coroutines \ (live \ (A \cup {curr})) /\ live \subseteq live'
      /\ live' \subseteq Coroutines
  BY <1>1, <1>2 DEF LiveInv
<1>4. new \in live' \ (A \cup {curr'})
  BY <1>1, <1>2 DEF LiveInv, Create
<1> QED
  BY <1>2, <1>3, <1>4, QueueKeeps

(* nty_coroutine_sleep of nothing, and the last nty_coroutine_renice *)
LEMMA RequeueKeeps ==
  ASSUME NEW A, NEW s, Known(A, s), curr # Nil, curr \notin A,
         queue' = Ready!InsertTail(queue, ReadyHead, curr), Yield,
         UNCHANGED <<sleeping, sleep_usecs, live>>
  PROVE  (\E B, t : Became(B, t)) /\ [Promise!Next]_(Promise!vars)
<1>1. LiveInv(A) /\ Nil \notin Coroutines /\ curr \in live /\ curr \in Coroutines
  BY CoroutinesAreNodes DEF Known, SleepersKnown, LiveInv
<1>2. UNCHANGED <<now, sleeping, sleep_usecs, timeout>> /\ curr' = Nil
  BY DEF Yield
<1>3. /\ live \subseteq live' /\ live' \subseteq Coroutines /\ curr' \in {curr, Nil}
      /\ curr \in Coroutines \ (live \ (A \cup {curr})) /\ curr \in live' \ (A \cup {curr'})
  BY <1>1, <1>2 DEF LiveInv
<1> QED
  BY <1>2, <1>3, QueueKeeps

(* Steps that only the loop or the running coroutine sees *)
LEMMA StutterKeeps ==
  ASSUME NEW A, NEW s, Known(A, s), UNCHANGED <<now, sleeping, sleep_usecs, queue, live>>,
         timeout' \in Nat, curr' \in {curr, Nil}
  PROVE  (\E B, t : Became(B, t)) /\ [Promise!Next]_(Promise!vars)
<1>0. SleepersKnown(A) /\ Lined(s, A) /\ Nil \notin Coroutines
  BY CoroutinesAreNodes DEF Known
<1>1. /\ curr' \in Coroutines \cup {Nil} /\ A \subseteq live' /\ live' \subseteq Coroutines
      /\ curr' # Nil => curr' \in live'
      /\ InLine(s) \subseteq live' \ (A \cup {curr'})
  BY <1>0 DEF SleepersKnown, ClockInv, LiveInv, Lined
<1>2. SleepersKnown(A)'
  BY <1>0, <1>1, SleepersStay
<1>3. Became(A, s)
  BY <1>0, <1>1, <1>2 DEF Lined, Became
<1>4. [Promise!Next]_(Promise!vars)
  BY <1>3, PromisedStutter
<1> QED
  BY <1>3, <1>4

(* Time passes: what was over stays over. *)
LEMMA PassKeeps ==
  ASSUME NEW A, NEW s, Known(A, s), UNCHANGED <<sleeping, sleep_usecs, queue, curr, live>>,
         timeout' \in Nat, now' \in Nat, now' > now
  PROVE  (\E B, t : Became(B, t)) /\ [Promise!Next]_(Promise!vars)
<1>0. SleepersKnown(A) /\ Lined(s, A)
  BY DEF Known
<1>1. ClockInv' /\ LiveInv(A)' /\ Lined(s, A)' /\ Sound(sleeping', sleep_usecs', A)
  BY <1>0 DEF SleepersKnown, ClockInv, LiveInv, Lined
<1>2. AwakeInv(A)'
  <2>1. now \in Nat /\ \A co \in Nodes : sleep_usecs[co] \in Nat
    BY <1>0 DEF SleepersKnown, ClockInv
  <2>2. \A co \in Nodes \ A : sleep_usecs[co] <= now'
    BY <1>0, <2>1 DEF SleepersKnown, AwakeInv
  <2> QED
    BY <1>0, <2>2 DEF SleepersKnown, AwakeInv
<1>3. Became(A, s)
  BY <1>1, <1>2 DEF Became, SleepersKnown
<1>4. [Promise!Next]_(Promise!vars)
  BY <1>3, PromisedPass
<1> QED
  BY <1>3, <1>4

(* A coroutine that ends is in neither. *)
LEMMA ReturnKeeps ==
  ASSUME NEW A, NEW s, Known(A, s), Return
  PROVE  (\E B, t : Became(B, t)) /\ [Promise!Next]_(Promise!vars)
<1>0. /\ SleepersKnown(A) /\ Lined(s, A) /\ Asleep = A
      /\ Deadline = DeadlineOf(A) /\ Queued = s
  BY ShownNow DEF Known
<1>c. PICK c : c = curr
  OBVIOUS
<1>K. PICK K : K = [sleep_usecs EXCEPT ![c] = 0]
  OBVIOUS
<1>1. /\ UNCHANGED <<now, sleeping, queue, timeout>> /\ curr' = Nil
      /\ live' = live \ {c} /\ sleep_usecs' = K
  BY <1>c, <1>K DEF Return, Yield
<1>2. c \in Coroutines /\ c \in Nodes /\ c \in live /\ c \notin A /\ Nil \notin Coroutines
  BY <1>0, <1>c, CoroutinesAreNodes DEF Return, SleepersKnown, ClockInv, LiveInv
<1>3. /\ ClockInv /\ LiveInv(A) /\ AwakeInv(A) /\ Sound(sleeping, sleep_usecs, A)
  BY <1>0 DEF SleepersKnown
<1>4. /\ K \in [Nodes -> Nat] /\ K \in Keys
      /\ K[c] = 0 /\ \A x \in Nodes \ {c} : K[x] = sleep_usecs[x]
  BY <1>2, <1>3, <1>K DEF ClockInv, Keys
<1>5. A \subseteq Nodes /\ \A x \in A : K[x] = sleep_usecs[x]
  BY <1>2, <1>3, <1>4, CoroutinesAreNodes DEF LiveInv
<1>6. Sound(sleeping', sleep_usecs', A)
  BY <1>1, <1>3, <1>4, <1>5, SoundRekeyed
<1>7. ClockInv' /\ LiveInv(A)'
  BY <1>1, <1>2, <1>3, <1>4 DEF ClockInv, LiveInv
<1>8. AwakeInv(A)'
  <2>1. \A co \in Nodes \ A : K[co] <= now
    BY <1>2, <1>3, <1>4 DEF AwakeInv, ClockInv
  <2>2. \A co \in A : K[co] > 0
    BY <1>3, <1>5 DEF AwakeInv
  <2>3. \A co \in Nodes \ A, other \in A : K[co] # K[other]
    <3> SUFFICES ASSUME NEW co \in Nodes \ A, NEW other \in A PROVE K[co] # K[other]
      OBVIOUS
    <3>1. CASE co = c
      BY <1>4, <2>2, <3>1
    <3>2. CASE co # c
      BY <1>3, <1>4, <1>5, <3>2 DEF AwakeInv
    <3> QED
      BY <3>1, <3>2
  <2> QED
    BY <1>1, <2>1, <2>2, <2>3 DEF AwakeInv
<1>9. Lined(s, A)'
  BY <1>0, <1>1, <1>2, <1>3, <1>c DEF Lined, LiveInv
<1>10. Became(A, s)
  BY <1>6, <1>7, <1>8, <1>9 DEF Became, SleepersKnown
<1>11. Deadline' = DeadlineOf(A)' /\ Queued' = s
  BY <1>10, ShownNext DEF Became
<1>12. DeadlineOf(A)' = DeadlineOf(A)
  BY <1>1, <1>5 DEF DeadlineOf
<1> QED
  BY <1>0, <1>1, <1>10, <1>11, <1>12 DEF Promise!vars
-----------------------------------------------------------------------------
(* What epoll_wait is given *)
LEMMA WaitFacts ==
  ASSUME NEW A, SleepersKnown(A), WaitEpoll
  PROVE  timeout' \in Nat /\ \A co \in A : now + timeout' <= sleep_usecs[co]
<1>m. PICK m : m = MinMax(sleeping, "left")
  OBVIOUS
<1>u. PICK u : u = MinTimeout
  OBVIOUS
<1>1. /\ m = Nil <=> A = {}
      /\ m # Nil => m \in A /\ \A x \in A : sleep_usecs[m] <= sleep_usecs[x]
  BY <1>m, SoundMin DEF SleepersKnown
<1>2. timeout' = WholeMillis(Timespec(u)) /\ u # 0
  BY <1>u DEF WaitEpoll
<1>3. now \in Nat /\ \A x \in Nodes : sleep_usecs[x] \in Nat
  BY DEF SleepersKnown, ClockInv
<1>4. A \subseteq Nodes
  BY CoroutinesAreNodes DEF SleepersKnown, LiveInv
<1>5. u = IF m = Nil THEN DefaultTimeout
          ELSE IF sleep_usecs[m] > now THEN sleep_usecs[m] - now ELSE 0
  BY <1>m, <1>u DEF MinTimeout, First
<1>6. u \in Nat
  BY <1>1, <1>3, <1>4, <1>5, TimerAssumption
<1>7. timeout' \in Nat /\ timeout' <= u
  BY <1>2, <1>6, CutDown
<1>8. ASSUME NEW co \in A PROVE now + timeout' <= sleep_usecs[co]
  <2>1. m # Nil /\ m \in Nodes /\ sleep_usecs[m] <= sleep_usecs[co] /\ co \in Nodes
    BY <1>1, <1>4
  <2>2. u = sleep_usecs[m] - now
    BY <1>2, <1>5, <2>1
  <2>3. sleep_usecs[m] \in Nat /\ sleep_usecs[co] \in Nat
    BY <1>3, <2>1
  <2> QED
    BY <1>3, <1>7, <2>1, <2>2, <2>3
<1> QED
  BY <1>7, <1>8

(* So does whatever happens next. *)
LEMMA NextKeeps ==
  ASSUME NEW A, NEW s, Known(A, s), [Next]_vars
  PROVE  (\E B, t : Became(B, t)) /\ [Promise!Next]_(Promise!vars)
<1>0. /\ now \in Nat /\ timeout \in Nat /\ MaxNow \in Nat /\ SleepersKnown(A) /\ Asleep = A
  BY ShownNow, TimerAssumption DEF Known, SleepersKnown, ClockInv
<1>1. ASSUME NEW new \in Coroutines, Create(new)
      PROVE  (\E B, t : Became(B, t)) /\ [Promise!Next]_(Promise!vars)
  BY <1>1, CreateKeeps
<1>2. ASSUME NEW msecs \in Msecs, Sleep(msecs)
      PROVE  (\E B, t : Became(B, t)) /\ [Promise!Next]_(Promise!vars)
  BY <1>2, SleepKeeps
<1>3. CASE YieldAsleep
  <2>1. /\ UNCHANGED <<now, sleeping, sleep_usecs, queue, live>>
        /\ timeout' \in Nat /\ curr' \in {curr, Nil}
    BY <1>0, <1>3 DEF YieldAsleep, Yield
  <2> QED
    BY <2>1, StutterKeeps
<1>4. CASE SleepZero
  <2>1. /\ queue' = Ready!InsertTail(queue, ReadyHead, curr) /\ Yield
        /\ UNCHANGED <<sleeping, sleep_usecs, live>> /\ curr # Nil /\ curr \notin A
    BY <1>0, <1>4 DEF SleepZero
  <2> QED
    BY <2>1, RequeueKeeps
<1>5. CASE Renice
  <2>1. CASE ops + 1 < Nice
    <3>1. /\ UNCHANGED <<now, sleeping, sleep_usecs, queue, live>>
          /\ timeout' \in Nat /\ curr' \in {curr, Nil}
      BY <1>0, <1>5, <2>1 DEF Renice
    <3> QED
      BY <3>1, StutterKeeps
  <2>2. CASE ~(ops + 1 < Nice)
    <3>1. /\ queue' = Ready!InsertTail(queue, ReadyHead, curr) /\ Yield
          /\ UNCHANGED <<sleeping, sleep_usecs, live>> /\ curr # Nil /\ curr \notin A
      BY <1>0, <1>5, <2>2 DEF Renice
    <3> QED
      BY <3>1, RequeueKeeps
  <2> QED
    BY <2>1, <2>2
<1>6. CASE Return
  BY <1>6, ReturnKeeps
<1>7. CASE Tick
  <2>1. /\ UNCHANGED <<sleeping, sleep_usecs, queue, curr, live>>
        /\ timeout' \in Nat /\ now' \in Nat /\ now' > now
    BY <1>0, <1>7 DEF Tick
  <2> QED
    BY <2>1, PassKeeps
<1>8. CASE Expire
  BY <1>8, ExpireKeeps
<1>9. CASE NoneExpired
  <2>1. /\ UNCHANGED <<now, sleeping, sleep_usecs, queue, live>>
        /\ timeout' \in Nat /\ curr' \in {curr, Nil}
    BY <1>0, <1>9 DEF NoneExpired
  <2> QED
    BY <2>1, StutterKeeps
<1>10. CASE RunReady
  BY <1>10, RunReadyKeeps
<1>11. CASE SkipEpoll
  <2>1. /\ UNCHANGED <<now, sleeping, sleep_usecs, queue, live>>
        /\ timeout' \in Nat /\ curr' \in {curr, Nil}
    BY <1>0, <1>11 DEF SkipEpoll
  <2> QED
    BY <2>1, StutterKeeps
<1>12. CASE WaitEpoll
  <2>1. UNCHANGED <<now, sleeping, sleep_usecs, queue, live>> /\ curr' \in {curr, Nil}
    BY <1>12 DEF WaitEpoll
  <2>2. timeout' \in Nat
    BY <1>0, <1>12, WaitFacts
  <2> QED
    BY <2>1, <2>2, StutterKeeps
<1>13. CASE TimedOut
  <2>1. /\ UNCHANGED <<sleeping, sleep_usecs, queue, curr, live>> /\ timeout' = 0
        /\ now' \in (IF timeout = 0 THEN {now, now + 1} ELSE {now + timeout})
    BY <1>13 DEF TimedOut
  <2>2. now' = now \/ (now' \in Nat /\ now' > now)
    BY <1>0, <2>1
  <2>3. timeout' \in Nat
    BY <2>1
  <2>4. CASE now' = now
    <3>1. UNCHANGED <<now, sleeping, sleep_usecs, queue, live>> /\ curr' \in {curr, Nil}
      BY <2>1, <2>4
    <3> QED
      BY <2>3, <3>1, StutterKeeps
  <2>5. CASE now' \in Nat /\ now' > now
    BY <2>1, <2>3, <2>5, PassKeeps
  <2> QED
    BY <2>2, <2>4, <2>5
<1>14. CASE Interrupted
  <2>1. /\ UNCHANGED <<sleeping, sleep_usecs, queue, curr, live>>
        /\ timeout' \in Nat /\ now' \in Nat /\ now' > now
    BY <1>0, <1>14 DEF Interrupted
  <2> QED
    BY <2>1, PassKeeps
<1>15. CASE UNCHANGED vars
  <2>1. /\ UNCHANGED <<now, sleeping, sleep_usecs, queue, live>>
        /\ timeout' \in Nat /\ curr' \in {curr, Nil}
    BY <1>0, <1>15 DEF vars
  <2> QED
    BY <2>1, StutterKeeps
<1> QED
  BY <1>1, <1>2, <1>3, <1>4, <1>5, <1>6, <1>7, <1>8, <1>9, <1>10, <1>11, <1>12, <1>13,
     <1>14, <1>15 DEF Next, Call, RunLoop
-----------------------------------------------------------------------------
(* The scheduler that was just created, with its one coroutine *)
LEMMA InitKnown == Init => SleepInv /\ Promise!Init
<1> SUFFICES ASSUME Init PROVE SleepInv /\ Promise!Init
  OBVIOUS
<1>1. PICK co \in Coroutines : live = {co} /\ queue = Ready!InsertTail(Ready!NoQueues, ReadyHead, co)
  BY DEF Init
<1>s. PICK s : s = Append(<<>>, co)
  OBVIOUS
<1>2. InLine(<<>>) = {}
  BY DEF InLine
<1>3. LineOf(queue, s)
  BY <1>1, <1>2, <1>s, LineEmpty, LineAppended
<1>4. InLine(s) = {co} /\ Len(s) = 1
  BY <1>s DEF InLine
<1>5. Asleep = {} /\ SleepersKnown({})
  <2>1. sleep_usecs \in Keys
    BY DEF Init, Keys
  <2>2. Sound(sleeping, sleep_usecs, {})
    BY <2>1, EmptySound DEF Init
  <2>3. Asleep = {}
    BY <2>2, SleepersAre
  <2> QED
    BY <2>3, TimerInit DEF TimerInv
<1>6. Lined(s, {})
  BY <1>1, <1>3, <1>4, CoroutinesAreNodes DEF Lined, Init
<1>7. Deadline = DeadlineOf({}) /\ Queued = s
  BY <1>5, <1>6, ShownNow
<1>8. SleepInv
  BY <1>5, <1>6 DEF SleepInv
<1>9. Promise!Init
  BY <1>4, <1>7 DEF Promise!Init, DeadlineOf, Init
<1> QED
  BY <1>8, <1>9

(* The inductive invariant: the tree and the keys are those of a set of     *)
(* sleepers, the links those of a line, and nobody is in both or runs too.  *)
THEOREM SleepInvariant == Spec => []SleepInv
<1>1. Init => SleepInv
  BY InitKnown
<1>2. SleepInv /\ [Next]_vars => SleepInv'
  <2> SUFFICES ASSUME SleepInv, [Next]_vars PROVE SleepInv'
    OBVIOUS
  <2>1. PICK A, s : Known(A, s)
    BY DEF SleepInv, Known
  <2>2. PICK B, t : Became(B, t)
    BY <2>1, NextKeeps
  <2> QED
    BY <2>2 DEF SleepInv, Became
<1> QED
  BY <1>1, <1>2, PTL DEF Spec

(* nty_schedule_epoll never gives epoll_wait a timeout that outlasts the    *)
(* sleep that ends first, however it is cut into seconds, nanoseconds and   *)
(* milliseconds on the way.                                                 *)
THEOREM WaitsAreShortEnough == Spec => WaitsNoLongerThanSleep
<1>1. SleepInv => [WaitEpoll => \A co \in Asleep : now + timeout' <= sleep_usecs[co]]_vars
  <2> SUFFICES ASSUME SleepInv, WaitEpoll
               PROVE  \A co \in Asleep : now + timeout' <= sleep_usecs[co]
    OBVIOUS
  <2>1. PICK A, s : Known(A, s)
    BY DEF SleepInv, Known
  <2>2. Asleep = A /\ SleepersKnown(A)
    BY <2>1, ShownNow DEF Known
  <2> QED
    BY <2>2, WaitFacts
<1> QED
  BY <1>1, SleepInvariant, PTL DEF WaitsNoLongerThanSleep

(* nty_schedule.c's tree, keys and ready queue implement Timers: a sleep is *)
(* over at its own time and no other call ends it, sleepers of one wish get *)
(* ends of their own, the earliest goes first, and the ready queue loses    *)
(* nobody and lets nobody overtake.                                         *)
THEOREM SleepTimerImplementsTimers == Spec => ImplementsTimers
<1>1. Init => Promise!Init
  BY InitKnown
<1>2. SleepInv /\ [Next]_vars => [Promise!Next]_(Promise!vars)
  <2> SUFFICES ASSUME SleepInv, [Next]_vars PROVE [Promise!Next]_(Promise!vars)
    OBVIOUS
  <2>1. PICK A, s : Known(A, s)
    BY DEF SleepInv, Known
  <2> QED
    BY <2>1, NextKeeps
<1> QED
  BY <1>1, <1>2, SleepInvariant, PTL DEF Spec, ImplementsTimers, Promise!TimersSpec
=============================================================================
