------------------------------ MODULE AVLNodes ------------------------------
(***************************************************************************)
(* avl_tree_object.h: the nodes of a tree and the links between them,      *)
(* which AVLTree changes and AVLTraversal walks along.  A node is named by *)
(* its key, which it never changes, wherever malloc has put it.            *)
(***************************************************************************)
EXTENDS Integers, FiniteSets

CONSTANTS
    Keys,           \* a set of integers, ordered as cmpf orders the data
    NULL

ASSUME KeysAssumption == Keys \subseteq Int /\ NULL \notin Keys

VARIABLE tree       \* root_node and the links and balances of all nodes

Pointers == [Keys -> Keys \cup {NULL}]

Trees == [root : Keys \cup {NULL}, left : Pointers, right : Pointers,
          parent : Pointers, balance : [Keys -> Int]]

-----------------------------------------------------------------------------
(***************************************************************************)
(* What the links and balances of a tree t have to be.                     *)
(***************************************************************************)
\* The nodes of the subtree of each node, and its height.
BelowIn(t) ==
    LET below[x \in Keys \cup {NULL}] ==
            IF x = NULL THEN {} ELSE {x} \cup below[t.left[x]] \cup below[t.right[x]]
    IN below

Higher(a, b) == IF a > b THEN a ELSE b

HeightIn(t) ==
    LET height[x \in Keys \cup {NULL}] ==
            IF x = NULL THEN 0 ELSE 1 + Higher(height[t.left[x]], height[t.right[x]])
    IN height

\* A side is 0 or 1, left or right.
Sides == {0, 1}

Child(t, x, s) == IF s = 0 THEN t.left[x] ELSE t.right[x]

\* y belongs on side s of x.
Before(s, y, x) == IF s = 0 THEN y < x ELSE x < y

\* The links from node x, where f[y] is the set of the nodes below y, y too.
Linked(t, C, f, x) ==
    /\ f[x] \subseteq C
    /\ f[x] = {x} \cup f[Child(t, x, 0)] \cup f[Child(t, x, 1)]
    /\ \A s \in Sides :
         /\ Child(t, x, s) \in C \cup {NULL}
         /\ Child(t, x, s) # NULL => t.parent[Child(t, x, s)] = x
         /\ \A y \in f[Child(t, x, s)] : Before(s, y, x)

\* The nodes of t are C.
Shape(t, C, f) ==
    /\ t \in Trees
    /\ C \subseteq Keys /\ IsFiniteSet(C)
    /\ f[NULL] = {}
    /\ t.root \in C \cup {NULL} /\ f[t.root] = C
    /\ t.root # NULL => t.parent[t.root] = NULL
    /\ \A x \in C : Linked(t, C, f, x)

\* H has the height of the subtrees of x, and x has its balance and height.
Level(t, H, x) ==
    /\ H[t.left[x]] \in Nat /\ H[t.right[x]] \in Nat
    /\ t.balance[x] = H[t.right[x]] - H[t.left[x]]
    /\ t.balance[x] \in -1 .. 1
    /\ H[x] = 1 + Higher(H[t.left[x]], H[t.right[x]])

IsTree(t, C, f, H) ==
    /\ Shape(t, C, f)
    /\ H[NULL] = 0
    /\ \A x \in C : Level(t, H, x)

\* What is not in the tree is cleared.
Whole(t, C) == \A x \in Keys \ C : t.left[x] = NULL /\ t.right[x] = NULL /\ t.balance[x] = 0

\* What every call finds and leaves.
WellFormed(t) ==
    LET C == BelowIn(t)[t.root]
    IN IsTree(t, C, BelowIn(t), HeightIn(t)) /\ Whole(t, C)
=============================================================================
