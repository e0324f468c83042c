------------------------------ MODULE AVLTree ------------------------------
(***************************************************************************)
(* avl_tree_object.c: insertion and removal with their rebalancing, on     *)
(* the nodes of AVLNodes.  Both run under the tree's write lock and are    *)
(* one step.  Removal moves nodes and not data, so that a node keeps its   *)
(* key.  Overwriting the data of a key that is present (l. 222-229) and a   *)
(* malloc that fails change no link and are left out.                      *)
(***************************************************************************)
EXTENDS AVLNodes

VARIABLE n          \* the number of nodes

avlVars == <<tree, n>>

AVLInit ==
    /\ tree = [root |-> NULL,
               left |-> [k \in Keys |-> NULL], right |-> [k \in Keys |-> NULL],
               parent |-> [k \in Keys |-> NULL], balance |-> [k \in Keys |-> 0]]
    /\ n = 0

-----------------------------------------------------------------------------
(***************************************************************************)
(* Assignments to the fields of a node.                                    *)
(***************************************************************************)
SetBalance(t, x, b) == [t EXCEPT !.balance[x] = b]

\* "if (x) x->parent = p"
SetParent(t, x, p) == IF x = NULL THEN t ELSE [t EXCEPT !.parent[x] = p]

SetChild(t, child, parent, left) ==
    IF left THEN [t EXCEPT !.left[parent] = child] ELSE [t EXCEPT !.right[parent] = child]

\* The link that led to p leads to q.
Relink(t, p, q) ==
    LET above == t.parent[p]
    IN IF above = NULL THEN [t EXCEPT !.root = q]
       ELSE SetChild(t, q, above, t.left[above] = p)

RotateLeft(t, p) ==
    LET q == t.right[p]
        up == [Relink(t, p, q) EXCEPT !.parent[q] = t.parent[p], !.parent[p] = q]
        moved == SetParent([up EXCEPT !.right[p] = t.left[q]], t.left[q], p)
    IN [moved EXCEPT !.left[q] = p]

RotateRight(t, p) ==
    LET q == t.left[p]
        up == [Relink(t, p, q) EXCEPT !.parent[q] = t.parent[p], !.parent[p] = q]
        moved == SetParent([up EXCEPT !.left[p] = t.right[q]], t.right[q], p)
    IN [moved EXCEPT !.right[q] = p]

\* The two balances of a double rotation, from that of the grandchild, which
\* becomes the root of the subtree and gets balance 0.
DoubleLeft(t, x) ==
    LET r == t.right[x]
        m == t.left[r]
        b == t.balance[m]
        set == [t EXCEPT !.balance[x] = IF b = 1 THEN -1 ELSE 0,
                         !.balance[r] = IF b = -1 THEN 1 ELSE 0,
                         !.balance[m] = 0]
    IN RotateLeft(RotateRight(set, r), x)

DoubleRight(t, x) ==
    LET l == t.left[x]
        m == t.right[l]
        b == t.balance[m]
        set == [t EXCEPT !.balance[x] = IF b = -1 THEN 1 ELSE 0,
                         !.balance[l] = IF b = 1 THEN -1 ELSE 0,
                         !.balance[m] = 0]
    IN RotateRight(RotateLeft(set, l), x)

SingleLeft(t, x) == RotateLeft([t EXCEPT !.balance[x] = 0, !.balance[t.right[x]] = 0], x)
SingleRight(t, x) == RotateRight([t EXCEPT !.balance[x] = 0, !.balance[t.left[x]] = 0], x)

-----------------------------------------------------------------------------
(***************************************************************************)
(* The loops: a step is a turn, a finished loop stays as it is, and none   *)
(* has more turns than the tree has nodes.                                 *)
(***************************************************************************)
Loop(step, start) ==
    LET after[i \in 0 .. n] == IF i = 0 THEN start ELSE step[after[i - 1]]
    IN after[n]

(***************************************************************************)
(* avl_lookup_engine: the node found, or its would-be parent and side; and *)
(* the deepest node on the way whose balance is not 0, else the root.      *)
(***************************************************************************)
Places == [node : Keys \cup {NULL}, pparent : Keys \cup {NULL},
           unbalanced : Keys \cup {NULL}, is_left : BOOLEAN]

Descend(t, k, at) ==
    LET unbalanced == IF t.balance[at.node] # 0 THEN at.node ELSE at.unbalanced
        down == IF k < at.node THEN t.left[at.node] ELSE t.right[at.node]
    IN IF at.node = NULL THEN at
       ELSE IF k = at.node THEN [at EXCEPT !.unbalanced = unbalanced]
       ELSE [node |-> down, pparent |-> at.node, unbalanced |-> unbalanced, is_left |-> k < at.node]

avl_lookup_engine(t, k) ==
    Loop([at \in Places |-> Descend(t, k, at)],
         [node |-> t.root, pparent |-> NULL, unbalanced |-> t.root, is_left |-> FALSE])

Found(k) == avl_lookup_engine(tree, k).node # NULL

\* From the new node up to unbalanced, each parent leans to its side.
Leans == [node : Keys, balance : [Keys -> Int]]

LeanOnce(t, unbalanced, s) ==
    LET p == t.parent[s.node]
    IN IF s.node = unbalanced THEN s
       ELSE [node |-> p, balance |-> [s.balance EXCEPT ![p] = @ + (IF t.left[p] = s.node THEN -1 ELSE 1)]]

Lean(t, k, unbalanced) ==
    [t EXCEPT !.balance = Loop([s \in Leans |-> LeanOnce(t, unbalanced, s)],
                               [node |-> k, balance |-> t.balance]).balance]

Rebalance(t, x) ==
    CASE t.balance[x] = 2 -> IF t.balance[t.right[x]] = 1 THEN SingleLeft(t, x) ELSE DoubleLeft(t, x)
      [] t.balance[x] = -2 -> IF t.balance[t.left[x]] = -1 THEN SingleRight(t, x) ELSE DoubleRight(t, x)
      [] OTHER -> t

\* The new node, linked and leant on; new_avl_node has cleared its fields.
avl_tree_insert(k) ==
    LET at == avl_lookup_engine(tree, k)
        new == [tree EXCEPT !.left[k] = NULL, !.right[k] = NULL,
                            !.parent[k] = at.pparent, !.balance[k] = 0]
    IN
    /\ ~Found(k)
    /\ n' = n + 1
    /\ tree' = IF at.pparent = NULL THEN [new EXCEPT !.root = k]
               ELSE LET leant == Lean(SetChild(new, k, at.pparent, at.is_left), k, at.unbalanced)
                    IN Rebalance(leant, at.unbalanced)

-----------------------------------------------------------------------------
(***************************************************************************)
(* thread_unsafe_avl_tree_remove: take the node out, put its successor in  *)
(* its place if it has two children, and walk up from where the tree got   *)
(* lower.  Unlinked is the tree, that place and its side.                  *)
(***************************************************************************)
get_first(t, x) == Loop([y \in Keys |-> IF t.left[y] = NULL THEN y ELSE t.left[y]], x)

\* Mutant: the right subtree of the successor is dropped.
UnlinkedDropsRight(t, x) ==
    LET parent == t.parent[x]
        left == t.left[x]
        right == t.right[x]
        next == IF left = NULL THEN right ELSE IF right = NULL THEN left ELSE get_first(t, right)
        off == Relink(t, x, next)
    IN IF left = NULL \/ right = NULL
       THEN [tree |-> SetParent(off, next, parent), parent |-> parent,
             is_left |-> parent # NULL /\ t.left[parent] = x]
       ELSE LET s == SetParent([off EXCEPT !.left[next] = left, !.balance[next] = t.balance[x]],
                               left, next)
            IN IF next = right
               THEN [tree |-> [s EXCEPT !.parent[next] = parent],
                     parent |-> next, is_left |-> FALSE]
               ELSE LET p == t.parent[next]
                        r == [s EXCEPT !.parent[next] = parent, !.left[p] = NULL,
                                       !.right[next] = right, !.parent[right] = next]
                    IN [tree |-> r, parent |-> p, is_left |-> TRUE]

Unlinked(t, x) ==
    LET parent == t.parent[x]
        left == t.left[x]
        right == t.right[x]
        next == IF left = NULL THEN right ELSE IF right = NULL THEN left ELSE get_first(t, right)
        off == Relink(t, x, next)
    IN IF left = NULL \/ right = NULL
       THEN [tree |-> SetParent(off, next, parent), parent |-> parent,
             is_left |-> parent # NULL /\ t.left[parent] = x]
       ELSE LET s == SetParent([off EXCEPT !.left[next] = left, !.balance[next] = t.balance[x]],
                               left, next)
            IN IF next = right
               THEN [tree |-> [s EXCEPT !.parent[next] = parent],
                     parent |-> next, is_left |-> FALSE]
               ELSE LET p == t.parent[next]
                        r == [s EXCEPT !.parent[next] = parent, !.left[p] = t.right[next],
                                       !.right[next] = right, !.parent[right] = next]
                    IN [tree |-> SetParent(r, t.right[next], p), parent |-> p, is_left |-> TRUE]

Walks == [tree : Trees, node : Keys \cup {NULL}, is_left : BOOLEAN]

\* Mutant: stops after the first rotation.
LowerOnceStops(t, x, is_left) ==
    LET above == t.parent[x]
        s == SetBalance(t, x, t.balance[x] + (IF is_left THEN 1 ELSE -1))
        child == IF is_left THEN t.right[x] ELSE t.left[x]
        even == IF is_left THEN RotateLeft([s EXCEPT !.balance[x] = 1, !.balance[child] = -1], x)
                ELSE RotateRight([s EXCEPT !.balance[x] = -1, !.balance[child] = 1], x)
        Up(tr) == [tree |-> tr, node |-> above, is_left |-> above # NULL /\ t.left[above] = x]
        Done(tr) == [tree |-> tr, node |-> NULL, is_left |-> is_left]
    IN CASE s.balance[x] = 0 -> Up(s)
         [] s.balance[x] \in {1, -1} -> Done(s)
         [] OTHER -> IF s.balance[child] = 0 THEN Done(even) ELSE Done(Rebalance(s, x))

\* One subtree of x got lower.  If that makes x lower too, so does the side
\* of x in its parent; a rotation around a child with balance 0 keeps the
\* height.  The parent and the side are read before the rotation moves x.
LowerOnce(t, x, is_left) ==
    LET above == t.parent[x]
        s == SetBalance(t, x, t.balance[x] + (IF is_left THEN 1 ELSE -1))
        child == IF is_left THEN t.right[x] ELSE t.left[x]
        even == IF is_left THEN RotateLeft([s EXCEPT !.balance[x] = 1, !.balance[child] = -1], x)
                ELSE RotateRight([s EXCEPT !.balance[x] = -1, !.balance[child] = 1], x)
        Up(tr) == [tree |-> tr, node |-> above, is_left |-> above # NULL /\ t.left[above] = x]
        Done(tr) == [tree |-> tr, node |-> NULL, is_left |-> is_left]
    IN CASE s.balance[x] = 0 -> Up(s)
         [] s.balance[x] \in {1, -1} -> Done(s)
         [] OTHER -> IF s.balance[child] = 0 THEN Done(even) ELSE Up(Rebalance(s, x))

Lower(t, x, is_left) ==
    Loop([w \in Walks |-> IF w.node = NULL THEN w ELSE LowerOnce(w.tree, w.node, w.is_left)],
         [tree |-> t, node |-> x, is_left |-> is_left]).tree

Cleared(t, k) == [t EXCEPT !.left[k] = NULL, !.right[k] = NULL, !.parent[k] = NULL, !.balance[k] = 0]

avl_tree_remove(k) ==
    LET out == Unlinked(tree, k)
    IN
    /\ Found(k)
    /\ tree' = Cleared(Lower(out.tree, out.parent, out.is_left), k)
    /\ n' = n - 1

AVLNext == \E k \in Keys : avl_tree_insert(k) \/ avl_tree_remove(k)

AVLSpec == AVLInit /\ [][AVLNext]_avlVars

-----------------------------------------------------------------------------
(***************************************************************************)
(* Properties.                                                             *)
(***************************************************************************)
Below(x) == BelowIn(tree)[x]
Height(x) == HeightIn(tree)[x]

Contents == Below(tree.root)

\* The fields keep their types, the balances are settled between calls, and
\* n counts the nodes.
AVLTypeOK ==
    /\ tree \in [root : Keys \cup {NULL}, left : Pointers, right : Pointers,
                 parent : Pointers, balance : [Keys -> -1..1]]
    /\ n = Cardinality(Contents)

\* Every stored balance is the difference of the heights, and it is -1, 0 or
\* 1: what insertion, double rotation and the walk up of a removal each
\* assume of the others.
Balanced ==
    \A x \in Contents :
        /\ tree.balance[x] = Height(tree.right[x]) - Height(tree.left[x])
        /\ tree.balance[x] \in -1..1

\* Smaller keys are in the left subtree, bigger ones in the right one.
Ordered ==
    \A x \in Contents :
        /\ \A y \in Below(tree.left[x]) : y < x
        /\ \A y \in Below(tree.right[x]) : y > x

\* The parent links, which removal, rotation and iterate go up by, are the
\* reverse of the child links.
ParentsAgree ==
    /\ tree.root # NULL => tree.parent[tree.root] = NULL
    /\ \A x \in Contents, y \in Keys :
          y \in {tree.left[x], tree.right[x]} => tree.parent[y] = x

\* What every call finds and leaves: each of insertion, removal and their
\* rotations relies on all of it, of links and balances that other calls
\* have set.
IsAVLTree == AVLTypeOK /\ Ordered /\ ParentsAgree /\ Balanced

\* A step that changes the tree adds or removes the one key that was asked for,
\* and loses no other node however much it rotates.
ChangesOneKey ==
    [][tree' # tree =>
         LET before == Contents
             after == Contents'
         IN  \E k \in Keys : \/ after = before \cup {k} /\ avl_tree_insert(k)
                             \/ after = before \ {k} /\ avl_tree_remove(k)]_avlVars
=============================================================================
