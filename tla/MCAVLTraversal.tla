--------------------------- MODULE MCAVLTraversal ---------------------------
(***************************************************************************)
(* Instances of AVLTraversal: every AVL tree over the first keys, with    *)
(* room between the keys for searches that fail.                           *)
(***************************************************************************)
EXTENDS AVLTraversal, TLC

CONSTANTS t1, t2

KeyOf(i) == 2 * i
FirstKeys(n) == {KeyOf(i) : i \in 1..n}

\* Two subtrees joined by a node.
Join(l, x, r) ==
    [root |-> x,
     left |-> (x :> l.root) @@ l.left @@ r.left,
     right |-> (x :> r.root) @@ l.right @@ r.right]

RECURSIVE Shapes(_, _)
Shapes(lo, hi) ==
    IF lo > hi THEN {[root |-> NULL, left |-> <<>>, right |-> <<>>]}
    ELSE UNION {{Join(l, KeyOf(i), r) : l \in Shapes(lo, i - 1), r \in Shapes(i + 1, hi)} : i \in lo..hi}

\* The AVL trees over the first n of Keys.
AVLTrees(n) ==
    LET linked ==
            {[root |-> s.root,
              left |-> [x \in Keys |-> IF x \in DOMAIN s.left THEN s.left[x] ELSE NULL],
              right |-> [x \in Keys |-> IF x \in DOMAIN s.right THEN s.right[x] ELSE NULL],
              parent |-> [x \in Keys |->
                            IF \E y \in DOMAIN s.left : x \in {s.left[y], s.right[y]}
                            THEN CHOOSE y \in DOMAIN s.left : x \in {s.left[y], s.right[y]} ELSE NULL]] :
                s \in Shapes(1, n)}
        \* With the balance of each node.
        weighed(t) ==
            [root |-> t.root, left |-> t.left, right |-> t.right, parent |-> t.parent,
             balance |-> [x \in Keys |-> HeightIn(t)[t.right[x]] - HeightIn(t)[t.left[x]]]]
    IN {t \in {weighed(s) : s \in linked} : WellFormed(t)}

Keys3 == FirstKeys(3)
Keys4 == FirstKeys(4)
Trees3 == AVLTrees(3)
TreesUpTo4 == UNION {AVLTrees(n) : n \in 0..4}

OneTraverses == (t1 :> {"morris", "iterate", "search", "destroy"}) @@ (t2 :> {"search"})
BothMorris == [t \in {t1, t2} |-> {"morris"}]

\* Handlers search, but not in a Morris traversal.
HandlersSearch == [op \in Traversals \cup {"destroy"} |-> IF op = "morris" THEN {} ELSE {"search"}]
NoneNested == [op \in Traversals \cup {"destroy"} |-> {}]
=============================================================================
