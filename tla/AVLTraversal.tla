---------------------------- MODULE AVLTraversal ----------------------------
(***************************************************************************)
(* avl_tree_object.c: the calls that walk the tree.  The two traversals    *)
(* and the search run under the READ lock, so that several threads are in  *)
(* them at once, and they call a user function that may call the tree      *)
(* again.  A Morris traversal changes right links while it runs, and       *)
(* iterate marks the nodes.  Destroy runs alone.                           *)
(*                                                                         *)
(* One step is one access to a link that another thread may change; one    *)
(* turn of the loop of iterate is a step.                                  *)
(***************************************************************************)
EXTENDS AVLNodes, Sequences

CONSTANTS
    SearchKeys,     \* what is searched for
    Originals,      \* the trees that the calls may find
    Callers,        \* threads
    Ops,            \* Ops[t]: what thread t calls
    Nested,         \* Nested[op]: what the user function of op calls on the same tree
    MaxCalls        \* bound on the calls of each thread, nested ones aside

ASSUME SearchAssumption == SearchKeys \subseteq Int

\* The trees that avl_tree_insert and avl_tree_remove leave.
ASSUME OriginalsAssumption == \A o \in Originals : WellFormed(o)

VARIABLES
    original,                   \* the tree before the calls
    left_visited, right_visited,
    should_not_be_modified,
    freed,                      \* the nodes destroy has freed
    stack,                      \* stack[t]: the calls thread t is in, innermost first
    calls                       \* calls[t]: how many t has made

nodeVars == <<tree, left_visited, right_visited>>
walkVars == <<original, nodeVars, should_not_be_modified, freed, stack, calls>>

Traversals == {"morris", "iterate"}

WalkInit ==
    /\ original \in Originals
    /\ tree = original
    /\ left_visited = [x \in Keys |-> FALSE]
    /\ right_visited = [x \in Keys |-> FALSE]
    /\ should_not_be_modified = FALSE
    /\ freed = {}
    /\ stack = [t \in Callers |-> <<>>]
    /\ calls = [t \in Callers |-> 0]

-----------------------------------------------------------------------------
Nodes == BelowIn(original)[original.root]

Top(t) == stack[t][1]

In(t, op, pc) == stack[t] # <<>> /\ Top(t).op = op /\ Top(t).pc = pc

Running(op) == \E t \in Callers : \E i \in DOMAIN stack[t] : stack[t][i].op = op

\* The local variables of a call; from is the parameter root and seen lists
\* the nodes handed to the user function.
Frame(op, from, key) ==
    [op |-> op, pc |-> "enter", from |-> from, key |-> key,
     root |-> from, current |-> NULL, failed |-> FALSE, seen |-> <<>>]

\* Readers keep destroy out and destroy keeps them out, but for the thread
\* that is in the user function; nothing is called after destroy.
MayEnter(t, op) ==
    /\ tree.root # NULL \/ freed = {}
    /\ IF stack[t] = <<>>
       THEN /\ calls[t] < MaxCalls
            /\ op \in Ops[t]
            /\ ~Running("destroy")
            /\ op = "destroy" => \A u \in Callers : stack[u] = <<>>
       ELSE Top(t).pc = "called" /\ op \in Nested[Top(t).op]

Call(t, op) ==
    /\ MayEnter(t, op)
    /\ \E from \in (IF op \in Traversals THEN {NULL} \cup Nodes ELSE {NULL}),
          key \in (IF op = "search" THEN SearchKeys ELSE {NULL}) :
          stack' = [stack EXCEPT ![t] = <<Frame(op, from, key)>> \o @]
    /\ calls' = [calls EXCEPT ![t] = IF stack[t] = <<>> THEN @ + 1 ELSE @]
    /\ UNCHANGED <<original, nodeVars, should_not_be_modified, freed>>

\* A call returns, maybe into a user function, which then returns too.
Return(t) ==
    /\ stack[t] # <<>> /\ Top(t).pc = "done"
    /\ stack' = [stack EXCEPT ![t] =
                    IF Len(@) = 1 THEN <<>> ELSE <<[@[2] EXCEPT !.pc = "answered"]>> \o SubSeq(@, 3, Len(@))]
    /\ UNCHANGED <<original, nodeVars, should_not_be_modified, freed, calls>>

Locals == UNCHANGED <<original, nodeVars, should_not_be_modified, freed, calls>>

\* The frame of the call that t is in becomes e.
Becomes(t, e) == stack' = [stack EXCEPT ![t][1] = e]

\* The traversals begin by setting the flag and finding where to start.
Begin(t) ==
    /\ stack[t] # <<>> /\ Top(t).pc = "enter" /\ Top(t).op # "search"
    /\ should_not_be_modified' = TRUE
    /\ LET start == IF Top(t).from = NULL THEN tree.root ELSE Top(t).from
       IN Becomes(t, [Top(t) EXCEPT !.pc = "head", !.from = start,
                                         !.root = start, !.current = start])
    /\ UNCHANGED <<original, nodeVars, freed, calls>>

\* Node x goes to the user function, unless that has failed before.
Hand(t, x) == Becomes(t, [Top(t) EXCEPT !.pc = "called", !.seen = Append(@, x)])

Visit(t, x) ==
    IF Top(t).failed THEN Becomes(t, [Top(t) EXCEPT !.pc = "handed"]) ELSE Hand(t, x)

Answered(frame, failed) == [frame EXCEPT !.pc = "handed", !.failed = failed]

UserReturns(t) ==
    /\ stack[t] # <<>> /\ Top(t).pc \in {"called", "answered"}
    /\ \E failed \in (IF Top(t).op = "destroy" THEN {FALSE} ELSE BOOLEAN) :
          Becomes(t, Answered(Top(t), failed))
    /\ Locals

-----------------------------------------------------------------------------
(***************************************************************************)
(* thread_unsafe_avl_tree_morris_traverse                                  *)
(***************************************************************************)
MorrisHead(t) ==
    LET root == Top(t).root
    IN
    /\ In(t, "morris", "head") /\ root # NULL
    /\ IF tree.left[root] # NULL
       THEN Becomes(t, [Top(t) EXCEPT !.pc = "find", !.current = tree.left[root]])
       ELSE IF Top(t).failed
            THEN Becomes(t, [Top(t) EXCEPT !.pc = "handed", !.current = NULL])
            ELSE Becomes(t, [Top(t) EXCEPT !.pc = "called", !.current = NULL,
                                        !.seen = Append(@, root)])
    /\ Locals

\* Mutant: threads over the right link of the left child.
MorrisFindShort(t) ==
    LET next == tree.right[Top(t).current]
    IN
    /\ In(t, "morris", "find")
    /\ IF next = Top(t).root THEN Becomes(t, [Top(t) EXCEPT !.pc = "unthread"]) ELSE Visit(t, Top(t).root)
    /\ Locals

\* Mutant: does not know a thread when it meets one.
MorrisFindNoThread(t) ==
    LET next == tree.right[Top(t).current]
    IN
    /\ In(t, "morris", "find")
    /\ IF next = NULL THEN Visit(t, Top(t).root) ELSE Becomes(t, [Top(t) EXCEPT !.current = next])
    /\ Locals

\* Down the right links of the left subtree, to their end or to a thread
\* back to root.
MorrisFind(t) ==
    LET next == tree.right[Top(t).current]
    IN
    /\ In(t, "morris", "find")
    /\ CASE next = Top(t).root -> Becomes(t, [Top(t) EXCEPT !.pc = "unthread"])
         [] next = NULL -> Visit(t, Top(t).root)
         [] OTHER -> Becomes(t, [Top(t) EXCEPT !.current = next])
    /\ Locals

\* Mutant: the thread stays.
MorrisUnthreadNot(t) ==
    /\ In(t, "morris", "unthread")
    /\ Becomes(t, [Top(t) EXCEPT !.pc = "next"])
    /\ Locals

MorrisUnthread(t) ==
    /\ In(t, "morris", "unthread")
    /\ tree' = [tree EXCEPT !.right[Top(t).current] = NULL]
    /\ Becomes(t, [Top(t) EXCEPT !.pc = "next"])
    /\ UNCHANGED <<original, left_visited, right_visited, should_not_be_modified, freed, calls>>

\* After the user function: thread the predecessor and go left, or go right.
MorrisThread(t) ==
    /\ In(t, "morris", "handed") /\ Top(t).current # NULL
    /\ tree' = [tree EXCEPT !.right[Top(t).current] = Top(t).root]
    /\ Becomes(t, [Top(t) EXCEPT !.pc = "head", !.root = tree.left[@]])
    /\ UNCHANGED <<original, left_visited, right_visited, should_not_be_modified, freed, calls>>

MorrisNext(t) ==
    /\ In(t, "morris", "next") \/ (In(t, "morris", "handed") /\ Top(t).current = NULL)
    /\ Becomes(t, [Top(t) EXCEPT !.pc = "head", !.root = tree.right[@]])
    /\ Locals

Finish(t) ==
    /\ should_not_be_modified' = FALSE
    /\ Becomes(t, [Top(t) EXCEPT !.pc = "done"])

MorrisEnd(t) ==
    /\ In(t, "morris", "head") /\ Top(t).root = NULL
    /\ Finish(t)
    /\ UNCHANGED <<original, nodeVars, freed, calls>>

-----------------------------------------------------------------------------
(***************************************************************************)
(* thread_unsafe_avl_tree_iterate: current is its variable node.           *)
(***************************************************************************)
Iterating(t) == In(t, "iterate", "head") /\ Top(t).current # NULL

\* node->left_visited is read through a null pointer.
IterateNull(t) ==
    /\ In(t, "iterate", "head") /\ Top(t).current = NULL
    /\ Becomes(t, [Top(t) EXCEPT !.pc = "crashed"])
    /\ Locals

IterateFirst(t) ==
    LET x == Top(t).current
    IN
    /\ Iterating(t) /\ ~left_visited[x] /\ ~right_visited[x]
    /\ Visit(t, x)
    /\ Locals

IterateLeft(t) ==
    LET x == Top(t).current
    IN
    /\ In(t, "iterate", "handed")
    /\ left_visited' = [left_visited EXCEPT ![x] = TRUE]
    /\ Becomes(t, [Top(t) EXCEPT !.pc = "head",
                              !.current = IF tree.left[x] # NULL THEN tree.left[x] ELSE x])
    /\ UNCHANGED <<original, tree, right_visited, should_not_be_modified, freed, calls>>

IterateRight(t) ==
    LET x == Top(t).current
    IN
    /\ Iterating(t) /\ left_visited[x] /\ ~right_visited[x]
    /\ right_visited' = [right_visited EXCEPT ![x] = TRUE]
    /\ Becomes(t, [Top(t) EXCEPT !.current = IF tree.right[x] # NULL THEN tree.right[x] ELSE x])
    /\ UNCHANGED <<original, tree, left_visited, should_not_be_modified, freed, calls>>

\* Mutant: goes up past the node it began with.
IterateUpTooFar(t) ==
    LET x == Top(t).current
    IN
    /\ Iterating(t) /\ left_visited[x] /\ right_visited[x]
    /\ left_visited' = [left_visited EXCEPT ![x] = FALSE]
    /\ right_visited' = [right_visited EXCEPT ![x] = FALSE]
    /\ IF x = original.root
       THEN Finish(t)
       ELSE /\ Becomes(t, [Top(t) EXCEPT !.current = tree.parent[x]])
            /\ UNCHANGED should_not_be_modified
    /\ UNCHANGED <<original, tree, freed, calls>>

IterateUp(t) ==
    LET x == Top(t).current
    IN
    /\ Iterating(t) /\ left_visited[x] /\ right_visited[x]
    /\ left_visited' = [left_visited EXCEPT ![x] = FALSE]
    /\ right_visited' = [right_visited EXCEPT ![x] = FALSE]
    /\ IF x = Top(t).from
       THEN Finish(t)
       ELSE /\ Becomes(t, [Top(t) EXCEPT !.current = tree.parent[x]])
            /\ UNCHANGED should_not_be_modified
    /\ UNCHANGED <<original, tree, freed, calls>>

-----------------------------------------------------------------------------
(***************************************************************************)
(* avl_tree_search: current is the node of avl_lookup_engine.              *)
(***************************************************************************)
SearchEnter(t) ==
    /\ In(t, "search", "enter")
    /\ Becomes(t, [Top(t) EXCEPT !.pc = "down", !.current = tree.root])
    /\ Locals

SearchDown(t) ==
    LET x == Top(t).current
        key == Top(t).key
    IN
    /\ In(t, "search", "down")
    /\ IF x \in {NULL, key}
       THEN Becomes(t, [Top(t) EXCEPT !.pc = "done", !.failed = (x = NULL)])
       ELSE Becomes(t, [Top(t) EXCEPT !.current = IF key < x THEN tree.left[x] ELSE tree.right[x]])
    /\ Locals

-----------------------------------------------------------------------------
(***************************************************************************)
(* thread_unsafe_iterative_destroy: every link is cut before it is gone    *)
(* down, and a node with no links is handed out and freed.                 *)
(***************************************************************************)
\* Mutant: cuts both links at once.
DestroyDownCutsBoth(t) ==
    LET x == Top(t).root
    IN
    /\ In(t, "destroy", "head") /\ x # NULL
    /\ tree.left[x] # NULL \/ tree.right[x] # NULL
    /\ tree' = [tree EXCEPT !.left[x] = NULL, !.right[x] = NULL]
    /\ Becomes(t, [Top(t) EXCEPT !.root = IF tree.left[x] # NULL THEN tree.left[x] ELSE tree.right[x]])
    /\ UNCHANGED <<original, left_visited, right_visited, should_not_be_modified, freed, calls>>

DestroyDown(t) ==
    LET x == Top(t).root
    IN
    /\ In(t, "destroy", "head") /\ x # NULL
    /\ tree.left[x] # NULL \/ tree.right[x] # NULL
    /\ IF tree.left[x] # NULL
       THEN /\ tree' = [tree EXCEPT !.left[x] = NULL]
            /\ Becomes(t, [Top(t) EXCEPT !.root = tree.left[x]])
       ELSE /\ tree' = [tree EXCEPT !.right[x] = NULL]
            /\ Becomes(t, [Top(t) EXCEPT !.root = tree.right[x]])
    /\ UNCHANGED <<original, left_visited, right_visited, should_not_be_modified, freed, calls>>

DestroyLeaf(t) ==
    LET x == Top(t).root
    IN
    /\ In(t, "destroy", "head") /\ x # NULL
    /\ tree.left[x] = NULL /\ tree.right[x] = NULL
    /\ Hand(t, x)
    /\ Locals

DestroyFree(t) ==
    LET x == Top(t).root
    IN
    /\ In(t, "destroy", "handed")
    /\ freed' = freed \cup {x}
    /\ Becomes(t, [Top(t) EXCEPT !.pc = "head", !.root = tree.parent[x]])
    /\ UNCHANGED <<original, nodeVars, should_not_be_modified, calls>>

DestroyEnd(t) ==
    /\ In(t, "destroy", "head") /\ Top(t).root = NULL
    /\ tree' = [tree EXCEPT !.root = NULL]
    /\ Finish(t)
    /\ UNCHANGED <<original, left_visited, right_visited, freed, calls>>

-----------------------------------------------------------------------------
Work(t) ==
    \/ Return(t) \/ Begin(t) \/ UserReturns(t)
    \/ MorrisHead(t) \/ MorrisFind(t) \/ MorrisUnthread(t) \/ MorrisThread(t)
    \/ MorrisNext(t) \/ MorrisEnd(t)
    \/ IterateNull(t) \/ IterateFirst(t) \/ IterateLeft(t) \/ IterateRight(t) \/ IterateUp(t)
    \/ SearchEnter(t) \/ SearchDown(t)
    \/ DestroyDown(t) \/ DestroyLeaf(t) \/ DestroyFree(t) \/ DestroyEnd(t)

WalkNext == \E t \in Callers : Work(t) \/ (\E op \in Traversals \cup {"search", "destroy"} : Call(t, op))

WalkSpec == WalkInit /\ [][WalkNext]_walkVars

\* A thread in a call goes on, and user functions return.
FairWalkSpec == WalkSpec /\ \A t \in Callers : WF_walkVars(Work(t))

-----------------------------------------------------------------------------
(***************************************************************************)
(* Properties.                                                             *)
(***************************************************************************)
PreorderIn(t) ==
    LET order[x \in Keys \cup {NULL}] ==
            IF x = NULL THEN <<>> ELSE <<x>> \o order[t.left[x]] \o order[t.right[x]]
    IN order

Frames == UNION {{stack[t][i] : i \in DOMAIN stack[t]} : t \in Callers}

\* The variables keep their types, and the loops of Morris and iterate hold a
\* node where they read through it.
WalkTypeOK ==
    /\ tree \in Trees
    /\ {left_visited, right_visited} \subseteq [Keys -> BOOLEAN]
    /\ should_not_be_modified \in BOOLEAN
    /\ freed \subseteq Keys
    /\ \A f \in Frames : /\ {f.root, f.current} \subseteq Keys \cup {NULL} /\ f.seen \in Seq(Keys)
                         /\ f.pc \in {"find", "unthread"} => f.current # NULL /\ f.root # NULL

\* A traversal hands out the nodes below its root in preorder, each once; it
\* has handed out all of them at its end, unless the user function failed
\* (the comment at avl_tree_object.c:498-505).
EveryNodeVisited ==
    \A f \in Frames :
        LET all == PreorderIn(original)[f.from]
        IN f.op \in Traversals /\ f.pc # "enter" =>
           /\ Len(f.seen) <= Len(all) /\ f.seen = SubSeq(all, 1, Len(f.seen))
           /\ f.pc = "done" /\ ~f.failed => f.seen = all

\* When no call is active, the links are what they were and no node is
\* marked: "all pointers are recovered back" (avl_tree_object.c:507-510).
Restored ==
    (\A t \in Callers : stack[t] = <<>>) /\ freed = {} =>
        /\ tree = original
        /\ \A x \in Keys : ~left_visited[x] /\ ~right_visited[x]
        /\ ~should_not_be_modified

\* A search finds what is in the tree and nothing else, whatever threads a
\* Morris traversal has put there.
SearchIsRight ==
    \A f \in Frames :
        f.op = "search" /\ f.pc = "done" /\ ~Running("destroy") =>
            f.failed = (f.key \notin Nodes)

\* Destroy never comes back to a node it has freed, and a search made by its
\* handler reaches none.
NoUseAfterFree ==
    \A f \in Frames : /\ f.op = "destroy" => f.root \notin freed
                      /\ f.op = "search" => f.current \notin freed

\* Destroy hands out and frees every node once (the asserts at
\* avl_tree_object.c:791-792), and neither it nor a search of its handler
\* comes to a node that is freed.
DestroyComplete ==
    /\ WalkTypeOK
    /\ NoUseAfterFree
    /\ \A f \in Frames :
         f.op = "destroy" /\ f.pc = "done" =>
             /\ Len(f.seen) = Cardinality(freed)
             /\ freed = Nodes

\* Every call returns: the threads of a Morris traversal and the marks of
\* iterate lead it out of the tree again, from whatever node it began, and a
\* search that meets a thread of another thread's traversal is not caught by
\* it.  Only iterate of an empty tree ends otherwise.
CallsEnd == \A t \in Callers : stack[t] # <<>> ~> stack[t] = <<>> \/ Top(t).pc = "crashed"
=============================================================================
