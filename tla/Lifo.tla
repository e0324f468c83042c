-------------------------------- MODULE Lifo --------------------------------
(***************************************************************************)
(* lifo.c: a singly linked list that grows at its head and ends in a node  *)
(* without data.  A node is removed without a search for the one before    *)
(* it: the next node is copied over it and the next node's memory freed.   *)
(* Each public operation holds the write lock from its first to its last   *)
(* access, so it is one step.  An operation that returns an error (ENOSPC, *)
(* ENOMEM, EINVAL for the end node, EEXIST for "not found") leaves         *)
(* everything as it was and is a stuttering step.                          *)
(***************************************************************************)
EXTENDS NodeHeap

CONSTANT LifoMax    \* n_max, 0 for no limit
ASSUME LifoMaxAssumption == LifoMax \in Nat

VARIABLE lifo       \* the structure, all zeros until lifo_init

END_NODE(node) == heap[node].next = NULL /\ heap[node].data = NULL
LifoElements == Before(Chain(lifo.head), END_NODE)

\* The end node is allocated before MEM_MONITOR_SETUP, while mem_mon_p is
\* still NULL: the monitor does not see it.
lifo_init ==
    /\ lifo.head = NULL
    /\ \E node \in Unallocated :
         /\ heap' = With(heap, node, [next |-> NULL, prev |-> NULL, data |-> NULL,
                                      size |-> SizeOf.lifo, counted |-> FALSE])
         /\ lifo' = [head |-> node, n |-> 0]
    /\ UNCHANGED <<monitor, handles>>

lifo_add_data(data) ==
    /\ lifo.head # NULL
    /\ LifoMax # 0 => lifo.n < LifoMax
    /\ \E node \in Unallocated :
         LET block == [next |-> lifo.head, prev |-> NULL, data |-> data,
                       size |-> SizeOf.lifo, counted |-> TRUE]
         IN  /\ heap' = With(heap, node, block)
             /\ Monitored(block)
             /\ lifo' = [head |-> node, n |-> lifo.n + 1]
             /\ Given("lifo", node, data)

lifo_search_data(data) ==
    LET i == SelectInSeq(DataOf(LifoElements), LAMBDA d : d = data)
    IN  /\ i # 0
        /\ handles' = handles \cup {<<"lifo", LifoElements[i], data>>}
        /\ UNCHANGED <<heap, monitor, lifo>>

\* Mutant: only the link is copied.
LifoRemoveLink(node) ==
    LET to_be_freed == heap[node].next
    IN  /\ heap' = Without([heap EXCEPT ![node].next = heap[to_be_freed].next],
                           {to_be_freed})
        /\ Unmonitored({to_be_freed})
        /\ lifo' = [lifo EXCEPT !.n = @ - 1]
        /\ handles' = Forgotten("lifo", {node})
\* thread_unsafe_lifo_remove_node.  lifo.head stays: it is the address.
LifoRemove(node) ==
    LET to_be_freed == heap[node].next
    IN  /\ heap' = Without(Copied(heap, node, to_be_freed), {to_be_freed})
        /\ Unmonitored({to_be_freed})
        /\ lifo' = [lifo EXCEPT !.n = @ - 1]
        /\ handles' = Forgotten("lifo", {node})

\* With a handle that still names its element; what a stale one does is
\* undefined (lifo.c:144 copies the next node over the removed one, so that the
\* next element's handle is stale after a removal).
lifo_remove_node(handle) ==
    /\ handle \in handles /\ handle[1] = "lifo"
    /\ \E i \in DOMAIN LifoElements : /\ LifoElements[i] = handle[2]
                                      /\ heap[handle[2]].data = handle[3]
    /\ LifoRemove(handle[2])

lifo_remove_data(data) ==
    LET i == SelectInSeq(DataOf(LifoElements), LAMBDA d : d = data)
    IN  i # 0 /\ LifoRemove(LifoElements[i])

lifo_destroy ==
    /\ lifo.head # NULL
    /\ LET nodes == ToSet(Chain(lifo.head))
       IN  heap' = Without(heap, nodes) /\ Unmonitored(nodes)
    /\ lifo' = [head |-> NULL, n |-> 0]
    /\ handles' = {h \in handles : h[1] # "lifo"}
=============================================================================
