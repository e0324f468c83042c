----------------------------- MODULE OrderedList -----------------------------
(***************************************************************************)
(* ordered_list.c: a singly linked list in the order of the user's         *)
(* comparison, with an end node, and with removal by copying the next node *)
(* as in module Lifo.  Data are not NULL, as the end node is told by it.   *)
(* thread_unsafe_ordered_list_add_to_head, which no header declares and    *)
(* which gives up the order, is left out.                                  *)
(***************************************************************************)
EXTENDS NodeHeap

VARIABLE ordered

not_endof_ordered_list(node) ==
    node # NULL /\ heap[node].next # NULL /\ heap[node].data # NULL
OrderedNodes == Chain(ordered.head)
OrderedElements == Before(OrderedNodes, LAMBDA a : ~not_endof_ordered_list(a))

\* The node at which a walk for data stops: the first one, the end node at
\* the latest, whose datum does not come before data.
StopAt(data) ==
    SelectInSeq(OrderedNodes, LAMBDA a : ~not_endof_ordered_list(a) \/ heap[a].data >= data)

\* thread_unsafe_ordered_list_search
Finds(data) == LET stop == OrderedNodes[StopAt(data)]
               IN  not_endof_ordered_list(stop) /\ heap[stop].data = data

ordered_list_init ==
    /\ ordered.head = NULL
    /\ \E node \in Unallocated :
         LET block == [next |-> NULL, prev |-> NULL, data |-> NULL,
                       size |-> SizeOf.ordered, counted |-> TRUE]
         IN  /\ heap' = With(heap, node, block)
             /\ Monitored(block)
             /\ ordered' = [head |-> node, n |-> 0]
    /\ UNCHANGED handles

ordered_list_add(data) ==
    /\ ordered.head # NULL
    /\ \E node \in Unallocated :
         LET stop == StopAt(data)
             block == [next |-> OrderedNodes[stop], prev |-> NULL, data |-> data,
                       size |-> SizeOf.ordered, counted |-> TRUE]
         IN  /\ heap' = With(IF stop = 1 THEN heap
                             ELSE [heap EXCEPT ![OrderedNodes[stop - 1]].next = node],
                             node, block)
             /\ Monitored(block)
             /\ ordered' = [head |-> IF stop = 1 THEN node ELSE ordered.head,
                            n |-> ordered.n + 1]
    /\ UNCHANGED handles

\* The insertion after a search that found nothing is that of
\* ordered_list_add: prev is the last node before the stop.
ordered_list_add_once(data) ==
    ordered.head # NULL /\ ~Finds(data) /\ ordered_list_add(data)

\* Mutant: the node is freed, not the one copied over it.
OrderedRemoveWrong(node) ==
    LET to_free == heap[node].next
    IN  /\ heap' = Without(Copied(heap, node, to_free), {node})
        /\ Unmonitored({node})
        /\ ordered' = [ordered EXCEPT !.n = @ - 1]
        /\ UNCHANGED handles
\* thread_unsafe_ordered_list_node_delete, never of the end node
OrderedRemove(node) ==
    LET to_free == heap[node].next
    IN  /\ heap' = Without(Copied(heap, node, to_free), {to_free})
        /\ Unmonitored({to_free})
        /\ ordered' = [ordered EXCEPT !.n = @ - 1]
        /\ UNCHANGED handles

ordered_list_delete(data) ==
    /\ ordered.head # NULL /\ Finds(data)
    /\ OrderedRemove(OrderedNodes[StopAt(data)])

\* Of a node that a walk over the list has just come to.
ordered_list_delete_node(node) ==
    node \in ToSet(OrderedElements) /\ OrderedRemove(node)

\* Heads are deleted until the end node is the head, and that is freed.
ordered_list_destroy ==
    /\ ordered.head # NULL
    /\ LET nodes == ToSet(OrderedNodes)
       IN  heap' = Without(heap, nodes) /\ Unmonitored(nodes)
    /\ ordered' = [head |-> NULL, n |-> 0]
    /\ UNCHANGED handles
=============================================================================
