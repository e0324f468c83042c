-------------------------------- MODULE List --------------------------------
(***************************************************************************)
(* list.c: a doubly linked list with a head and a tail and no end node.  A *)
(* node knows its list, and is removed by its handle alone.  The           *)
(* operations are steps, and errors stuttering, as in module Lifo.         *)
(***************************************************************************)
EXTENDS NodeHeap

CONSTANT ListMax    \* n_max, 0 for no limit
ASSUME ListMaxAssumption == ListMax \in Nat

VARIABLE list

ListElements == Chain(list.head)
ListBlock(next, prev, data) == [next |-> next, prev |-> prev, data |-> data,
                                size |-> SizeOf.list, counted |-> TRUE]

\* The limit it tests, the block, and its handle; the caller has linked the
\* node into the heap.
list_create_new_node(node, data) ==
    /\ ListMax # 0 => list.n < ListMax
    /\ Monitored(heap'[node])
    /\ Given("list", node, data)

list_prepend_data(data) ==
    \E node \in Unallocated :
      /\ IF list.n = 0
         THEN /\ heap' = With(heap, node, ListBlock(NULL, NULL, data))
              /\ list' = [head |-> node, tail |-> node, n |-> 1]
         ELSE /\ heap' = With([heap EXCEPT ![list.head].prev = node], node,
                              ListBlock(list.head, NULL, data))
              /\ list' = [list EXCEPT !.head = node, !.n = @ + 1]
      /\ list_create_new_node(node, data)

list_append_data(data) ==
    \E node \in Unallocated :
      /\ IF list.n = 0
         THEN /\ heap' = With(heap, node, ListBlock(NULL, NULL, data))
              /\ list' = [head |-> node, tail |-> node, n |-> 1]
         ELSE /\ heap' = With([heap EXCEPT ![list.tail].next = node], node,
                              ListBlock(NULL, list.tail, data))
              /\ list' = [list EXCEPT !.tail = node, !.n = @ + 1]
      /\ list_create_new_node(node, data)

list_find_data_node(data) ==
    LET i == SelectInSeq(DataOf(ListElements), LAMBDA d : d = data)
    IN  /\ i # 0
        /\ handles' = handles \cup {<<"list", ListElements[i], data>>}
        /\ UNCHANGED <<heap, monitor, list>>

\* Mutant: the tail is left alone when the last of several nodes goes.
ListRemoveTail(node) ==
    LET next == heap[node].next
        prev == heap[node].prev
        bypass == {a \in {next, prev} : a # NULL}
    IN  /\ heap' = Without([a \in DOMAIN heap |->
                              IF a \in bypass
                              THEN IF a = prev THEN [heap[a] EXCEPT !.next = next]
                                   ELSE [heap[a] EXCEPT !.prev = prev]
                              ELSE heap[a]], {node})
        /\ list' = [head |-> IF prev = NULL THEN next ELSE list.head,
                    tail |-> IF next = NULL /\ prev = NULL THEN NULL ELSE list.tail,
                    n |-> list.n - 1]
        /\ Unmonitored({node})
        /\ handles' = Forgotten("list", {node})
\* thread_unsafe_list_remove_node: the neighbours, or head and tail where
\* there is none, are linked past the node.
ListRemove(node) ==
    LET next == heap[node].next
        prev == heap[node].prev
        bypass == {a \in {next, prev} : a # NULL}
    IN  /\ heap' = Without([a \in DOMAIN heap |->
                              IF a \in bypass
                              THEN IF a = prev THEN [heap[a] EXCEPT !.next = next]
                                   ELSE [heap[a] EXCEPT !.prev = prev]
                              ELSE heap[a]], {node})
        /\ list' = [head |-> IF prev = NULL THEN next ELSE list.head,
                    tail |-> IF next = NULL THEN prev ELSE list.tail,
                    n |-> list.n - 1]
        /\ Unmonitored({node})
        /\ handles' = Forgotten("list", {node})

\* The list is the one the node names.
list_remove_node(handle) == /\ handle \in handles /\ handle[1] = "list"
                            /\ ListRemove(handle[2])

list_remove_data(data) ==
    LET i == SelectInSeq(DataOf(ListElements), LAMBDA d : d = data)
    IN  i # 0 /\ ListRemove(ListElements[i])

\* An empty list and one made by list_init anew are the same.
list_destroy ==
    /\ LET nodes == ToSet(ListElements)
       IN  heap' = Without(heap, nodes) /\ Unmonitored(nodes)
    /\ list' = [head |-> NULL, tail |-> NULL, n |-> 0]
    /\ handles' = {h \in handles : h[1] # "list"}
=============================================================================
