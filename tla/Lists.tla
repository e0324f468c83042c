-------------------------------- MODULE Lists --------------------------------
(***************************************************************************)
(* A lifo, a list and an ordered list of one process: they take their      *)
(* nodes from the same memory, so that an address one of them has freed    *)
(* may come back in another, and count them with the same parent monitor.  *)
(***************************************************************************)
EXTENDS Lifo, List, OrderedList

vars == <<heap, monitor, handles, lifo, list, ordered>>

Init == /\ MemInit
        /\ lifo = [head |-> NULL, n |-> 0]
        /\ list = [head |-> NULL, tail |-> NULL, n |-> 0]
        /\ ordered = [head |-> NULL, n |-> 0]

LifoNext == /\ \/ lifo_init
               \/ \E d \in Data : \/ lifo_add_data(d)
                                  \/ lifo_search_data(d)
                                  \/ lifo_remove_data(d)
               \/ \E h \in handles : lifo_remove_node(h)
               \/ lifo_destroy
            /\ UNCHANGED <<list, ordered>>

ListNext == /\ \/ \E d \in Data : \/ list_prepend_data(d)
                                  \/ list_append_data(d)
                                  \/ list_find_data_node(d)
                                  \/ list_remove_data(d)
               \/ \E h \in handles : list_remove_node(h)
               \/ list_destroy
            /\ UNCHANGED <<lifo, ordered>>

OrderedNext == /\ \/ ordered_list_init
                  \/ \E d \in Data : \/ ordered_list_add(d)
                                     \/ ordered_list_add_once(d)
                                     \/ ordered_list_delete(d)
                  \/ \E node \in DOMAIN heap : ordered_list_delete_node(node)
                  \/ ordered_list_destroy
               /\ UNCHANGED <<lifo, list>>

Next == LifoNext \/ ListNext \/ OrderedNext

Spec == Init /\ [][Next]_vars

-----------------------------------------------------------------------------
Structures == [head : Nodes \cup {NULL}, n : Nat]

\* Every structure holds values of its type, and no list more elements than
\* its n_max allows (lifo.c:79, list.c:56).
TypeOK == /\ DOMAIN heap \subseteq Nodes /\ Range(heap) \subseteq Blocks
          /\ monitor \in [bytes_used : Nat, live : Nat]
          /\ handles \subseteq {"lifo", "list"} \X Nodes \X Data
          /\ lifo \in Structures /\ ordered \in Structures
          /\ list \in [head : Nodes \cup {NULL}, tail : Nodes \cup {NULL}, n : Nat]
          /\ LifoMax # 0 => lifo.n <= LifoMax
          /\ ListMax # 0 => list.n <= ListMax

\* A chain with an end node: the end is its last node and only that.
Ended(head, n) ==
    head # NULL =>
      LET nodes == Chain(head)
      IN  /\ Len(nodes) = n + 1
          /\ \A i \in DOMAIN nodes : (i = n + 1) <=> (heap[nodes[i]].data = NULL)

\* The links of the doubly linked list: n nodes, each with the one before it
\* as prev, the last one the tail.
TwoWay == LET nodes == ListElements
          IN  /\ Len(nodes) = list.n
              /\ list.tail = IF nodes = << >> THEN NULL ELSE Last(nodes)
              /\ \A i \in DOMAIN nodes :
                   heap[nodes[i]].prev = IF i = 1 THEN NULL ELSE nodes[i - 1]

\* The ordered list is in order, and a search, which stops at the first
\* datum that is not less, finds what is there.
InOrder == ordered.head # NULL =>
             LET data == DataOf(OrderedElements)
             IN  /\ \A i, j \in DOMAIN data : i < j => data[i] <= data[j]
                 /\ \A d \in Data : Finds(d) <=> d \in Range(data)

\* Every list is linked as its operations expect it, and every block is on
\* exactly one list: nothing leaks and no list has a freed node, whichever
\* way removals and insertions followed one another and addresses came back.
WellLinked ==
    /\ TypeOK
    /\ Ended(lifo.head, lifo.n) /\ Ended(ordered.head, ordered.n)
    /\ TwoWay /\ InOrder
    /\ LET chains == <<Chain(lifo.head), ListElements, OrderedNodes>>
       IN  /\ UNION {ToSet(chains[i]) : i \in 1 .. 3} = DOMAIN heap
           /\ Len(chains[1]) + Len(chains[2]) + Len(chains[3]) = Cardinality(DOMAIN heap)

\* The monitor's sums are those of the blocks it was told of, and at most one
\* block is kept from it.  That one is the end node a lifo was made with
\* (lifo.c:166); it is freed, uncounted, when the last element is removed,
\* and the block of that element, counted, is the end node from then on.
MonitorExact ==
    LET counted == {a \in DOMAIN heap : heap[a].counted}
    IN  /\ monitor.bytes_used = Bytes(heap, counted)
        /\ monitor.live = Cardinality(counted)
        /\ Cardinality(DOMAIN heap \ counted) <= IF lifo.head = NULL THEN 0 ELSE 1

StillNames(h) == h[2] \in DOMAIN heap /\ heap[h[2]].data = h[3]

\* A handle to an element of the doubly linked list names that element until
\* the element is removed: list.c frees the node it was asked to remove and
\* moves no other.
ListHandlesStay == \A h \in handles : h[1] = "list" =>
                     /\ h[2] \in ToSet(ListElements)
                     /\ StillNames(h)

RemovesOne ==
    /\ lifo'.n < lifo.n => \A h \in handles : lifo_remove_node(h) =>
         \E i \in DOMAIN LifoElements :
           /\ LifoElements[i] = h[2]
           /\ DataOf(LifoElements)' = RemoveAt(DataOf(LifoElements), i)
    /\ list'.n < list.n => \A h \in handles : list_remove_node(h) =>
         \E i \in DOMAIN ListElements :
           /\ ListElements[i] = h[2]
           /\ DataOf(ListElements)' = RemoveAt(DataOf(ListElements), i)
    /\ ordered'.n < ordered.n => \A d \in Data : ordered_list_delete(d) =>
         DataOf(OrderedElements)' = RemoveAt(DataOf(OrderedElements), StopAt(d))

\* A removal takes the element it was asked for and leaves all others in
\* their order, although lifo.c:144 and ordered_list.c:240 overwrite that
\* element with its neighbour and free the neighbour's node; and whatever is
\* done to any list, the handles of the doubly linked list stay.
RemovesTheRightOne == [][RemovesOne /\ ListHandlesStay']_vars
=============================================================================
