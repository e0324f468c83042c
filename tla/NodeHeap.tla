------------------------------ MODULE NodeHeap ------------------------------
(***************************************************************************)
(* The memory the list components of generic_utilities take their nodes    *)
(* from, and the memory monitor that counts it (mem_monitor_object.c).  A  *)
(* block is a node and, in front of it, the header mem_header_t with the   *)
(* monitor and the size of the block.  All lists of a process share one    *)
(* parent monitor.                                                         *)
(***************************************************************************)
EXTENDS Integers, SequencesExt

CONSTANTS Nodes,    \* the addresses malloc may return
          NULL,
          Data      \* the user's data, compared as numbers

ASSUME DataAssumption == Data \subseteq Nat /\ NULL \notin Nodes \cup Data

VARIABLES heap,     \* the allocated blocks by address
          monitor,  \* bytes_used, and allocations - frees as live
          handles   \* the handles users hold: <<list, address, datum>>

\* The total sizes, header included, of the three kinds of node.
SizeOf == [lifo |-> 32, ordered |-> 40, list |-> 48]

\* counted: the header names a monitor.
Blocks == [next : Nodes \cup {NULL}, prev : Nodes \cup {NULL},
           data : Data \cup {NULL}, size : Range(SizeOf), counted : BOOLEAN]

Unallocated == Nodes \ DOMAIN heap

MemInit == /\ heap = << >>
           /\ monitor = [bytes_used |-> 0, live |-> 0]
           /\ handles = {}

\* mem_monitor_allocate: h with the new block at an address that is free.
With(h, node, block) == [a \in DOMAIN h \cup {node} |-> IF a = node THEN block ELSE h[a]]
Monitored(block) ==
    monitor' = IF block.counted
               THEN [bytes_used |-> monitor.bytes_used + block.size,
                     live |-> monitor.live + 1]
               ELSE monitor

\* mem_monitor_free of each block of a set: the header in front of the node
\* tells the monitor and the size.
Without(h, nodes) == Restrict(h, DOMAIN h \ nodes)
Bytes(h, nodes) == SumFunction([a \in nodes |-> h[a].size])
\* Mutant: the test of mmp is not made.
UnmonitoredAll(nodes) ==
    monitor' = [bytes_used |-> monitor.bytes_used - Bytes(heap, nodes),
                live |-> monitor.live - Cardinality(nodes)]
Unmonitored(nodes) ==
    LET counted == {a \in nodes : heap[a].counted}
    IN  monitor' = [bytes_used |-> monitor.bytes_used - Bytes(heap, counted),
                    live |-> monitor.live - Cardinality(counted)]

\* *to = *from, an assignment of nodes: the headers stay.
Copied(h, to, from) ==
    [h EXCEPT ![to] = [@ EXCEPT !.next = h[from].next, !.data = h[from].data]]

\* The nodes met from first on along the next pointers, at most one more
\* than there are blocks.
ChainIn(h, first) ==
    LET after[k \in Nat] == IF k = 0 THEN first
                            ELSE IF after[k - 1] \in DOMAIN h THEN h[after[k - 1]].next
                                                              ELSE NULL
        met == {k \in 0 .. Cardinality(DOMAIN h) : after[k] # NULL}
    IN  [i \in 1 .. Cardinality(met) |-> after[i - 1]]
Chain(first) == ChainIn(heap, first)

\* The nodes before the first that ends the list.
Before(nodes, Ends(_)) == SubSeq(nodes, 1, SelectInSeq(nodes, Ends) - 1)

DataOf(nodes) == [i \in DOMAIN nodes |-> heap[nodes[i]].data]

\* A user that has removed an element throws its handles to it away.
Forgotten(list, nodes) == {h \in handles : ~(h[1] = list /\ h[2] \in nodes)}
Given(list, node, data) == handles' \in {handles, handles \cup {<<list, node, data>>}}
=============================================================================
