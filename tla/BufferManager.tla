--------------------------- MODULE BufferManager ---------------------------
(***************************************************************************)
(* buffer_manager.c: pools of buffers of increasing sizes, carved out of   *)
(* one block each, and a table that says for every size in which pool to   *)
(* look first.  A buffer is <<pool, number>>; the lock makes every call    *)
(* one step.                                                               *)
(***************************************************************************)
EXTENDS Integers, SequencesExt, FiniteSetsExt

CONSTANTS
    MAX_POOLS,
    BufferTuples,       \* the lists of [size, count] that initialize is given
    BufferSizes,        \* the sizes that are asked for
    BufferNULL

ASSUME BufferAssumption == /\ MAX_POOLS \in Nat \ {0}
                           /\ BufferTuples \subseteq Seq([size : Int, count : Int])
                           /\ BufferSizes \subseteq Int
                           /\ BufferNULL \notin Nat \X Nat

VARIABLES
    pools,              \* size and free list of each pool, by its number
    max_size,
    size_lookup_table,
    bufferUsers,        \* the buffers users hold, with the size they asked for
    pastTable,          \* another block's owner wrote to the byte after the table
    answer              \* what the last call of buffer_allocate was asked and gave

bufferVars == <<pools, max_size, size_lookup_table, bufferUsers, pastTable, answer>>

num_pools == Cardinality(DOMAIN pools)
EMPTY_POOL == [specified_size |-> 0, head |-> << >>]
Answers == {BufferNULL} \cup
           [size : BufferSizes, buffer : {BufferNULL} \cup (Nat \X Nat)]

BufferInit == /\ pools = << >>
              /\ max_size = 0
              /\ size_lookup_table = BufferNULL
              /\ bufferUsers = << >>
              /\ pastTable = FALSE
              /\ answer = BufferNULL

-----------------------------------------------------------------------------
\* What the tuples in front of the terminating one must be, or EINVAL.
Sane(tuples) == /\ Len(tuples) \in 1 .. MAX_POOLS
                /\ \A t \in DOMAIN tuples :
                     /\ tuples[t].count > 0
                     /\ tuples[t].size > (IF t = 1 THEN 0 ELSE tuples[t - 1].size)

\* buffer_manager_pool_init: a pool whose block cannot be had stays empty.
buffer_manager_pool_init(p, tuple, had) ==
    IF had THEN [specified_size |-> tuple.size,
                 head |-> [i \in 1 .. tuple.count |-> <<p, i>>]]
           ELSE EMPTY_POOL

\* buffer_manager_lookup_table_init, for pools q: the first pool that is as
\* large as the index; an index above them all is not written and is junk.
buffer_manager_lookup_table_init(q, max, junk) ==
    [size \in 0 .. max |->
        LET large == {p \in DOMAIN q : size <= q[p].specified_size}
        IN  IF large = {} THEN junk ELSE Min(large)]

\* Any of the blocks may not be had, and the return value is 0 all the same.
buffer_manager_initialize(tuples) ==
    /\ pools = << >>
    /\ Sane(tuples)
    /\ \E had \in [0 .. Len(tuples) - 1 -> BOOLEAN], junk \in 0 .. MAX_POOLS :
         /\ pools' = [p \in DOMAIN had |-> buffer_manager_pool_init(p, tuples[p + 1], had[p])]
         /\ max_size' = Last(tuples).size
         /\ size_lookup_table' \in
              {BufferNULL, buffer_manager_lookup_table_init(pools', max_size', junk)}
    /\ UNCHANGED <<bufferUsers, pastTable, answer>>

\* The table has max_size bytes and is written from 0 to max_size: its last
\* entry is in the memory of whatever comes after it.
OverwriteLastEntry ==
    /\ size_lookup_table # BufferNULL
    /\ ~pastTable
    /\ \E byte \in 0 .. MAX_POOLS :
         size_lookup_table' = [size_lookup_table EXCEPT ![max_size] = byte]
    /\ pastTable' = TRUE
    /\ answer' = BufferNULL
    /\ UNCHANGED <<pools, max_size, bufferUsers>>

-----------------------------------------------------------------------------
\* Mutant: the search stays in the pool that the table gives.
ServingOnlyHere(size) ==
    {p \in DOMAIN pools :
       /\ p = (IF size_lookup_table = BufferNULL THEN 0 ELSE size_lookup_table[size])
       /\ size <= pools[p].specified_size /\ pools[p].head # << >>}

\* The pools from the table's onwards, or from the first without a table,
\* that have a buffer for the size.
Serving(size) ==
    {p \in DOMAIN pools :
       /\ p >= (IF size_lookup_table = BufferNULL THEN 0 ELSE size_lookup_table[size])
       /\ size <= pools[p].specified_size /\ pools[p].head # << >>}

buffer_allocate(size) ==
    /\ pools # << >>
    /\ IF size < 0 \/ size > max_size \/ Serving(size) = {}
       THEN /\ answer' = [size |-> size, buffer |-> BufferNULL]
            /\ UNCHANGED <<pools, bufferUsers>>
       ELSE LET p == Min(Serving(size))
                b == Head(pools[p].head)
            IN  /\ pools' = [pools EXCEPT ![p].head = Tail(@)]
                /\ bufferUsers' = [u \in DOMAIN bufferUsers \cup {b} |->
                                     IF u = b THEN size ELSE bufferUsers[u]]
                /\ answer' = [size |-> size, buffer |-> b]
    /\ UNCHANGED <<max_size, size_lookup_table, pastTable>>

\* Mutant: a buffer is given back to the pool that its size is looked up in.
FreeToLookup(b) ==
    /\ LET p == CHOOSE q \in DOMAIN pools : bufferUsers[b] <= pools[q].specified_size
       IN  pools' = [pools EXCEPT ![p].head = <<b>> \o @]
    /\ bufferUsers' = Restrict(bufferUsers, DOMAIN bufferUsers \ {b})
    /\ answer' = BufferNULL
    /\ UNCHANGED <<max_size, size_lookup_table, pastTable>>

\* The buffer itself says to which pool it goes back.
buffer_free(b) ==
    /\ pools' = [pools EXCEPT ![b[1]].head = <<b>> \o @]
    /\ bufferUsers' = Restrict(bufferUsers, DOMAIN bufferUsers \ {b})
    /\ answer' = BufferNULL
    /\ UNCHANGED <<max_size, size_lookup_table, pastTable>>

\* The blocks are freed under the users that still hold buffers.
buffer_manager_destroy ==
    /\ pools # << >>
    /\ pools' = << >>
    /\ max_size' = 0
    /\ size_lookup_table' = BufferNULL
    /\ bufferUsers' = << >>
    /\ pastTable' = FALSE
    /\ answer' = BufferNULL

BufferNext == \/ \E tuples \in BufferTuples : buffer_manager_initialize(tuples)
              \/ OverwriteLastEntry
              \/ \E size \in BufferSizes : buffer_allocate(size)
              \/ \E b \in DOMAIN bufferUsers : buffer_free(b)
              \/ buffer_manager_destroy

-----------------------------------------------------------------------------
BufferTypeOK == /\ \A p \in DOMAIN pools : /\ pools[p].specified_size \in Nat
                                           /\ pools[p].head \in Seq(Nat \X Nat)
                /\ max_size \in Nat
                /\ size_lookup_table = BufferNULL \/ DOMAIN size_lookup_table = 0 .. max_size
                /\ pastTable \in BOOLEAN
                /\ answer \in Answers

\* A buffer is free, once, in the pool it was carved for, or has one user, who
\* asked for no more than it holds.
BuffersAccountedFor ==
    /\ BufferTypeOK
    /\ \A p \in DOMAIN pools :
         /\ IsInjective(pools[p].head)
         /\ \A b \in ToSet(pools[p].head) : b[1] = p /\ b \notin DOMAIN bufferUsers
    /\ \A b \in DOMAIN bufferUsers :
         /\ b[1] \in DOMAIN pools
         /\ bufferUsers[b] <= pools[b[1]].specified_size
    /\ pools # << >> =>
         \E tuples \in BufferTuples :
           /\ Len(tuples) = num_pools
           /\ \A p \in DOMAIN pools :
                Len(pools[p].head) + Cardinality({b \in DOMAIN bufferUsers : b[1] = p})
                  = IF pools[p].specified_size = 0 THEN 0 ELSE tuples[p + 1].count

\* An allocation fails only if every buffer that is large enough is in use,
\* and takes one of the smallest pool that has one, whichever blocks of the
\* manager could not be had; but for the largest size, whose entry of the
\* table is not in the table (buffer_manager.c:115 and 125).
BestFit ==
    (answer # BufferNULL /\ answer.size >= 0) =>
        LET better == {p \in DOMAIN pools :
                         /\ answer.size <= pools[p].specified_size
                         /\ pools[p].head # << >>
                         /\ answer.buffer # BufferNULL =>
                              pools[p].specified_size < pools[answer.buffer[1]].specified_size}
        IN  better = {} \/ (pastTable /\ answer.size = max_size /\ answer.buffer = BufferNULL)
=============================================================================
