----------------------------- MODULE MemMonitor -----------------------------
(***************************************************************************)
(* mem_monitor_object.c under threads: containers made with the same       *)
(* parent monitor each have a lock of their own, and none is held by all   *)
(* when a thread in one of them updates the counters.                      *)
(***************************************************************************)
EXTENDS Integers, Sequences, FiniteSets, Functions

CONSTANTS
    MonitorThreads,     \* one in each container
    BlockSizes,         \* sizes with the header
    MaxCalls            \* bound

ASSUME MonitorAssumption == /\ IsFiniteSet(MonitorThreads)
                            /\ BlockSizes \subseteq Nat /\ IsFiniteSet(BlockSizes)

VARIABLES
    counters,
    held,               \* how many blocks of each size each thread's container has
    updates,            \* what a thread has still to add, and to which counter
    loaded,             \* what it has read of the first of these, or NotLoaded
    raced,              \* history: the counters that two threads updated at once
    calls

monitorVars == <<counters, held, updates, loaded, raced, calls>>

Counters == {"bytes_used", "allocations", "frees"}
NotLoaded == << >>

MonitorInit == /\ counters = [c \in Counters |-> 0]
               /\ held = [b \in MonitorThreads \X BlockSizes |-> 0]
               /\ updates = [t \in MonitorThreads |-> << >>]
               /\ loaded = [t \in MonitorThreads |-> NotLoaded]
               /\ raced = {}
               /\ calls = 0

-----------------------------------------------------------------------------
Call(t, todo) == /\ updates[t] = << >>
                 /\ calls < MaxCalls
                 /\ calls' = calls + 1
                 /\ updates' = [updates EXCEPT ![t] = todo]
                 /\ UNCHANGED <<counters, loaded, raced>>

\* What malloc fails to give is not counted.
mem_monitor_allocate(t, size) ==
    /\ Call(t, << <<"bytes_used", size>>, <<"allocations", 1>> >>)
    /\ held' = [held EXCEPT ![<<t, size>>] = @ + 1]

mem_monitor_free(t, size) ==
    /\ held[<<t, size>>] > 0
    /\ Call(t, << <<"bytes_used", -size>>, <<"frees", 1>> >>)
    /\ held' = [held EXCEPT ![<<t, size>>] = @ - 1]

\* Mutant: the size before is not taken off.
ReallocateAddsOnly(t, size, new_size) ==
    /\ held[<<t, size>>] > 0
    /\ Call(t, << <<"bytes_used", new_size>> >>)
    /\ held' = [held EXCEPT ![<<t, size>>] = @ - 1, ![<<t, new_size>>] = @ + 1]

\* Nothing changes if realloc fails.
mem_monitor_reallocate(t, size, new_size) ==
    /\ held[<<t, size>>] > 0
    /\ size # new_size
    /\ Call(t, << <<"bytes_used", -size>>, <<"bytes_used", new_size>> >>)
    /\ held' = [held EXCEPT ![<<t, size>>] = @ - 1, ![<<t, new_size>>] = @ + 1]

\* +=, -= and ++ on a counter that is not atomic: it is read ...
LoadCounter(t) ==
    /\ updates[t] # << >> /\ loaded[t] = NotLoaded
    /\ LET c == updates[t][1][1]
       IN  /\ loaded' = [loaded EXCEPT ![t] = <<counters[c]>>]
           /\ raced' = IF \E u \in MonitorThreads : loaded[u] # NotLoaded /\ updates[u][1][1] = c
                       THEN raced \cup {c} ELSE raced
    /\ UNCHANGED <<counters, held, updates, calls>>

\* ... and written.
StoreCounter(t) ==
    /\ loaded[t] # NotLoaded
    /\ counters' = [counters EXCEPT ![updates[t][1][1]] = loaded[t][1] + updates[t][1][2]]
    /\ loaded' = [loaded EXCEPT ![t] = NotLoaded]
    /\ updates' = [updates EXCEPT ![t] = Tail(@)]
    /\ UNCHANGED <<held, raced, calls>>

MonitorNext ==
    \E t \in MonitorThreads :
      \/ LoadCounter(t) \/ StoreCounter(t)
      \/ \E size \in BlockSizes :
           \/ mem_monitor_allocate(t, size) \/ mem_monitor_free(t, size)
           \/ \E new_size \in BlockSizes : mem_monitor_reallocate(t, size, new_size)

-----------------------------------------------------------------------------
MonitorTypeOK == /\ counters \in [Counters -> Int]
                 /\ held \in [MonitorThreads \X BlockSizes -> Nat]
                 /\ raced \subseteq Counters

BytesHeld == SumFunction([b \in DOMAIN held |-> b[2] * held[b]])
BlocksHeld == SumFunction(held)

\* When no call is under way the monitor has the bytes and the number of the
\* blocks that are held, unless two threads updated the same counter at once
\* (mem_monitor_object.c:73): nothing else makes the sums wrong.
CountersExact ==
    /\ MonitorTypeOK
    /\ (\A t \in MonitorThreads : updates[t] = << >>) =>
         /\ "bytes_used" \in raced \/ counters["bytes_used"] = BytesHeld
         /\ \/ {"allocations", "frees"} \cap raced # {}
            \/ counters["allocations"] - counters["frees"] = BlocksHeld
=============================================================================
