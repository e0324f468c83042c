--------------------------- MODULE PointerLookup ---------------------------
(***************************************************************************)
(* pointer_lookup.c: pointers are handed out as a slot and a number, so    *)
(* that a handle kept after its pointer was cleared is refused.  The       *)
(* numbers come around again: the pointer of the k-th store is written k   *)
(* here, and the history of the stores tells which handles have met.       *)
(***************************************************************************)
EXTENDS Integers, Sequences, FiniteSets, Functions

CONSTANTS
    MAX_ADDRESS_NUMBER,     \* 32000
    LookupSizes,            \* the sizes that init is asked for
    MaxStores,              \* bound: stores into one table
    NoPointer

ASSUME LookupAssumption == /\ MAX_ADDRESS_NUMBER \in Nat \ {0}
                           /\ LookupSizes \subseteq Nat
                           /\ MaxStores \in Nat

VARIABLES
    pointer_entries,        \* the slots: number and pointer
    number_generator,
    index_stack, stack_idx, \* the free slots are those from stack_idx up
    issued,                 \* history: the handle that each store returned
    live,                   \* history: the stores whose handle was not given to clear
    collided                \* history: the live ones cleared by the handle of another

lookupVars == <<pointer_entries, number_generator, index_stack, stack_idx, issued, live, collided>>
histories == <<issued, live, collided>>

EMPTY_ENTRY == [pointer_number |-> MAX_ADDRESS_NUMBER, pointer |-> NoPointer]
Slots == DOMAIN pointer_entries

LookupInit == /\ pointer_entries = << >>
              /\ number_generator = 0
              /\ index_stack = << >>
              /\ stack_idx = 0
              /\ issued = << >>
              /\ live = {}
              /\ collided = {}

-----------------------------------------------------------------------------
\* E2BIG and ENOMEM leave no table.
pointer_lookup_init(size) ==
    /\ Slots = {}
    /\ size < MAX_ADDRESS_NUMBER
    /\ pointer_entries' = [i \in 0 .. size - 1 |-> EMPTY_ENTRY]
    /\ index_stack' = [i \in 0 .. size - 1 |-> i]
    /\ UNCHANGED <<number_generator, stack_idx, histories>>

\* pointer_lookup_get_unique_number: the generator is left one further.
UniqueNumber == IF number_generator >= MAX_ADDRESS_NUMBER THEN 0 ELSE number_generator

\* The next free slot; ENOSPC if there is none.
pointer_lookup_store_pointer ==
    /\ stack_idx < Cardinality(Slots)
    /\ Len(issued) < MaxStores
    /\ LET index == index_stack[stack_idx]
           store == Len(issued) + 1
       IN  /\ pointer_entries' = [pointer_entries EXCEPT ![index] =
                                    [pointer_number |-> UniqueNumber, pointer |-> store]]
           /\ issued' = Append(issued, [index |-> index, number |-> UniqueNumber])
           /\ live' = live \cup {store}
    /\ stack_idx' = stack_idx + 1
    /\ number_generator' = UniqueNumber + 1
    /\ UNCHANGED <<index_stack, collided>>

Matches(handle) == pointer_entries[handle.index].pointer_number = handle.number

pointer_lookup_get_pointer(handle) ==
    IF Matches(handle) THEN pointer_entries[handle.index].pointer ELSE NoPointer

\* Mutant: the number in the slot is left as it is.
ErasePointerOnly(index) == [pointer_entries[index] EXCEPT !.pointer = NoPointer]

Erased(index) == EMPTY_ENTRY

\* The slot goes back onto the stack; ENODATA if the numbers differ.
pointer_lookup_clear_pointer(k) ==
    LET handle == issued[k]
        present == pointer_lookup_get_pointer(handle)
    IN  /\ IF Matches(handle)
           THEN /\ pointer_entries' = [pointer_entries EXCEPT ![handle.index] = Erased(handle.index)]
                /\ index_stack' = [index_stack EXCEPT ![stack_idx - 1] = handle.index]
                /\ stack_idx' = stack_idx - 1
                /\ collided' = (collided \cup {present}) \ {k}
           ELSE /\ UNCHANGED <<pointer_entries, index_stack, stack_idx>>
                /\ collided' = collided \ {k}
        /\ live' = live \ {k}
        /\ UNCHANGED <<number_generator, issued>>

pointer_lookup_destroy ==
    /\ Slots # {}
    /\ pointer_entries' = << >>
    /\ number_generator' = 0
    /\ index_stack' = << >>
    /\ stack_idx' = 0
    /\ issued' = << >>
    /\ live' = {}
    /\ collided' = {}

LookupNext == \/ \E size \in LookupSizes : pointer_lookup_init(size)
              \/ pointer_lookup_store_pointer
              \/ \E k \in DOMAIN issued : pointer_lookup_clear_pointer(k)
              \/ pointer_lookup_destroy

-----------------------------------------------------------------------------
LookupTypeOK ==
    /\ pointer_entries \in [Slots -> [pointer_number : 0 .. MAX_ADDRESS_NUMBER,
                                      pointer : DOMAIN issued \cup {NoPointer}]]
    /\ number_generator \in 0 .. MAX_ADDRESS_NUMBER
    /\ index_stack \in [Slots -> Slots]
    /\ stack_idx \in 0 .. Cardinality(Slots)
    /\ live \subseteq DOMAIN issued
    /\ collided \subseteq live

\* The slots of the stack from stack_idx up are the free ones, each once, and
\* no free slot has a number that a store returns.
FreeSlotsExact ==
    LET free == [i \in stack_idx .. Cardinality(Slots) - 1 |-> index_stack[i]]
    IN  /\ IsInjective(free)
        /\ Range(free) = {s \in Slots : pointer_entries[s] = EMPTY_ENTRY}

\* The stores that a handle cannot be told from: the same slot, and a full
\* round of the numbers, or several, in between (pointer_lookup.c:131).
Alike(k) == {j \in DOMAIN issued : /\ (j - k) % MAX_ADDRESS_NUMBER = 0
                                   /\ issued[j].index = issued[k].index}

\* A handle that nobody has cleared gives the pointer that was stored, and one
\* that was cleared gives nothing, whoever has the slot by now; but after a
\* round of the numbers it may be a later one's, which can then lose its
\* pointer to the earlier handle's owner.
HandlesHold ==
    /\ LookupTypeOK
    /\ FreeSlotsExact
    /\ \A k \in live \ collided : pointer_lookup_get_pointer(issued[k]) = k
    /\ \A k \in DOMAIN issued \ (live \ collided) :
         LET got == pointer_lookup_get_pointer(issued[k])
         IN  got = NoPointer \/ got \in Alike(k) \cap live
    /\ \A k \in collided : Alike(k) \ {k} # {}
=============================================================================
