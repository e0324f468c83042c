---------------------------- MODULE IndexObject ----------------------------
(***************************************************************************)
(* index_object.c: a sorted array of pointers searched by bisection.  A    *)
(* call takes the object's lock, checks, searches probe by probe, and acts *)
(* on what the search found; the lock keeps other calls out (RWLock), so   *)
(* one call is in progress at a time.  The handler of a destroy may call   *)
(* the index again when the index is made without a lock.                  *)
(***************************************************************************)
EXTENDS Integers

CONSTANTS
    Data,               \* what users put in
    Key,                \* the key by which cmpf orders data
    NULL,
    InitialSize,        \* maximum_size and expansion_size of index_obj_init
    ExpansionSize,
    DefaultSize,        \* INDEX_OBJECT_DEFAULT_SIZE
    MaxShrink           \* the largest shrink_threshold (a bound)

ASSUME KeyAssumption == Key \in [Data -> Int] /\ NULL \notin Data
ASSUME SizeAssumption ==
    /\ InitialSize \in Nat /\ InitialSize > 1
    /\ ExpansionSize \in Nat
    /\ DefaultSize \in Nat \ {0}
    /\ MaxShrink \in Nat

VARIABLES
    elements, maximum_size, n, should_not_be_modified,
    pc,                 \* "ready", "probe", "found" or "dead"
    request,            \* the call in progress, or the last one
    lo, hi, mid, diff,  \* of index_obj_find_position
    i,                  \* of index_obj_destroy; -1 when it is not running
    owed,               \* what destroy has still to hand out (history)
    answer              \* of the last call

array == <<elements, maximum_size, n>>
bisection == <<lo, hi, mid, diff>>
destruction == <<should_not_be_modified, i, owed>>
vars == <<elements, maximum_size, n, should_not_be_modified, pc, request,
          lo, hi, mid, diff, i, owed, answer>>

Ops == {"insert", "search", "remove"}
NoAnswer == [op |-> "none", data |-> NULL, rc |-> "ok", found |-> NULL]
NoRequest == [op |-> "none", data |-> NULL]

Answer(rc, found) ==
    [op |-> request.op, data |-> request.data, rc |-> rc, found |-> found]

Return(rc, found) ==
    /\ pc' = "ready"
    /\ answer' = Answer(rc, found)
    /\ UNCHANGED <<request, bisection, destruction>>

Zalloc(size) == [x \in 0..(size - 1) |-> NULL]

\* The first count pointers of a block, at the front of a zeroed one.
Resized(block, count, size) ==
    [x \in 0..(size - 1) |-> IF x < count THEN block[x] ELSE NULL]

\* Mutant: copies upwards whatever the overlap, and so smears one pointer.
CopyUpwards(block, src, dst, count) ==
    [x \in DOMAIN block |->
        IF dst <= x /\ x < dst + count
        THEN block[IF dst < src THEN x + src - dst ELSE src] ELSE block[x]]

\* copy_pointer_blocks inside one block: the direction follows the overlap,
\* so every pointer arrives.
CopyPointerBlocks(block, src, dst, count) ==
    [x \in DOMAIN block |->
        IF dst <= x /\ x < dst + count THEN block[x + src - dst] ELSE block[x]]

Init ==
    /\ elements = Zalloc(InitialSize)
    /\ maximum_size = InitialSize
    /\ n = 0
    /\ should_not_be_modified = FALSE
    /\ pc = "ready"
    /\ request = NoRequest
    /\ lo = 0 /\ hi = -1 /\ mid = 0 /\ diff = 0
    /\ i = -1
    /\ owed = {}
    /\ answer = NoAnswer

-----------------------------------------------------------------------------
(***************************************************************************)
(* A call, and the search.                                                 *)
(***************************************************************************)
StartSearch(op, d) ==
    /\ pc' = "probe"
    /\ request' = [op |-> op, data |-> d]
    /\ lo' = 0 /\ hi' = n - 1 /\ mid' = 0 /\ diff' = 0
    /\ UNCHANGED <<array, destruction, answer>>

\* Mutant: insert and remove do not look at should_not_be_modified.
CallUnchecked(op, d) ==
    /\ pc = "ready"
    /\ StartSearch(op, d)

\* Insert and remove start only if no handler runs; a search always does.
Call(op, d) ==
    /\ pc = "ready"
    /\ op \in {"insert", "remove"} => ~should_not_be_modified
    /\ StartSearch(op, d)

Refused(op, d) ==
    /\ pc = "ready"
    /\ op \in {"insert", "remove"}
    /\ should_not_be_modified
    /\ request' = [op |-> op, data |-> d]
    /\ answer' = [op |-> op, data |-> d, rc |-> "EBUSY", found |-> NULL]
    /\ UNCHANGED <<array, destruction, bisection, pc>>

\* Only the sign of cmpf counts.
Sign(a, b) == IF a > b THEN 1 ELSE IF a < b THEN -1 ELSE 0

\* Mutant: going down also drops the element below the one looked at.
ProbeSkips ==
    /\ pc = "probe"
    /\ lo <= hi
    /\ mid' = (hi + lo) \div 2
    /\ diff' = Sign(Key[request.data], Key[elements[mid']])
    /\ lo' = IF diff' > 0 THEN mid' + 1 ELSE lo
    /\ hi' = IF diff' < 0 THEN mid' - 2 ELSE hi
    /\ pc' = IF diff' = 0 THEN "found" ELSE "probe"
    /\ UNCHANGED <<array, destruction, request, answer>>

Probe ==
    /\ pc = "probe"
    /\ lo <= hi
    /\ mid' = (hi + lo) \div 2
    /\ diff' = Sign(Key[request.data], Key[elements[mid']])
    /\ lo' = IF diff' > 0 THEN mid' + 1 ELSE lo
    /\ hi' = IF diff' < 0 THEN mid' - 1 ELSE hi
    /\ pc' = IF diff' = 0 THEN "found" ELSE "probe"
    /\ UNCHANGED <<array, destruction, request, answer>>

Hit(op) == pc = "found" /\ request.op = op
Miss(op) == pc = "probe" /\ lo > hi /\ request.op = op

insertion_point == IF diff > 0 THEN mid + 1 ELSE mid

-----------------------------------------------------------------------------
(***************************************************************************)
(* thread_unsafe_index_obj_insert after the search.                        *)
(***************************************************************************)
InsertPresent(overwrite_if_present) ==
    /\ Hit("insert")
    /\ elements' = IF overwrite_if_present
                   THEN [elements EXCEPT ![mid] = request.data] ELSE elements
    /\ Return("ok", elements[mid])
    /\ UNCHANGED <<maximum_size, n>>

Inserted(block) ==
    [CopyPointerBlocks(block, insertion_point, insertion_point + 1, n - insertion_point)
        EXCEPT ![insertion_point] = request.data]

InsertNew ==
    /\ Miss("insert")
    /\ n < maximum_size
    /\ elements' = Inserted(elements)
    /\ n' = n + 1
    /\ Return("ok", NULL)
    /\ UNCHANGED maximum_size

InsertExpand ==
    /\ Miss("insert")
    /\ n >= maximum_size
    /\ ExpansionSize > 0
    /\ maximum_size' = maximum_size + ExpansionSize
    /\ elements' = Inserted(Resized(elements, n, maximum_size'))
    /\ n' = n + 1
    /\ Return("ok", NULL)

\* Expansion is not allowed, or malloc fails.
InsertFails ==
    /\ Miss("insert")
    /\ n >= maximum_size
    /\ Return(IF ExpansionSize <= 0 THEN "ENOSPC" ELSE "ENOMEM", NULL)
    /\ UNCHANGED array

-----------------------------------------------------------------------------
(***************************************************************************)
(* thread_unsafe_index_obj_search and _remove after the search.            *)
(***************************************************************************)
SearchHit ==
    /\ Hit("search")
    /\ Return("ok", elements[mid])
    /\ UNCHANGED array

SearchMiss ==
    /\ Miss("search")
    /\ Return("ENODATA", NULL)
    /\ UNCHANGED array

RemoveMiss ==
    /\ Miss("remove")
    /\ Return("ENODATA", NULL)
    /\ UNCHANGED array

\* Mutant: data_removed is read after the elements moved left.
RemoveHitLate(shrink_threshold, resized) ==
    LET rest == CopyPointerBlocks(elements, mid + 1, mid, n - 1 - mid)
        shrink == shrink_threshold > 0 /\ maximum_size > n - 1 + shrink_threshold
        size == IF shrink /\ resized THEN n - 1 + shrink_threshold ELSE maximum_size
    IN
    /\ Hit("remove")
    /\ n' = n - 1
    /\ maximum_size' = size
    /\ elements' = IF shrink /\ resized THEN Resized(rest, n - 1, size) ELSE rest
    /\ Return("ok", rest[mid])

\* The last pointer stays behind in its old slot.  If the shrink fails, the
\* removal still succeeds.
RemoveHit(shrink_threshold, resized) ==
    LET rest == CopyPointerBlocks(elements, mid + 1, mid, n - 1 - mid)
        shrink == shrink_threshold > 0 /\ maximum_size > n - 1 + shrink_threshold
        size == IF shrink /\ resized THEN n - 1 + shrink_threshold ELSE maximum_size
    IN
    /\ Hit("remove")
    /\ n' = n - 1
    /\ maximum_size' = size
    /\ elements' = IF shrink /\ resized THEN Resized(rest, n - 1, size) ELSE rest
    /\ Return("ok", elements[mid])

-----------------------------------------------------------------------------
(***************************************************************************)
(* index_obj_replace, _reset, _destroy and _init.  Callers of replace keep *)
(* the order, as they must; handlers of destroy call insert, search and    *)
(* remove and leave these three alone.                                     *)
(***************************************************************************)
Idle == pc = "ready" /\ i = -1

KeepsOrder(at, d) ==
    /\ at > 0 => Key[elements[at - 1]] < Key[d]
    /\ at < n - 1 => Key[d] < Key[elements[at + 1]]

Replace(at, d) ==
    /\ Idle
    /\ at < n
    /\ KeepsOrder(at, d)
    /\ elements' = [elements EXCEPT ![at] = d]
    /\ UNCHANGED <<maximum_size, n, destruction, bisection, pc, request, answer>>

\* If the resize fails, the index keeps its size.
Reset(resized) ==
    /\ Idle
    /\ n' = 0
    /\ elements' = IF resized THEN Zalloc(DefaultSize) ELSE elements
    /\ maximum_size' = IF resized THEN DefaultSize ELSE maximum_size
    /\ UNCHANGED <<destruction, bisection, pc, request, answer>>

Contents == {elements[x] : x \in 0..(n - 1)}

DestroyStart ==
    /\ Idle
    /\ should_not_be_modified' = TRUE
    /\ i' = 0
    /\ owed' = Contents
    /\ UNCHANGED <<array, bisection, pc, request, answer>>

DestroyHandOut ==
    /\ pc = "ready"
    /\ i >= 0
    /\ i < n
    /\ i' = i + 1
    /\ owed' = owed \ {elements[i]}
    /\ UNCHANGED <<array, should_not_be_modified, bisection, pc, request, answer>>

\* Free the array and clear the structure.
DestroyEnd ==
    /\ pc = "ready"
    /\ i >= n
    /\ pc' = "dead"
    /\ elements' = Zalloc(0)
    /\ maximum_size' = 0
    /\ n' = 0
    /\ should_not_be_modified' = FALSE
    /\ i' = -1
    /\ UNCHANGED <<owed, bisection, request, answer>>

Reinit ==
    /\ pc = "dead"
    /\ pc' = "ready"
    /\ elements' = Zalloc(InitialSize)
    /\ maximum_size' = InitialSize
    /\ UNCHANGED <<n, destruction, bisection, request, answer>>

Next ==
    \/ \E op \in Ops, d \in Data : Call(op, d) \/ Refused(op, d)
    \/ Probe
    \/ \E overwrite \in BOOLEAN : InsertPresent(overwrite)
    \/ InsertNew \/ InsertExpand \/ InsertFails
    \/ SearchHit \/ SearchMiss \/ RemoveMiss
    \/ \E shrink \in 0..MaxShrink, resized \in BOOLEAN : RemoveHit(shrink, resized)
    \/ \E at \in 0..(n - 1), d \in Data : Replace(at, d)
    \/ \E resized \in BOOLEAN : Reset(resized)
    \/ DestroyStart \/ DestroyHandOut \/ DestroyEnd \/ Reinit

Spec == Init /\ [][Next]_vars

-----------------------------------------------------------------------------
(***************************************************************************)
(* Properties.                                                             *)
(***************************************************************************)
Answers == [op : Ops \cup {"none"}, data : Data \cup {NULL},
            rc : {"ok", "ENODATA", "EBUSY", "ENOSPC", "ENOMEM"}, found : Data \cup {NULL}]

\* The fields and the locals keep their types; the count fits the array.
TypeOK ==
    /\ maximum_size \in Nat
    /\ elements \in [0..(maximum_size - 1) -> Data \cup {NULL}]
    /\ n \in 0..maximum_size
    /\ should_not_be_modified \in BOOLEAN
    /\ pc \in {"ready", "probe", "found", "dead"}
    /\ request \in [op : Ops, data : Data] \cup {NoRequest}
    /\ lo \in Nat /\ hi \in Int /\ mid \in Nat /\ diff \in {-1, 0, 1}
    /\ i \in Nat \cup {-1}
    /\ owed \in SUBSET Data
    /\ answer \in Answers

InOrder ==
    /\ \A x \in 0..(n - 1) : elements[x] \in Data
    /\ \A x, y \in 0..(n - 1) : x < y => Key[elements[x]] < Key[elements[y]]

\* The array is sorted by key without duplicates and within its block, across
\* inserts in the middle, expansions, removals, shrinks and resets.
Sorted == TypeOK /\ InOrder

\* index_obj_find_position: whatever was dropped from the window is on its
\* side of the key, so a hit is the key's element, a miss means there is
\* none, and the insertion point computed from the last probe alone is where
\* the new element belongs (index_object.c:78).
SearchIsRight ==
    /\ pc = "probe" =>
         /\ hi < n /\ lo <= hi + 1
         /\ \A x \in 0..(lo - 1) : Key[elements[x]] < Key[request.data]
         /\ \A x \in (hi + 1)..(n - 1) : Key[elements[x]] > Key[request.data]
         /\ lo > hi => insertion_point = lo
    /\ pc = "found" => mid < n /\ Key[elements[mid]] = Key[request.data]

\* index_object.h: destroy calls the handler for every element, each once,
\* whatever the handler asks of the index in between.
OwedIsRest == i >= 0 => owed = {elements[x] : x \in i..(n - 1)}
EachHandedOut == i = -1 => owed = {}
HandsOutAll == OwedIsRest /\ EachHandedOut

\* The index implements the abstract dictionary.
Dict == INSTANCE Dictionary WITH
            store <- Contents, frozen <- should_not_be_modified, FrozenAtInit <- {FALSE}
ImplementsDictionary == Dict!Spec
=============================================================================
