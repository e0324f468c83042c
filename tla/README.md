# TLA+ models of generic_utilities

`generic_utilities` is a C library of containers, allocators and an object
database, each of which can be made thread safe with the library's own
read/write lock.  This directory models the library in TLA+, checks small
instances with TLC and proves the main results with TLAPS.  File and line
numbers refer to the repository.

## 1. Inventory

Every component is a structure with an optional lock (`LOCK_VARIABLES`,
lock_object.h:101) and an optional memory monitor.  A public operation takes the
object's lock, runs a static engine function, and gives the lock back; if the
object was made without locking the same engine runs bare.  The components call
each other directly, and some call back into the user's code (comparison
functions, traversal functions, destruction handlers) while they hold the lock.

| component | state | operations | what makes it correct |
|---|---|---|---|
| lock_object | `mtx` byte, `readers`, `write_pending`, `writing` | grab/release read and write lock, enable/disable locking | one writer or several readers; exact reader count; no starved writer |
| chunk_manager | list of groups, free list of chunks, per-group free count | alloc, free, trim, destroy | a chunk is free or with one user; counts equal the lists; trim frees only whole free groups and moves no chunk |
| index_object | sorted array with capacity | insert, search, replace, remove, reset, destroy | sorted, no duplicate keys, refines a map; capacity rules; refusal while a callback runs |
| avl_tree_object | balanced tree with parent links, or linear lists | insert, search, remove, morris and plain traversal, destroy | order, balance, links; a traversal leaves the tree as it was and lets nothing else change it |
| radix_tree_object | 16-way trie by nibble | insert, search, remove, traverse | a search finds exactly what was inserted; no node is orphaned |
| lifo, list, ordered_list | singly or doubly linked nodes with sentinel | add, find, remove by handle, destroy | count equals nodes; a handle names the element it was given for |
| buffer_manager | pools of equal chunks, size lookup table | initialise, allocate, free, destroy | a buffer is at least as large as asked; returned to its own pool |
| dynamic_array_object | window of slots over an index range | insert, get, remove | elements survive growth on either side |
| bitlist_object | bit array with a count | set, clear, first set, first clear, counts | the count equals the bits set; the bits beyond the range are never given out |
| pointer_lookup | slots, stack of free indices, number generator | store, get, clear | a stale handle is refused, for a round of the numbers |
| tlv_manager | buffer and parsed index | append, attach, parse | what was appended stays and is what is parsed; an append after a parse goes on where the list ends |
| mem_monitor_object | three counters | allocate, free, reallocate | the counters equal the live blocks |
| event_manager | registration lists, a flag | register, unregister, announce, destroy | an event reaches those registered for it, once for each registration; no list changes under a walk |
| object_manager | objects, parents, attributes, files | create, attributes, parent, write, read (remove and traverse are under `#if 0`) | an object keeps its parent; a child is in one list; pointers are to objects that are there; a whole file survives |
| dl_list, sl_list | as list and lifo | as list and lifo | earlier versions, not built |
| utilities (ez_sprintf, timer, debug_framework, line_counters, linux_fileio, safe_pointers, common, address, relationship_object, test programs) | little or none | formatting, timing, tracing | not a matter of state |

How they interact: `lock_object` and `mem_monitor_object` are part of every
other component.  `event_manager` keeps its registrations in ordered lists found
through an index; `object_manager` keeps its objects and attributes in AVL trees
and indexes, each object's children in a lifo whose handle the child stores.  It announces
nothing to an event manager at this commit.  The other components do not call one
another, but a process that uses several of them may give them one parent memory
monitor, and a user function that a container calls may call any container.

What is built at this commit: the Makefile's library has no `event_manager`, no
`line_counters` (both commented out) and no `ordered_list`. `object_manager.c` is on the
list but does not compile (changed parameter lists, an unbalanced parenthesis at l. 594,
engines under `#if 0`, attribute types that are gone), and neither do `event_manager.c`,
`dl_list.c` (there is no `dl_list.h`), `sl_list.c`, `line_counters.c` and
`linux_fileio.c`.

### What is hard here

* **Threads.**  The lock is hand made: a byte with compare and swap, three plain
  fields, no queue.  Traversals of the AVL tree *write* to the tree under the
  read lock, so several threads are in them at once; `chunk_free` and
  `radix_tree_traverse` read fields before they have the lock.
* **Calls back.**  Traversal functions and destruction handlers run in the middle
  of a loop over a structure and may call the same structure again.  The flag
  `should_not_be_modified` refuses insertions and removals, not everything else.
* **Failures half way.**  Growth of a chunk manager, a radix path or an index
  array, the pools of a buffer manager and a registration for events take several
  allocations or copies, and any of them can fail.
* **Crashes.**  `om_write` makes four calls on the object manager's files before it writes,
  and the process may end, or a call fail, at any point of it.
* **Long sequences.**  Rebalancing, trimming and removal rely on counts and
  balances that many earlier calls have stored; a wrong one is noticed much later.
* **Addresses.**  lifo and ordered_list remove an element by copying its
  neighbour over it and freeing the neighbour, so what a kept handle names changes.
* **Edges of numbers and buffers.**  A signed 16 bit reader count, insertion at
  both ends of a bisection, an array that is exactly full, a table or a buffer that is
  one byte short, generation numbers that come around, bits beyond a range.

PROJECT.json lists each of these as a hazard, at its line, with the properties that would
fail, or with the reason why none would: a hazard that a property's exception takes out is
not one that the property catches. The object manager's files are the only state that
outlives a process; nothing sends messages or keeps time, so lost messages and timeouts
are not on the list.

## 2. Modules

| module | models | form |
|---|---|---|
| `ReadersWriters` | what lock_object.h promises | abstract specification |
| `RWLock` | lock_object.c | one step per field access |
| `RWLockO3` | the order of stores gcc gives release_read_lock at -O3 | extends `RWLock` |
| `ChunkPool` | what chunk_manager.h promises | abstract specification |
| `ChunkManager` | chunk_manager.c | one step per locked operation, two for chunk_free |
| `ChunkAndWalkProofs` | | theorems about `ChunkManager`, and about `AVLTraversal` |
| `Dictionary` | what a container with keys promises | abstract specification, used twice |
| `IndexObject` | index_object.c, copy_pointer_blocks | one step per probe and per phase of a call |
| `IndexObjectProofs` | | theorems about `IndexObject` |
| `AVLNodes` | the nodes of an AVL tree and their links | state shared by the next two |
| `AVLTree` | insertion, removal and rebalancing of avl_tree_object.c | one step per call |
| `AVLTraversal` | search, both traversals and destroy of avl_tree_object.c | one step per access to a link, threads and nested calls |
| `LockAndTreeProofs` | | theorems about `RWLock`, and about `AVLTree`, which the lock makes one step per call |
| `RadixTree` | radix_tree_object.c | one step per call, one per turn of the traversal's loop |
| `RadixTreeProofs` | | theorems about `RadixTree` |
| `NodeHeap` | the nodes of the lists in memory, mem_monitor_object.c | operators shared by the next three |
| `Lifo`, `List`, `OrderedList` | lifo.c, list.c, ordered_list.c | one step per call |
| `Lists` | the three lists of one process with one monitor | composition |
| `ListsProofs` | | theorems about `Lists` |
| `EventManager` | event_manager.c | one step per call of the manager and per call of a user function |
| `EventManagerProofs` | | theorems about `EventManager` |
| `BufferManager` | buffer_manager.c | one step per call |
| `PointerLookup` | pointer_lookup.c | one step per call |
| `Bitlist` | bitlist_object.c without the groups of bits | one step per call |
| `TLV` | tlv_manager.c | one step per call |
| `MemMonitor` | mem_monitor_object.c under threads | one step per load and per store of a counter |
| `ObjectManager` | object_manager.c as far as it is whole | one step per call, each of which may end the process |
| `Objects` | a process that uses one of the last six | composition |
| `ObjectsProofs` | | theorems about `Objects` |
| `Locked` | a process that uses one of `RWLock`, `ChunkManager` and `AVLTree` | composition |
| `Library` | a process that uses one of `Objects` and `EventManager` | composition |
| `DataFacts` | | lemmas about numbers, sequences, sums and binary trees that the proofs share |
| `MC...` | | instances for TLC |

Some definitions are marked `Mutant:`.  They are not part of any specification:
each is a definition of the module with a mistake a programmer could make, and is
substituted for it to see that the property meant to catch it does (PROJECT.json,
"mutants").

### State and actions against the code

**RWLock.**  `mtx`, `readers`, `write_pending` and `writing` are the fields of
lock_obj_t.  `pc[t]` says between which two accesses a process stands, `reg[t]`
is the machine register that holds a count between its load and its store.
`Enter` is a compare and swap that succeeds; one that fails calls `sched_yield`
and tries again, changing nothing.  `Leave` is `mtx = 0`.  `ReadTest`, `ReadLoad`
and `ReadStore` are `_read_lock`; `UnreadLoad`, `UnreadDec` and `UnreadClamp`
`release_read_lock`; `WriteMark`, `WriteTest` and `WriteClaim` `_write_lock`;
`UnwriteClear` and `UnwriteUnmark` `release_write_lock`.  `Short` is the width of
the field `readers`.  A process is one chain of calls; a thread that calls again
while it holds the lock is a second process, which `Nest` ties to the first.

**ChunkManager.**  `free_chunks_list`, `groups` and `n_grp_free` are the fields,
`heap` the blocks malloc has given (a group has two, its header and its chunks),
`users` and `freeing` the chunks that users have and those whose `chunk_free` has
begun and has not got the lock.  `AllocGrow` and `AllocFails` are the three ways
an allocation with an empty list can go.  `Trim` has both passes of the code and
turns both lists round, as they do.

**IndexObject.**  `elements`, `maximum_size`, `n` and `should_not_be_modified`
are the fields; `lo`, `hi`, `mid` and `diff` the locals of the bisection; `i` the
loop counter of destroy.  A call is `Call`, some `Probe`s and one of the actions
that end it.  The pointers behind the last element stay in the array, as they do
in the code.  `owed` is a history variable: what destroy has still to hand out.

**AVLNodes, AVLTree.**  `tree` has the root and, by node, the links and the balance.  A
node is named by its key, since a node never changes its key.  `WellFormed` says what a
call finds and leaves.  `avl_tree_insert` is descent,
link, the walk that adds to the balances (`Lean`) and one rebalancing; `avl_tree_remove`
is `Unlinked` (the three ways to take a node out) and `Lower` (the walk up).  The loops of
the code are `Loop`: a step function for one turn, `LowerOnce` for the walk up, taken
`n` times, where a loop that has ended stays as it is.  None has more turns than the
tree has nodes; the proof that the loops end within `n` turns is part of section 5.

**AVLTraversal.**  `stack[t]` has a frame for every call thread t is in, with the
locals of that call and its place in it, so that a user function can call again.
`left_visited` and `right_visited` are the marks of the nodes.  `freed` is what
destroy has freed, `seen` in a frame what the user function has got.  The trees that
the calls find, `Originals`, are any that are `WellFormed`; that insertion and removal
leave no others is `TreeInvariant` (section 5).

**RadixTree.**  A node is named by its nibbles, so `children[]` and `parent` are
given by `nodes`; `user_data`, `n_children`, `current`, `node_count` are fields.
`FindCrashes` is the read through a null child that radix_tree_object.c:130 does
not look at; `crashed` ends the program.

**Lists.**  `heap` maps the addresses in use to nodes with the header that
mem_monitor_allocate puts in front; `counted` says that the header names a
monitor.  `monitor` is the shared parent monitor.  `handles` are the handles users
have kept.  Freed addresses are free for any of the three lists, so that a stale
pointer may come to name a node of another list.

**EventManager.** `lists` are the ordered lists, those for all types and those in the
containers of the two indexes, `containers` the containers that exist, `blocks` what
malloc has given. `stack` has a frame for every announcement in progress: the list it
walks, how far it is, whom it has told and, as history, whom its walks owed the event when
they began and who was registered when the announcement did. A registrant is a pair of two
addresses, the function's and the argument's. The step between two calls of user functions
is where such a function runs, so that its calls are steps of their own; `Walk` reads the
list as it is then. Pairs are compared by `compare_f_and_args`, whose two differences are
cut to an int (`AsInt`). A list that changes under a walk makes `fate` "disturbed": what
follows is undefined. The lists, whose order and removal `OrderedList` has in detail, are
sequences here.

**BufferManager.**  `pools` and `size_lookup_table` are the fields; a buffer is its pool
and its number in it.  Any of the blocks may be missing after an initialization, which
returns 0 all the same.  The table has `max_size` bytes and is written at the index
`max_size`: `OverwriteLastEntry` is the owner of that byte.

**PointerLookup.**  The fields by their names; the k-th store stores k, so that `issued`
says whose pointer a handle gave and gives.  `live` and `collided` are histories: handles
that nobody has given back, and those of them whose slot another handle's owner cleared.

**Bitlist.**  An int is the set of its positions whose bit is 1.  `ones` is the history.

**TLV.**  The buffer is the list of tlvs that it has from its start, the bytes are
counted and a value is its length, an unsigned int; the size that an append needs is cut
to an int (`Needed`), and one that goes over the buffer for it ends the process
(`append_runs_over`).  `Outcome` has the tests of the loop in their order.  `appended` is
the history of the appends that followed one another, `base` that of the list whose end
`tlvm_reset_to_append` last reached, `call` the last call.

**MemMonitor.**  A call is what it adds to which counter, in order; `LoadCounter` and
`StoreCounter` are the two halves of `+=`.  `held` is what the containers have, `raced`
the history of counters that two threads updated at once.

**ObjectManager.**  `objects` is `om_objects`, with parent, children and attributes of
each object, `files` the three files of a manager, `busy` whether the process has a
manager and has just read it.  `asked` is the history of the parents that were asked for.
A file is a sequence of records, in the orders and with the faults that a file may have.
A write is `om_write` (the removal of the oldest backup), `rename_backup`, `rename_om` and
`fopen_om`, one for each call on a file, and then an action for each object and each
attribute that it prints; `saving` says how far it is, which objects the walk of the AVL
tree has still to hand out and what it has printed.  `Crash` ends the process, by the
NULL that is the root's parent, an assertion, or on its own between any two of these,
and another one begins with the files; of what was printed any beginning is on disk, cut
within a record or not (`Flushed`).  `died` is the history of the call that ended the
last process.  With `NamesCanFail` each removal and change of a name may also do nothing.

**Objects, Library, Locked.**  The six of `Objects` share nothing, so an instance uses one of
them: `using` says which.  `Library` adds the event manager in the same way, and `Locked` puts
together the lock and two objects whose calls it makes one step, the chunk manager and the AVL
tree.  The states of such a run are those of its parts, one after the other.

## 3. Runs

| run | instance | distinct states | shows |
|---|---|---|---|
| `Locked` | a lock with three readers and two writers, one process in both roles; or three groups of two chunks; or an AVL tree of twelve keys | 225 161 | the lock: exclusion, exact count, `WriterGetsIn`, implements `ReadersWriters`; the chunks: accounts, trim, implements `ChunkPool`; the tree: an AVL tree, one key changed |
| `RWLock_O3` | two readers, one writer | | violation: exclusion is lost |
| `IndexObject` | five data of four keys, two slots at first | 598 487 | sorted, search, destroy, implements `Dictionary` |
| `AVLTraversal` | every AVL tree of up to four nodes, two threads | 153 747 | preorder and completeness, links restored, searches beside a traversal, destroy, termination |
| `AVLTraversal_morris2` | AVL trees of three nodes, two Morris traversals | | violation: nodes left out or handed out twice |
| `RadixTree` | two nibbles, four keys, five data | 80 549 | counts, traversal, no bare leaves, implements `Dictionary` |
| `RadixTree_find` | the same | | violation: null pointer read |
| `Lists` | five addresses, two data | 116 518 up to symmetry | links, monitor, handles of list, right element removed |
| `Library` | seven components, see below | 1 023 907 | the properties of the seven |
| `Library_far` | the same, three registrants that are far apart | | violation: a pair is registered twice |
| `Library_append` | as `Library` | | violation: an append overwrites the list it should go on |
| `Library_write` | as `Library` | | violation: a write ends the process |

A run is `tlc -config <run>.cfg <module>`, with the module PROJECT.json names for it;
`tlapm <module>` checks the proofs of a module.

`Locked` has the lock, the chunk manager and the AVL tree, and `Library` the event manager and the
six of `Objects`.
What the properties say, by module; where a module has a type invariant it is a conjunct of one of
them:

* `RWLock`: `MutualExclusion`, no process reads or writes beside a writer.
  `ReadersExact`, whenever the byte is free the count is the number of read locks
  given out, over any interleaving of loads and stores.  `WriterGetsIn`, a waiting
  writer is not starved by a stream of readers although each release of a writer
  clears the announcements of all.  `ImplementsReadersWriters`, in particular no
  reader gets in after a writer has announced itself.
* `ChunkManager`: `ChunksAccountedFor`, a chunk is on the list once or with one user,
  and the count in a group's header, by which alone trim frees memory, is that of its
  chunks on the list (`CountsMatchList`).  `MemoryExact`, the blocks are those
  of the groups: no leak on a failed growth, none freed under a user.
  `TrimIsComplete`, what trim returns is what it freed, and it frees every idle group.
* `IndexObject`: `Sorted`, in order and within the block; `SearchIsRight`, the window
  never loses the key and the insertion point of the last probe is right; `HandsOutAll`,
  destroy hands out every element once whatever its handler calls;
  `ImplementsDictionary`, every answer is that of a dictionary and a failed call
  changes nothing.
* `AVLTree`: `IsAVLTree`, order, parent links and stored balances that are the real
  differences of height; `ChangesOneKey`, a call adds or removes one node and loses none.
* `AVLTraversal`: `EveryNodeVisited` (preorder, each node once, all unless the user
  function fails), `Restored` (links, marks and flag after the last call),
  `SearchIsRight` (a search beside a Morris traversal), `DestroyComplete` (every node
  once, and none touched after it is freed), `CallsEnd`.
* `RadixTree`: `CountsMatchLinks`, the counts by which removal frees nodes are those
  of the links; `HandsOutAll`, a traversal gives out every key once, with its bytes;
  `NoNewBareLeaves`, only an insertion without memory leaves nodes that no key needs;
  `TraversalEnds`; `ImplementsDictionary`.
* `Lists`: `WellLinked`, every block is on one list and every list is linked as its
  operations expect; `MonitorExact`, the sums of the monitor are those of the blocks;
  `RemovesTheRightOne`, a removal by copying takes the element asked for and keeps
  the order of the rest, and a handle of `list` names its element until that is removed.
* `EventManager`: `RegistrationsExact`, a search finds a pair exactly if it is registered
  and the lists have none twice. `BlocksExact`, the memory is that of pairs and
  containers, whichever registration failed half way. `WalksAreSafe`, a list changes under
  a walk only after a nested announcement. `ToldAll`, an announcement that ends has told
  whoever its two walks owed the event, in order and once for each registration, and these
  are those registered when the announcement began, unless a nested one has let the lists
  change. `NoEmptyContainers`, an emptied list takes its container with it.
* `Objects`: `BuffersAccountedFor`, a buffer is free in its own pool or with one user who
  asked for no more; `BestFit`, an allocation fails only if no buffer is large enough and
  takes one of the smallest, whatever could not be had, except at the entry that is not in
  the table. `HandlesHold`, a handle gives its pointer or nothing, except to stores a full
  round of numbers apart. `BitsRight`, bits, counts and both searches are those of what
  was written. `TLVsRead`, what appends that follow one another have put into the buffer
  is all of it, until another call and an append after it, and is what a parse returns,
  except for the cases of section 4. `CountersExact`, the monitor is right unless two
  threads updated the same counter at once; that race itself it excepts and does not find.
  `ObjectsWellFormed`, objects keep their first parent, children are in one list at most,
  pointers are to objects that are there, all parents are resolved after a read.
  `BackupsHold`, two writes that end between any two of their calls, with any part of a
  file written, leave the file there was at first under one of its three names, as long as
  names can be changed.
* The runs of violations: `RegisteredOnce`, no list has a pair twice.  `AppendsContinue`,
  an append after `tlvm_reset_to_append` adds to the list that it went over.
  `WritesReturn`, no write ends the process.

An exception that a property names is a case in which the code does what one would not
want: the property is written so that this case and no other may go wrong.

Why the bounds are enough:

* *RWLock.*  A fault of exclusion needs two readers (one to lose another's
  count) and a writer; starvation needs a second reader to keep the count above
  zero and a second writer whose release clears the first one's announcement.
  `MaxShort` = 3 is the number of readers, so that the count never turns over: what
  happens beyond it is in section 4.
* *ChunkManager.*  Two chunks make a group that is partly free, three groups let
  trim keep some, free one in the middle, and turn the rest round.
* *IndexObject.*  From two slots the array grows twice, shrinks to its exact size
  with every threshold up to two, and is full at different sizes; four keys put
  insertion and removal at both ends and between, `a` and `a2` are equal to the
  comparison.
* *AVLTree.*  Twelve keys are enough for trees of height five, whose sparse ones
  (F(5) = 12 nodes) make one removal rotate at more than one level; with seven
  no removal does.
* *AVLTraversal.*  Four nodes have every combination of threads a Morris traversal
  can set, two of them at once included; larger trees have more of the same.
  The searched keys are those of the nodes and the gaps between.
* *RadixTree.*  The keys are two siblings of one byte, one that shares nothing with
  them, and one of two bytes below the first: every case of a shared, a partly
  shared and an unshared path.  The second datum of one key makes the insertion of
  a key that is present.  The alphabet of 16 is cut to two.
  The flag, which `radix_tree_init` does not write, is either value at first in
  `RadixTree`, and clear in `RadixTree_find`.
* *Lists.*  Five addresses are the two end nodes and three elements, or five
  elements of `list` alone, so that removal meets every pair of neighbours and a
  freed address comes back in every list.  `LifoMax` and `ListMax` are reached.

* *EventManager.*  Two registrants have an order; one type of its own and all types are
  the two lists an event has; a second announcement inside the first is what clears the
  flag.  `IntSpan` = 8, and the two arguments are 6 apart: their difference is cut, and
  their order is turned round.  Two pairs have an order still, whatever is cut, unless
  they compare equal; it takes the three of `Library_far`, at 0, 3 and 6, for a
  circle.
* *The others of Library.*  Three pools of sizes 1, 3 and 4 fall back into one another and leave sizes
  that are no pool's own; lists of pools that are refused are tried too.  Three numbers
  and eight stores go round the numbers twice and more, in tables of one to three slots
  (a table must be smaller than the numbers).  An int of two bits and ranges from
  below zero end in each position of an int.  Buffers of 13 and 14 bytes are the last
  that do not and the first that do hold a tlv with room to spare, 29 and 40 hold several.
  `UIntSpan` = 128: an append of 60 asks for more than the largest int and one of 120 for
  more than the largest unsigned int, and both are taken.  Two
  threads and four calls of the monitor overlap in every way.  Three objects under the
  root can be each other's parents and children before and after one another; the files
  have children first, parents of one another, repeated and cut records; two writes
  take every file to every name it gets.  `MCWalkOrders` are the orders in which the walk
  of an AVL tree of up to four objects, the root put in first, may hand them out: with
  the root of the objects first, second or third.

Counters that could grow without bound are not in the state (statistics), or are
bounded by the instance's addresses, keys and chunks; `MaxCalls` in AVLTraversal
bounds the calls of a thread, `MaxShrink` in IndexObject the shrink threshold,
`MaxDepth` in EventManager the announcements inside one another, `MaxStores` the stores
into one lookup table, `MaxCalls` in MemMonitor the calls, `MaxCreates` and `MaxWrites`
the objects made by a process and the files written.

Deadlock is checked except in AVLTraversal and Library, where a thread stops after
`MaxCalls` calls or a crash the program, and in RadixTree, where a crash does.

### Fairness

* *RWLock*: weak fairness of the steps between a compare and swap and `mtx = 0`
  (a running thread goes on) and of `Release` (holders give the lock back);
  strong fairness of `Enter`.  The byte has no queue: a process that spins finds
  it free again and again and nothing but chance lets it win.  Weaker fairness
  lets no process in at all.  No fairness is assumed of `Grab`.
* *AVLTraversal*, *RadixTree*: weak fairness of each thread's own next step; user
  functions return.  A thread need not begin a call.

## 4. What the runs found

1. **Exclusion is lost at -O3** (`RWLock_O3`).  `release_read_lock` stores
   `readers` twice and then `mtx = 0`.  Only `mtx` is volatile, and gcc at the
   Makefile's -O3 moves the second store behind it.  A reader that gets in between
   is overwritten in the count, and a writer joins it.
2. **Two Morris traversals at once hand nodes out wrongly** (`AVLTraversal_morris2`):
   both hold only the read lock while they thread and unthread right links.
3. **A radix search reads through a null pointer** (`RadixTree_find`) whenever the
   low nibble of a byte is not in the tree; the comment there says it cannot happen.
4. **A registrant is registered twice** (`Library_far`).  `compare_f_and_args` cuts
   differences of pointers down to an int, which is no order of three addresses that are
   far enough apart; "uniquely add it to the list" (event_manager.c:325) does not hold.
5. **An append after `tlvm_reset_to_append` overwrites the list** (`Library_append`).  The
   write index is 0 after every parse (tlv_manager.c:66, 128), and the comment at
   tlv_manager.c:52-54 has the user go on adding to the list.
6. **No write of an object manager returns** (`Library_write`).  It follows the parent of
   the root, which is NULL; what stdio has handed on until then is the file.

Observations met while modelling, which no run states as a property:

* lock_object.c: at -O3 a decrement can be lost as well as an increment, which shuts
  writers out.
* lock_object.h:77: the count of readers is a signed `short`, though lock_object.h:41
  speaks of MAXUSHORT.  After 32767 readers it is negative, and a writer takes that for
  none and joins them.  `RWLock` has the width (`Short`); with three readers and
  `MaxShort` = 1 its `MutualExclusion` is false.  The run and the theorems have no more
  readers than the count can hold.
* lock_object.c:79: a thread that holds a read lock and asks for it again, after a writer
  has announced itself, waits for ever: it for the writer and the writer for it.
  lock_object.h:42 calls read locks "recursive but discouraged".
* chunk_manager.c:345: destroy clears the structure while it holds its lock, and
  gives the lock up with it; a thread that waits goes on with an empty manager.
* index_object.c: a caller of `index_obj_replace` has the place from a search whose lock
  is gone.  `index_obj_reset` does not look at `should_not_be_modified`.  With
  an expansion size of 0, an index that has shrunk does not grow again.
* avl_tree_object.c: a traversal made by a traversal's user function clears the flag
  of the outer one; a search for an absent key made by the user function of a Morris
  traversal can go round along a thread for ever; two iterations at once share the
  marks of the nodes; `avl_tree_iterate` of an empty tree reads through NULL.
* radix_tree_object.c: a traversal that cannot allocate its key returns (l. 348) with
  `should_not_be_modified` set, and nothing clears it: every insertion and removal is
  refused from then on, every traversal does nothing.  `ImplementsDictionary` follows the
  flag and so does not find this: that the flag is set only while a traversal runs, as the
  comments at l. 188 and 240 have it, is false of the model.  `radix_tree_init` does not write `should_not_be_modified`, so that
  in memory that is not zero a tree is in that state from the start. The flag is tested before the lock is taken. An insertion that runs out of
  memory leaves nodes that no key needs. `radix_tree_destroy` does nothing.
* lifo.c:144: a removal copies the next node over the removed one and frees the next one,
  so the handle of the next element, which object_manager keeps for the life of an object
  (object_manager.h:181), is stale.  This is what lifo.h says of it, and no property
  is about such handles.
* lifo.c:166: the end node is allocated before the monitor is set up and is never
  counted; removal of the last element frees it and makes the element's counted
  block the end node.  list.c: `list_prepend_data` stores through `ret_node` without
  the test that `list_append_data` has; `list_destroy` clears the structure and then
  uses its `lock`.
* mem_monitor_object.c: the counters have no lock of their own (`CountersExact` names the
  race).  A reallocation that is asked to clear the block clears the old one, and counts
  through the monitor without asking whether there is one.
* event_manager.c: a nested announcement clears the flag of the outer one
  (`WalksAreSafe`).  An event of type 0 is told twice to the registrants of all types.
  Arguments whose difference is a multiple of 2^32 compare equal, and the second one
  cannot be registered.
  Destroying a manager with any container calls a handler with its two parameters
  swapped and reads through NULL.  Un-registration returns nothing, so that its EBUSY is
  not seen.  In a manager with a lock every call that a user function makes waits for
  ever for the lock of its own thread.
* buffer_manager.c: the table is one byte too short (l. 115, 125).  `initialize` unlocks
  (l. 236) a lock that it has not taken, and returns 0 whatever memory could not be had.
  `buffer_manager_destroy` clears from the address of the field `block` of a pool, which
  reaches into the next one.
* pointer_lookup.c:131: a handle is taken for another one after a round of 32000 stores.
* tlv_manager.c: a buffer that is exactly full is appended to and not parsed (`>=` at l.
  73); append takes values that are empty or too long for parse; parse looks at the start
  of a value and not at its end; the size an append needs is cut to an int (l. 169), so
  that lengths near 2^31 and 2^32 are taken and copied over whatever is there; attach
  loses the tlvs of an earlier parse; an append after a parse counts a tlv that the array
  has not.
* object_manager.c:944: a write looks at the result of no removal or change of a name; if
  that of the present file fails, the open empties the only whole one.  "does not
  matter if these fail" (l. 941) is so only if the process lives to close the new file:
  with `NamesCanFail`, which the run has not, `FirstFileIsLeft` is false.
* object_manager.c: the root's parent is a NULL that is followed: as `om_write`, so do
  `om_parent_get` of the root or of an object that is not there (l. 746 goes on) and the
  creation of an object with the root's id. A child that is made or read before its parent
  never gets into the parent's children, also when its parent is resolved. An object that
  is its own parent finds itself in the tree (l. 564 comes before l. 589) and is put into
  a children list that is not yet made.
* dynamic_array_object.c: growth at the negative end reserves bytes where it needs
  pointers, and frees the array that it has just installed.

## 5. What is proved

`tlapm` proves the following for every value of the constants.

**LockAndTreeProofs**, of the lock, assuming `Sound`: the readers are no more than the
count can hold (`Cardinality(Readers) <= MaxShort`; without it the conclusion is false).

* `LockExcludes`, `CountIsExact`, `TypeCorrect`: the run's invariants.
* `Refinement`: the lock implements `ReadersWriters`.

The inductive invariant `IInv` adds to them that processes are at labels of their
role; that the byte is a mutual exclusion lock for the code between `Enter` and
`Leave` (`ByteGuards`); that a count held in a register is the present one
(`CountExact`), which is what makes a load and a store as good as one step; and
what each flag says of the processes at each label (`FlagsExact`), above all that
nobody owns the lock once a writer has passed its test.  `MutualExclusion` alone
is not inductive: it says nothing of a writer between its test and its store.

**LockAndTreeProofs**, of the AVL tree, for any set of integer keys, finite or not.

* `AlwaysAVLTree`, `OneKeyChanges`: the run's invariant and action property.
* `TreeInvariant`: the inductive invariant `TreeInv`.

`TreeInv` says that tree and contents are `Shape` (links, order and parents, node by node,
with the set of nodes below each) and `Level` (a balance is the difference of the
heights), and that what is not in the tree is cleared.  `IsAVLTree` alone is not inductive:
a call also relies on no node being reached twice and on the new node's fields.
The argument follows a call.  A lookup stands where the key is or belongs, and knows the
deepest node on its path that has a balance (`At`, `Deepest`, `LookupIs`).  An insertion
makes each node between that one and the new one, all of which had balance 0, lean by
one and be one higher; the balances and heights of all others are right as they are
(`Leant`, `LeantBut`), and one rotation, if it is needed, gives back the old height
(`RebalanceRises`, `LeantTree`).  A removal by taking the successor
is the removal of the successor followed by the renaming of one node
(`Spliced`, `Replaced`, `UnlinksTwo`).  After it one side of one node is lower
than the balance there says (`Falling`); each turn of the walk mends that node and moves
the fault to its parent or ends it (`LowerKeeps`), so that after at most `n` turns nothing
falls (`LowerIs`).  Left and right are one proof: a side is 0 or 1.  The model has the
nodes below a node and heights as recursive functions; that they are what the proofs
name (`TreeIs`) is shown with the node of a set of counterexamples that has no child in
the set (`Lowest`), which takes the place of an induction over trees.

**IndexObjectProofs**, assuming only that keys are integers, that NULL is no datum
and that the sizes are what `index_obj_init` accepts.

* `AlwaysSorted`, `SearchCorrect`, `DestroyComplete`: the invariants.
* `Refinement`: the index implements `Dictionary`.

`IInv` adds `Control`: which calls can be in progress while a handler runs, and that
after every probe the insertion point is one of the two ends of the window.  That is
why the last probe alone gives the insertion point.  Sorting, the window of the
search and the elements owed by destroy need one another: insertion keeps the order
because the search was right, and the search is right because the array is sorted
and nothing moves it.  Lemmas say what copying inside the block leaves where
(`InsertedIs`, `RemovedIs`, `ResizedIs`), and what the set of elements becomes
(`ContentsInserted`, `ContentsRemoved`, `ContentsReplaced`).

**ChunkAndWalkProofs**, of the chunk manager, for any number of chunks in a group.

* `ChunksAreAccountedFor`, `MemoryIsExact`: the run's invariants.
* `TrimsAreComplete`: what trim frees and returns, as an action property.
* `Refinement`: the manager implements `ChunkPool`.

The two invariants are inductive together with "no group is twice on the list".  The
argument is in what trim makes of its two lists: filtering and turning round keep the
set of their elements and how often each is there (`CountInGroup`), so that a group
whose count says that it is free has all its chunks on the list, and they go with it.

**ChunkAndWalkProofs**, of the calls that walk the AVL tree, for any set of integer keys,
any well-formed trees and any number of threads and calls.

* `OneWalkVisitsAll`, `OneWalkRestores`, `SearchesBesideOneWalk`, `DestroyFreesAll`:
  the run's invariants.
* `WalkInvariant`: the inductive invariant `WalkInv`.

They assume `Alone(T)`: one thread T traverses and destroys, the others search, and user
functions search.  Two traversals at once share the right links, the marks and the flag,
and then the conclusions are false (`AVLTraversal_morris2`); T may make as many calls as
it likes, one after the other, and the run of section 3 has one such thread as well.

`WalkInv` says where T's call is. For a Morris traversal the tree is the original one but
for threads: the last node before b in the order has its right link, which was NULL, to b,
for each b in a set (`Threaded`). The set is the nodes below the start that have the
current node on their left (`Above`), with or without the current node itself: that is
what tells the second arrival at a node from the first (`MorrisFirst`, `MorrisSecond`).
For iterate, the marks are those of the path back to the start (`Marks`). For destroy, a
link that is cut had only freed nodes below it, or has the current one (`Cut`, `Uncut`),
and all below a freed node is freed. In each case what has been handed out, with what is
still behind that place (`Seen`, `ContinuationOf`), is the preorder of the start. Of every
search it says that the key is below the node where the search stands, if the tree has it
(`Sought`). This is why a thread does it no harm: threads are only where a link was NULL
(`LinksKept`), so that the way down to a key of the tree meets none, and a search that
does meet one looks for a key that it can nowhere find. The preorder and the nodes below a
node are recursive functions in the model; what they are is shown as for `AVLTree`, with
the node of a set that has no child in it (`Lowest`).

**RadixTreeProofs**, for any keys, bytes and data.

* `Refinement`: the tree implements `Dictionary`.
* `NothingIsLeft`: no insertion or removal leaves a node that no key needs.
* `CountsAreRight`, `EveryKeyIsHandedOut`: the run's invariants, under `OneTraverser`.
  Two traversals hold the same read lock and share `current` of every node and the
  flag, and then neither is true; the run has one traversing thread as well.

`TreeInv` says that the nodes are closed under taking a prefix, that each count is the
number of children, and that a node without children and data is there only after a
failed insertion.  Removal frees the nodes of a path as long as counts reach zero, so
that the counts must be right before it to be right after it.  `WalkInv(t)` describes a
traversal in the middle: the nodes on the way to `node` have been entered once and
not left, those before them in the order of the nibbles have been left, and what has
been handed out is what is behind (`OnTheWay`).

**ListsProofs**, for any addresses and data and any `n_max`.

* `ListsAreLinked`, `MonitorIsExact`: the run's invariants.
* `RemovalsAreRight`: `RemovesTheRightOne` as an action property.

The invariant is `Linked(L, D, O)`: there are sequences of addresses for the three lists
such that each follows the links, without repetition, and between them they are the
addresses in use.  `ChainIs` shows that following the links finds this sequence, so that
a proof about an operation names the new sequence and not the links.  A removal that
copies the neighbour (`EndedCopies`) takes the *next* address out of the sequence and
its own datum out of the data: `RemoveAt(s, k + 1)` of the addresses and
`RemoveAt(data, k)` of the data.  The monitor needs that an uncounted block is the
last of the lifo, because that is the block a removal may free without counting it.

**EventManagerProofs**, for any finite set of types, registrants and depth.

* `WalksStaySafe`, `AllAreTold`, `ContainersAreNeeded`: as in the run.
* `BlocksAreExact`, for registrants at any addresses.
* `RegistrationsAreExact`, under `ComparisonOrders`: the comparison is an order of the
  registrants. Without it the conclusion is false (`Library_far`). The addresses of a
  process need not satisfy it; `CloseOnesAreOrdered` shows that it does if any two
  functions, and any two arguments, are less than half the span of an int apart.

`WalkInv` ties the flag to the frames: as long as it is set and nothing is disturbed, the
list of every frame is the list it began with, whom it has told is a prefix of it, and
the rest is still owed.  `ListsRight` says that the lists are in order and that containers
and blocks are those the lists need or a failure has left.

**ObjectsProofs**, each for all values of the constants of its object.

* `HandlesAreHeld` (pointer lookup): `LookupInv` says what a slot may hold, and that the
  numbers of the stores between two handles of one slot are apart.
* `CountersAreExact` (monitor): `MonitorInv` has what each call still owes to each
  counter, and that a loaded value is the present one unless the counter was raced for.
* `BitsAreRight` (bit list): `BitInv`, for any range and any width of an int.
* `BuffersAreAccountedFor`, `FitsAreBest` (buffer manager): `BufferInv`, where the table
  gives for each size the first pool that is large enough, except at the entry that
  the table is too short for.
* `TLVsAreRead` (tlv manager): `TLVInv`, that the buffer is what the appends since the last
  other call have put there, that the write index is its end and that what is left of the
  buffer has room for the end type (`FittingIsNeeded` is what the cut to an int leaves
  of that: an append that goes over the buffer is another action).  That an append goes
  on with the list of a `tlvm_reset_to_append` is no theorem, because it is false
  (`Library_append`).
* `BackupsAreHeld` (object manager): `BackupInv` says under which name the first file is
  after each call of the first two writes, wherever they or their processes end and
  whatever part of a new file they leave.
* `ObjectsAreWellFormed` (object manager): `ManagerInv`, that a manager in use satisfies
  `ObjectsOK`, which says the same of the objects in memory and of those of a file that
  is half read: what a pass over the records of any file has got to satisfies it too
  (`LoadOK`, an induction over the records), and the second pass keeps it and leaves no
  pointer out (`ResolveKeeps`).  The one assumption is that files have records.

**DataFacts** has what several of them need: division and remainder, the least element
of a set of numbers, `InsertAt`, `RemoveAt`, sums over a finite set, and binary trees given
by the nodes below each node (`Forest`), in which a set of nodes that is not empty has one
without a child in it (`ForestLowest`): `Lowest` of the two AVL proofs.  The induction
theorems of the library take an operator as a parameter, which the provers cannot
instantiate; the lemmas that need an induction (`NatSetInduction`, the sums, the prefixes
of a path, the steps of a loop) take the least counterexample of a set instead.

The constants have the assumptions which the modules name, and no others: the data and
NULL are different, sizes are numbers, files are sequences of records, types, monitor
threads and the pools of a manager are finitely many, the ranges of bit lists are ranges.

Only model-checked:

* all liveness (`WriterGetsIn`, `CallsEnd`, `TraversalEnds`): every other property of a
  passing run is the property of a theorem.

## 6. What is left out, and why

* `RWLock`: the holdoff loop (timing only), `lock_obj_destroy` of a lock in use,
  ENABLE_LOCKING and DISABLE_LOCKING of an object in use, which make its lock anew.
* Containers take each locked engine as one step.  `LockExcludes` justifies it for a
  build in which exclusion holds; `AVLTraversal`, `RadixTree` and `ChunkManager` model
  in smaller steps the code that runs under the read lock or without the lock.
* Statistics, debug messages, and the sizes and alignment of chunks.
* `AVLTree`: overwriting the data of a key that is present, failures of malloc, and the
  refusal of a call during a traversal (EBUSY, avl_tree_object.c:214, 338), which takes
  the tree's flag, a field of `AVLTraversal`; none of them changes a link.
* `RadixTree`: empty keys and NULL data.  `OrderedList`:
  `thread_unsafe_ordered_list_add_to_head`, which no header declares, and handlers
  that call the list.
* `Lists`: the use of a stale lifo handle, whose effect is undefined.
* `EventManager`: a manager with a lock, in which a call from a user function blocks
  (section 4) and calls of other threads wait; CONSECUTIVE_OBJECT_TYPES_USED, which the
  build does not define.  What the file calls has had other parameters since: the calls
  are modelled by what they did.
* `BufferManager`: rounding sizes up to 8, and the header of a buffer.  One value stands
  for whatever the table has in the entries that were not written; no property depends
  on which it is.
* `Bitlist`: `get_bit_group` and `set_bit_group`, which work on one 64-bit word and not on
  a list, and of which the code says that they are to be fixed.
* `PointerLookup`: handles that were never given out or belong to a table that was
  destroyed.  `MAX_ADDRESS_NUMBER` is 32000 in the code; only that it wraps matters.
* `TLV`: the bytes of values and their order in a word; a buffer that is not well formed.
* `MemMonitor`: what the blocks hold.
* `ObjectManager`: removal, traversal and destruction of objects (`#if 0`), attribute
  values in files, whose readers call functions that are gone, failures of fopen other
  than an empty write.  The runs
  have the walks of trees of up to four objects, the theorems any order.
* `dynamic_array_object`: its growth at the negative end is wrong from its first use
  (section 4), where any test finds it; without it there is an array with a window.
* Components with status `not_modelled` in PROJECT.json: `dynamic_array_object`, those
  that are not built and have a modelled successor (`dl_list`, `sl_list`), and those
  without state worth a model (formatting, timing, tracing, wrappers of file calls).

## 7. Plan

Done, in this order: the lock and its proofs (everything else relies on it), the
chunk manager, the index and its proofs, the AVL tree, its traversals, the radix tree,
the lists with the memory monitor, the event manager, and the six of `Objects`.

Next, the model:

1. A container whose steps run inside the lock's, to check rather than argue that a
   locked engine is one step.
2. `EventManager` with a lock and announcements of several threads.

Proved, in this order: the lock, the index, the chunk manager, the event manager, the
objects that stand alone, the radix tree, the lists, the AVL tree, the calls that walk it.

What the runs check and no theorem states is liveness, which the prover cannot do.  The
proofs of a container inside the lock (1) would rest on `Refinement` of the lock.
