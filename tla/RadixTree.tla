----------------------------- MODULE RadixTree -----------------------------
(***************************************************************************)
(* radix_tree_object.c: a trie with two nodes for each byte of a key, the  *)
(* low nibble's and under it the high nibble's.  A node is named by the    *)
(* sequence of nibbles that leads to it, <<>> being the root, so that its  *)
(* parent is the node without the last nibble and children[nibble] is      *)
(* there if the longer sequence is in nodes.                               *)
(*                                                                         *)
(* Insertion and removal run under the write lock and search under the     *)
(* read lock, each as one step; a search does not touch what a traversal   *)
(* changes.  The traversal is a step for each turn of its loop.            *)
(***************************************************************************)
EXTENDS Integers, Sequences, FiniteSets

CONSTANTS
    Alphabet,       \* NTRIE_ALPHABET_SIZE
    Data,           \* user data
    Key,            \* the key of each, a sequence of nibbles
    Threads,        \* those that traverse
    MallocMayFail,
    FlagsAtInit,    \* what may be in the flag, which radix_tree_init leaves
    NULL

Nibbles == 0..Alphabet - 1

ASSUME KeyAssumption ==
    /\ Alphabet \in Nat \ {0}
    /\ \A d \in Data : Key[d] \in Seq(Nibbles) /\ Len(Key[d]) > 0 /\ Len(Key[d]) % 2 = 0
    /\ NULL \notin Data /\ MallocMayFail \in BOOLEAN
    /\ FlagsAtInit \subseteq BOOLEAN

Prefix(p, n) == SubSeq(p, 1, n)
PrefixesOf(k) == {Prefix(k, n) : n \in 1..Len(k)}
Parent(p) == Prefix(p, Len(p) - 1)

Paths == UNION {PrefixesOf(Key[d]) : d \in Data}
Root == <<>>

VARIABLES
    nodes,                      \* the nodes but the root
    user_data, n_children, current,
    node_count,
    should_not_be_modified,
    pc, at, key, failed, handed,    \* the traversal of each thread
    crashed,                    \* a null pointer was read through
    answer                      \* of the last call

treeVars == <<nodes, user_data, n_children, node_count>>
travVars == <<pc, at, key, failed, handed>>
vars == <<treeVars, current, should_not_be_modified, travVars, crashed, answer>>

NoAnswer == [op |-> "none", data |-> NULL, rc |-> "ok", found |-> NULL]
Says(op, d, rc, found) == answer' = [op |-> op, data |-> d, rc |-> rc, found |-> found]

Init ==
    /\ nodes = {}
    /\ user_data = [p \in Paths \cup {Root} |-> NULL]
    /\ n_children = [p \in Paths \cup {Root} |-> 0]
    /\ current = [p \in Paths \cup {Root} |-> 0]
    /\ node_count = 0
    /\ should_not_be_modified \in FlagsAtInit
    /\ pc = [t \in Threads |-> "idle"]
    /\ at = [t \in Threads |-> Root]
    /\ key = [t \in Threads |-> <<>>]
    /\ failed = [t \in Threads |-> FALSE]
    /\ handed = [t \in Threads |-> <<>>]
    /\ crashed = FALSE
    /\ answer = NoAnswer

-----------------------------------------------------------------------------
\* The write lock waits for the traversals that have the read lock.  In a
\* tree without a lock a call can also come from the user function.
Writing == ~crashed /\ \A t \in Threads : pc[t] # "loop"
Reading == ~crashed

Refuse(op, d) ==
    /\ Writing /\ should_not_be_modified
    /\ Says(op, d, "EBUSY", NULL)
    /\ UNCHANGED <<treeVars, current, should_not_be_modified, travVars, crashed>>

\* Mutant: counts the nodes of the path that were there again.
AddCounts(path) ==
    /\ nodes' = nodes \cup path
    /\ n_children' = [p \in DOMAIN n_children |->
                        n_children[p] + Cardinality({q \in path : Parent(q) = p})]
    /\ node_count' = node_count + Cardinality(path \ nodes)

\* radix_tree_add_nibble for each of the path.
Add(path) ==
    LET new == path \ nodes
    IN
    /\ nodes' = nodes \cup new
    /\ n_children' = [p \in DOMAIN n_children |->
                        n_children[p] + Cardinality({q \in new : Parent(q) = p})]
    /\ node_count' = node_count + Cardinality(new)

\* Mutant: overwrites but returns what was there.
InsertOverwrites(d) ==
    /\ Writing /\ ~should_not_be_modified
    /\ Add(PrefixesOf(Key[d]))
    /\ user_data' = [user_data EXCEPT ![Key[d]] = d]
    /\ Says("insert", d, "ok", NULL)
    /\ UNCHANGED <<current, should_not_be_modified, travVars, crashed>>

Insert(d) ==
    /\ Writing /\ ~should_not_be_modified
    /\ Add(PrefixesOf(Key[d]))
    /\ user_data' = [user_data EXCEPT ![Key[d]] = IF @ = NULL THEN d ELSE @]
    /\ Says("insert", d, "ok", user_data[Key[d]])
    /\ UNCHANGED <<current, should_not_be_modified, travVars, crashed>>

\* The first nodes are made and stay, and then one cannot be made.
InsertFails(d) ==
    /\ MallocMayFail
    /\ Writing /\ ~should_not_be_modified
    /\ \E n \in 0..Len(Key[d]) - 1 :
          /\ Prefix(Key[d], n + 1) \notin nodes
          /\ Add(PrefixesOf(Prefix(Key[d], n)))
    /\ Says("insert", d, "ENOMEM", NULL)
    /\ UNCHANGED <<user_data, current, should_not_be_modified, travVars, crashed>>

\* radix_tree_node_find: the low nibble of a byte is followed without a look
\* at what is there.
FindCrashes(k) ==
    \E n \in 1..Len(k) : /\ n % 2 = 1 /\ Prefix(k, n) \notin nodes
                         /\ \A m \in 1..n - 1 : Prefix(k, m) \in nodes

Found(k) == PrefixesOf(k) \subseteq nodes /\ user_data[k] # NULL

Crash(op, d) ==
    /\ IF op = "search" THEN Reading ELSE Writing /\ ~should_not_be_modified
    /\ FindCrashes(Key[d])
    /\ crashed' = TRUE
    /\ UNCHANGED <<treeVars, current, should_not_be_modified, travVars, answer>>

Search(d) ==
    /\ Reading /\ ~FindCrashes(Key[d])
    /\ IF Found(Key[d]) THEN Says("search", d, "ok", user_data[Key[d]])
       ELSE Says("search", d, "ENODATA", NULL)
    /\ UNCHANGED <<treeVars, current, should_not_be_modified, travVars, crashed>>

RemoveFails(d) ==
    /\ Writing /\ ~should_not_be_modified
    /\ ~FindCrashes(Key[d]) /\ ~Found(Key[d])
    /\ Says("remove", d, "ENODATA", NULL)
    /\ UNCHANGED <<treeVars, current, should_not_be_modified, travVars, crashed>>

\* Mutant: does not go up.
CutOnlyKey(k) == {p \in {k} : n_children[p] = 0}

\* radix_tree_remove_node: from k up, the nodes without data and, but for the
\* one just cut, without children.
Cut(k) ==
    LET unused(q) == IF q = k THEN n_children[q] = 0
                     ELSE user_data[q] = NULL /\ n_children[q] = 1
    IN {p \in PrefixesOf(k) : \A q \in PrefixesOf(k) : Len(q) >= Len(p) => unused(q)}

Remove(d) ==
    LET cut == Cut(Key[d])
    IN
    /\ Writing /\ ~should_not_be_modified
    /\ ~FindCrashes(Key[d]) /\ Found(Key[d])
    /\ user_data' = [user_data EXCEPT ![Key[d]] = NULL]
    /\ nodes' = nodes \ cut
    /\ n_children' = [p \in DOMAIN n_children |->
                        n_children[p] - Cardinality({q \in cut : Parent(q) = p})]
    /\ node_count' = node_count - Cardinality(cut)
    /\ Says("remove", d, "ok", user_data[Key[d]])
    /\ UNCHANGED <<current, should_not_be_modified, travVars, crashed>>

-----------------------------------------------------------------------------
(***************************************************************************)
(* radix_tree_traverse.  A byte of the key under construction is its low   *)
(* nibble and the high nibbles, other than 0, that were or-ed into it.     *)
(***************************************************************************)
\* The test of the flag, before the lock; if it is set, the call returns.
TraverseTest(t) ==
    /\ ~crashed /\ pc[t] = "idle" /\ ~should_not_be_modified
    /\ pc' = [pc EXCEPT ![t] = "tested"]
    /\ UNCHANGED <<treeVars, current, should_not_be_modified, at, key, failed, handed, crashed, answer>>

TraverseSet(t) ==
    /\ ~crashed /\ pc[t] = "tested"
    /\ should_not_be_modified' = TRUE
    /\ pc' = [pc EXCEPT ![t] = "set"]
    /\ UNCHANGED <<treeVars, current, at, key, failed, handed, crashed, answer>>

\* "if (NULL == key) return"
TraverseNoMemory(t) ==
    /\ MallocMayFail
    /\ ~crashed /\ pc[t] = "set"
    /\ pc' = [pc EXCEPT ![t] = "idle"]
    /\ UNCHANGED <<treeVars, current, should_not_be_modified, at, key, failed, handed, crashed, answer>>

TraverseBegin(t) ==
    /\ ~crashed /\ pc[t] = "set"
    /\ pc' = [pc EXCEPT ![t] = "loop"]
    /\ at' = [at EXCEPT ![t] = Root]
    /\ current' = [current EXCEPT ![Root] = 0]
    /\ UNCHANGED <<treeVars, should_not_be_modified, key, failed, handed, crashed, answer>>

\* Mutant: the low nibble is or-ed in too, over the byte of the last branch.
WithNibbleNoReset(bytes, p) ==
    LET i == (Len(p) + 1) \div 2
        v == p[Len(p)]
        old == IF i \in DOMAIN bytes THEN bytes[i] ELSE [lo |-> 0, hi |-> {}]
    IN CASE Len(p) = 0 -> bytes
         [] Len(p) % 2 = 1 -> SubSeq(bytes, 1, i - 1) \o <<[old EXCEPT !.lo = v]>>
         [] OTHER -> [bytes EXCEPT ![i].hi = @ \cup ({v} \ {0})]

\* The byte of the node at p in the key: the low nibble is stored, the high
\* one is or-ed in.  Bytes after it are not read and are dropped.
WithNibble(bytes, p) ==
    LET i == (Len(p) + 1) \div 2
        v == p[Len(p)]
    IN CASE Len(p) = 0 -> bytes
         [] Len(p) % 2 = 1 -> SubSeq(bytes, 1, i - 1) \o <<[lo |-> v, hi |-> {}]>>
         [] OTHER -> [bytes EXCEPT ![i].hi = @ \cup ({v} \ {0})]

\* Mutant: the counter goes on only where there is no child.
TraverseDownStays(t) ==
    LET p == at[t]
        child == Append(p, current[p])
    IN
    /\ ~crashed /\ pc[t] = "loop" /\ current[p] < Alphabet
    /\ key' = [key EXCEPT ![t] = WithNibble(@, p)]
    /\ at' = [at EXCEPT ![t] = IF child \in nodes THEN child ELSE p]
    /\ current' = [current EXCEPT ![p] = IF child \in nodes THEN @ ELSE @ + 1]
    /\ UNCHANGED <<treeVars, should_not_be_modified, pc, failed, handed, crashed, answer>>

TraverseDown(t) ==
    LET p == at[t]
        child == Append(p, current[p])
    IN
    /\ ~crashed /\ pc[t] = "loop" /\ current[p] < Alphabet
    /\ key' = [key EXCEPT ![t] = WithNibble(@, p)]
    /\ at' = [at EXCEPT ![t] = IF child \in nodes THEN child ELSE p]
    /\ current' = [current EXCEPT ![p] = @ + 1]
    /\ UNCHANGED <<treeVars, should_not_be_modified, pc, failed, handed, crashed, answer>>

\* The user function gets the data of the node and the first Len(p) \div 2
\* bytes of the key.
TraverseCall(t) ==
    LET p == at[t]
    IN
    /\ ~crashed /\ pc[t] = "loop" /\ current[p] >= Alphabet
    /\ user_data[p] # NULL /\ ~failed[t]
    /\ pc' = [pc EXCEPT ![t] = "called"]
    /\ handed' = [handed EXCEPT ![t] = Append(@, p)]
    /\ UNCHANGED <<treeVars, current, should_not_be_modified, at, key, failed, crashed, answer>>

\* "node->current = 0; node = node->parent"; the read lock goes after the root.
Up(t) ==
    LET p == at[t]
    IN
    /\ current' = [current EXCEPT ![p] = 0]
    /\ at' = [at EXCEPT ![t] = IF p = Root THEN p ELSE Parent(p)]
    /\ pc' = [pc EXCEPT ![t] = IF p = Root THEN "clear" ELSE "loop"]

TraverseUp(t) ==
    /\ ~crashed /\ pc[t] = "loop" /\ current[at[t]] >= Alphabet
    /\ user_data[at[t]] = NULL \/ failed[t]
    /\ Up(t)
    /\ UNCHANGED <<treeVars, should_not_be_modified, key, failed, handed, crashed, answer>>

TraverseReturned(t) ==
    /\ ~crashed /\ pc[t] = "called"
    /\ \E f \in BOOLEAN : failed' = [failed EXCEPT ![t] = f]
    /\ Up(t)
    /\ UNCHANGED <<treeVars, should_not_be_modified, key, handed, crashed, answer>>

TraverseClear(t) ==
    /\ ~crashed /\ pc[t] = "clear"
    /\ should_not_be_modified' = FALSE
    /\ pc' = [pc EXCEPT ![t] = "idle"]
    /\ key' = [key EXCEPT ![t] = <<>>]
    /\ failed' = [failed EXCEPT ![t] = FALSE]
    /\ handed' = [handed EXCEPT ![t] = <<>>]
    /\ UNCHANGED <<treeVars, current, at, crashed, answer>>

Traverse(t) ==
    \/ TraverseTest(t) \/ TraverseSet(t) \/ TraverseNoMemory(t)
    \/ TraverseBegin(t) \/ TraverseDown(t) \/ TraverseCall(t) \/ TraverseUp(t)
    \/ TraverseReturned(t) \/ TraverseClear(t)

Operate(d) ==
    \/ Insert(d) \/ InsertFails(d) \/ Search(d) \/ Remove(d) \/ RemoveFails(d)
    \/ \E op \in {"insert", "remove"} : Refuse(op, d)
    \/ \E op \in {"search", "remove"} : Crash(op, d)

Next == (\E d \in Data : Operate(d)) \/ (\E t \in Threads : Traverse(t))

Spec == Init /\ [][Next]_vars

\* A thread that traverses goes on, and user functions return.
FairSpec == Spec /\ \A t \in Threads : WF_vars(Traverse(t) /\ pc[t] # "idle")

-----------------------------------------------------------------------------
(***************************************************************************)
(* Properties.                                                             *)
(***************************************************************************)
\* The variables keep their types.
TypeOK ==
    /\ nodes \subseteq Paths
    /\ user_data \in [Paths \cup {Root} -> Data \cup {NULL}] /\ user_data[Root] = NULL
    /\ \A p \in Paths \cup {Root} : n_children[p] \in 0..Alphabet /\ current[p] \in 0..Alphabet
    /\ node_count \in Nat
    /\ should_not_be_modified \in BOOLEAN /\ crashed \in BOOLEAN
    /\ pc \in [Threads -> {"idle", "tested", "set", "loop", "called", "clear"}]
    /\ \A t \in Threads : at[t] \in nodes \cup {Root} \/ pc[t] \notin {"loop", "called"}
    /\ failed \in [Threads -> BOOLEAN]

\* The stored counts, by which removal decides what to free, are those of the
\* links, no node is cut off from the root, and data are only at whole bytes.
CountsMatchLinks ==
    /\ TypeOK
    /\ \A p \in nodes \cup {Root} : n_children[p] = Cardinality({q \in nodes : Parent(q) = p})
    /\ \A p \in Paths \ nodes : n_children[p] = 0 /\ user_data[p] = NULL
    /\ \A p \in nodes : Len(p) > 1 => Parent(p) \in nodes
    /\ \A p \in nodes : user_data[p] # NULL => Len(p) % 2 = 0
    /\ node_count = Cardinality(nodes)

\* A traversal gives every key that has data to the user function, once, with
\* the key's own bytes, though it stores them on the way.
HandsOutAll ==
    \A t \in Threads :
        /\ pc[t] = "called" =>
              /\ Len(handed[t]) = Cardinality({handed[t][i] : i \in DOMAIN handed[t]})
              /\ \A i \in 1..(Len(at[t]) \div 2) :
                    key[t][i] = [lo |-> at[t][2 * i - 1], hi |-> {at[t][2 * i]} \ {0}]
        /\ pc[t] = "clear" /\ ~failed[t] =>
              {handed[t][i] : i \in DOMAIN handed[t]} = {p \in nodes : user_data[p] # NULL}

\* An insertion or removal leaves no leaf without data behind, and so nothing
\* that no key needs; only an insertion that runs out of memory does.
BareLeaves == {p \in nodes : user_data[p] = NULL /\ \A q \in nodes : Parent(q) # p}
NoNewBareLeaves ==
    [][(\E d \in Data : Insert(d) \/ Remove(d)) => BareLeaves' \subseteq BareLeaves]_vars

\* A traversal that has begun ends, its counters leading it back to the root
\* (if a search in another thread does not end the program).
TraversalEnds == \A t \in Threads : pc[t] # "idle" ~> pc[t] = "idle" \/ crashed

\* Every call is answered as a dictionary would.
Dict == INSTANCE Dictionary WITH
            store <- {user_data[p] : p \in nodes} \ {NULL},
            frozen <- should_not_be_modified,
            FrozenAtInit <- FlagsAtInit
ImplementsDictionary == Dict!Spec

\* find never follows a link that is not there: "This wont happen since depth
\* is always an even number" (radix_tree_object.c:123-127).
NoNullDereference == ~crashed
=============================================================================
