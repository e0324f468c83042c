----------------------------- MODULE Dictionary -----------------------------
(***************************************************************************)
(* What the library's containers with keys promise (index_object.h and the *)
(* engines behind it): at most one element per key, each call answered     *)
(* from the elements of that moment, a refused or failed call without      *)
(* effect, and no change of the elements while they are being handed out.  *)
(***************************************************************************)
CONSTANTS
    Data,       \* what users put in
    Key,        \* the key of each data
    FrozenAtInit, \* what frozen may be at first: FALSE, unless init leaves it open
    NULL

VARIABLES
    store,      \* the elements
    frozen,     \* the elements are being handed out
    answer      \* of the last call: what was asked, errno or "ok", and data

vars == <<store, frozen, answer>>

NoAnswer == [op |-> "none", data |-> NULL, rc |-> "ok", found |-> NULL]
Says(op, d, rc, found) == answer' = [op |-> op, data |-> d, rc |-> rc, found |-> found]

TypeOK ==
    /\ store \in SUBSET Data
    /\ frozen \in BOOLEAN
    /\ answer \in [op : {"none", "insert", "search", "remove"}, data : Data \cup {NULL},
                   rc : {"ok", "ENODATA", "EBUSY", "ENOSPC", "ENOMEM"},
                   found : Data \cup {NULL}]

Init ==
    /\ store = {}
    /\ frozen \in FrozenAtInit
    /\ answer = NoAnswer

-----------------------------------------------------------------------------
Has(d, e) == e \in store /\ Key[e] = Key[d]
Missing(d) == \A e \in store : Key[e] # Key[d]

Insert(d) ==
    /\ ~frozen
    /\ Missing(d)
    /\ store' = store \cup {d}
    /\ Says("insert", d, "ok", NULL)
    /\ UNCHANGED frozen

\* The element that is there is returned, and overwritten or not.
InsertOver(d, e) ==
    /\ ~frozen
    /\ Has(d, e)
    /\ store' \in {store, (store \ {e}) \cup {d}}
    /\ Says("insert", d, "ok", e)
    /\ UNCHANGED frozen

InsertFails(d, rc) ==
    /\ ~frozen
    /\ Missing(d)
    /\ Says("insert", d, rc, NULL)
    /\ UNCHANGED <<store, frozen>>

Search(d, e) ==
    /\ Has(d, e)
    /\ Says("search", d, "ok", e)
    /\ UNCHANGED <<store, frozen>>

SearchFails(d) ==
    /\ Missing(d)
    /\ Says("search", d, "ENODATA", NULL)
    /\ UNCHANGED <<store, frozen>>

Remove(d, e) ==
    /\ ~frozen
    /\ Has(d, e)
    /\ store' = store \ {e}
    /\ Says("remove", d, "ok", e)
    /\ UNCHANGED frozen

RemoveFails(d) ==
    /\ ~frozen
    /\ Missing(d)
    /\ Says("remove", d, "ENODATA", NULL)
    /\ UNCHANGED <<store, frozen>>

\* A change asked for while the elements are handed out.
Refuse(op, d) ==
    /\ frozen
    /\ op \in {"insert", "remove"}
    /\ Says(op, d, "EBUSY", NULL)
    /\ UNCHANGED <<store, frozen>>

\* An element gives its place to another one that no element equals.
Replace(e, d) ==
    /\ ~frozen
    /\ e \in store
    /\ \A x \in store \ {e} : Key[x] # Key[d]
    /\ store' = (store \ {e}) \cup {d}
    /\ UNCHANGED <<frozen, answer>>

Clear ==
    /\ ~frozen
    /\ store' = {}
    /\ UNCHANGED <<frozen, answer>>

Freeze ==
    /\ ~frozen
    /\ frozen' = TRUE
    /\ UNCHANGED <<store, answer>>

\* The elements were handed out and stay.
Thaw ==
    /\ frozen
    /\ frozen' = FALSE
    /\ UNCHANGED <<store, answer>>

\* All elements were handed out and the container is empty.
Close ==
    /\ frozen
    /\ store' = {}
    /\ frozen' = FALSE
    /\ UNCHANGED answer

Next ==
    \/ \E d \in Data :
         \/ Insert(d) \/ SearchFails(d) \/ RemoveFails(d)
         \/ \E rc \in {"ENOSPC", "ENOMEM"} : InsertFails(d, rc)
         \/ \E op \in {"insert", "remove"} : Refuse(op, d)
         \/ \E e \in Data : InsertOver(d, e) \/ Search(d, e) \/ Remove(d, e) \/ Replace(e, d)
    \/ Clear
    \/ Freeze
    \/ Thaw
    \/ Close

Spec == Init /\ [][Next]_vars
=============================================================================
