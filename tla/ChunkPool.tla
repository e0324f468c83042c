----------------------------- MODULE ChunkPool -----------------------------
(***************************************************************************)
(* What chunk_manager.h promises: chunks come in groups that exist as a    *)
(* whole, a chunk is given to one user at a time and stays where it is     *)
(* until that user gives it back, and trimming returns the groups of which *)
(* nobody has a chunk, all of them and no others.                          *)
(***************************************************************************)
EXTENDS Naturals

CONSTANTS
    Groups,             \* the places a group of chunks can be in memory
    ChunksPerGroup

VARIABLES
    live,       \* the groups that exist
    users       \* the chunks that users have

vars == <<live, users>>

ChunksOf(G) == G \X (1..ChunksPerGroup)

TypeOK ==
    /\ live \in SUBSET Groups
    /\ users \in SUBSET ChunksOf(Groups)

Init == live = {} /\ users = {}

Alloc(c) ==
    /\ c \in ChunksOf(live) \ users
    /\ users' = users \cup {c}
    /\ UNCHANGED live

\* Only a pool without a free chunk grows, and the new group serves the call.
Grow(g, c) ==
    /\ users = ChunksOf(live)
    /\ g \notin live
    /\ c \in ChunksOf({g})
    /\ live' = live \cup {g}
    /\ users' = users \cup {c}

Free(c) ==
    /\ c \in users
    /\ users' = users \ {c}
    /\ UNCHANGED live

Unused == {g \in live : ChunksOf({g}) \cap users = {}}

Trim ==
    /\ live' = live \ Unused
    /\ UNCHANGED users

Destroy ==
    /\ live' = {}
    /\ users' = {}

Next ==
    \/ Trim
    \/ Destroy
    \/ \E c \in ChunksOf(Groups) : Alloc(c) \/ Free(c)
    \/ \E g \in Groups, c \in ChunksOf(Groups) : Grow(g, c)

Spec == Init /\ [][Next]_vars
=============================================================================
