---------------------------- MODULE ChunkManager ----------------------------
(***************************************************************************)
(* chunk_manager.c: groups of equal chunks with one free list over all of  *)
(* them.  Every public operation runs under the manager's write lock and   *)
(* is one step; only chunk_free looks at the chunk before it has the lock. *)
(* A chunk is a group and a place in it.                                   *)
(***************************************************************************)
EXTENDS Integers, SequencesExt

CONSTANTS
    Groups,             \* the places malloc can put a group (a bound)
    ChunksPerGroup      \* chunks_per_group

ASSUME ChunksPerGroupAssumption == ChunksPerGroup \in Nat \ {0}

VARIABLES
    alive,              \* initialised and not destroyed
    free_chunks_list,   \* head first
    groups,             \* head first
    n_grp_free,         \* the free count kept in each group's header
    heap,               \* the blocks the manager has from malloc
    users,              \* the chunks that users have
    freeing,            \* chunks whose chunk_free waits for the lock
    trimmed             \* what the last chunk_manager_trim returned

manager == <<alive, free_chunks_list, groups, n_grp_free, heap>>
chunkVars == <<alive, free_chunks_list, groups, n_grp_free, heap, users, freeing, trimmed>>

Chunks == Groups \X (1..ChunksPerGroup)
GroupOf(c) == c[1]

\* The two blocks of a group: its header and its chunks.
GroupBlocks(g) == {<<g, "header">>, <<g, "chunks">>}

ChunkInit ==
    /\ alive = TRUE
    /\ free_chunks_list = <<>>
    /\ groups = <<>>
    /\ n_grp_free = [g \in Groups |-> 0]
    /\ heap = {}
    /\ users = {}
    /\ freeing = {}
    /\ trimmed = 0

-----------------------------------------------------------------------------
\* The chunks of a new group go on the list from first to last, each at the
\* head: the last one ends up in front.
NewChunks(g) == [i \in 1..ChunksPerGroup |-> <<g, ChunksPerGroup + 1 - i>>]

\* chunk_alloc with a chunk on the list.
Alloc ==
    /\ alive
    /\ free_chunks_list # <<>>
    /\ LET c == Head(free_chunks_list) IN
         /\ n_grp_free' = [n_grp_free EXCEPT ![GroupOf(c)] = @ - 1]
         /\ users' = users \cup {c}
    /\ free_chunks_list' = Tail(free_chunks_list)
    /\ UNCHANGED <<alive, groups, heap, freeing, trimmed>>

\* chunk_alloc with an empty list: add a group, then take its front chunk.
AllocGrow(g) ==
    /\ alive
    /\ free_chunks_list = <<>>
    /\ GroupBlocks(g) \cap heap = {}
    /\ heap' = heap \cup GroupBlocks(g)
    /\ groups' = <<g>> \o groups
    /\ n_grp_free' = [n_grp_free EXCEPT ![g] = ChunksPerGroup - 1]
    /\ free_chunks_list' = Tail(NewChunks(g))
    /\ users' = users \cup {Head(NewChunks(g))}
    /\ UNCHANGED <<alive, freeing, trimmed>>

\* Mutant: the header stays when the second malloc fails.
AllocFailsLeaks(g, got) ==
    /\ alive
    /\ free_chunks_list = <<>>
    /\ GroupBlocks(g) \cap heap = {}
    /\ got \in {{}, {<<g, "header">>}}
    /\ heap' = heap \cup got
    /\ UNCHANGED <<alive, free_chunks_list, groups, n_grp_free, users, freeing, trimmed>>

\* The first malloc fails, or the second does and the header that the first
\* gave is freed again: the user gets NULL.
AllocFails(g, got) ==
    /\ alive
    /\ free_chunks_list = <<>>
    /\ GroupBlocks(g) \cap heap = {}
    /\ got \in {{}, {<<g, "header">>}}
    /\ heap' = (heap \cup got) \ got
    /\ UNCHANGED <<alive, free_chunks_list, groups, n_grp_free, users, freeing, trimmed>>

\* Mutant: the group's count is raised before the lock is taken.
FreeCallCounts(c) ==
    /\ c \in users
    /\ users' = users \ {c}
    /\ freeing' = freeing \cup {c}
    /\ n_grp_free' = [n_grp_free EXCEPT ![GroupOf(c)] = @ + 1]
    /\ UNCHANGED <<alive, free_chunks_list, groups, heap, trimmed>>

\* chunk_free finds the manager through the chunk's group, without the lock...
FreeCall(c) ==
    /\ c \in users
    /\ users' = users \ {c}
    /\ freeing' = freeing \cup {c}
    /\ UNCHANGED <<manager, trimmed>>

\* ... and returns the chunk under it.
FreeDone(c) ==
    /\ c \in freeing
    /\ n_grp_free' = [n_grp_free EXCEPT ![GroupOf(c)] = @ + 1]
    /\ free_chunks_list' = <<c>> \o free_chunks_list
    /\ freeing' = freeing \ {c}
    /\ UNCHANGED <<alive, groups, heap, users, trimmed>>

\* chunk_manager_trim: one pass rebuilds the free list without the chunks of
\* wholly free groups; if it dropped any, a second pass frees those groups.
\* Both passes go over a list from its head and push what they keep on the
\* new one, and so turn the order round.
Turned(old, Kept) ==
    LET new[i \in 0 .. Len(old)] ==
            IF i = 0 THEN << >>
            ELSE IF old[i] \in Kept THEN <<old[i]>> \o new[i - 1] ELSE new[i - 1]
    IN  new[Len(old)]

InUse(g) == n_grp_free[g] < ChunksPerGroup
ChunksInUse == {c \in Chunks : InUse(GroupOf(c))}
GroupsInUse == {g \in Groups : InUse(g)}

\* Mutant: the first pass keeps the chunks of the groups the second one frees.
TrimKeepsChunks ==
    LET idle == ToSet(groups) \ GroupsInUse
    IN
    /\ alive
    /\ free_chunks_list' = Turned(free_chunks_list, Chunks)
    /\ groups' = Turned(groups, GroupsInUse)
    /\ heap' = heap \ UNION {GroupBlocks(g) : g \in idle}
    /\ trimmed' = Cardinality(idle)
    /\ UNCHANGED <<alive, n_grp_free, users, freeing>>

\* Mutant: trim returns the number of chunks it dropped.
TrimCountsChunks ==
    LET kept == Turned(free_chunks_list, ChunksInUse)
        idle == ToSet(groups) \ GroupsInUse
    IN
    /\ alive
    /\ free_chunks_list' = kept
    /\ groups' = Turned(groups, GroupsInUse)
    /\ heap' = heap \ UNION {GroupBlocks(g) : g \in idle}
    /\ trimmed' = Len(free_chunks_list) - Len(kept)
    /\ UNCHANGED <<alive, n_grp_free, users, freeing>>

Trim ==
    LET kept == Turned(free_chunks_list, ChunksInUse)
        idle == ToSet(groups) \ GroupsInUse
        drop == Len(kept) < Len(free_chunks_list)
    IN
    /\ alive
    /\ free_chunks_list' = kept
    /\ groups' = IF drop THEN Turned(groups, GroupsInUse) ELSE groups
    /\ heap' = IF drop THEN heap \ UNION {GroupBlocks(g) : g \in idle} ELSE heap
    /\ trimmed' = IF drop THEN Cardinality(idle) ELSE 0
    /\ UNCHANGED <<alive, n_grp_free, users, freeing>>

\* chunk_manager_destroy, and chunk_manager_init on the cleared structure.
Destroy ==
    /\ alive
    /\ freeing = {}
    /\ alive' = FALSE
    /\ free_chunks_list' = <<>>
    /\ groups' = <<>>
    /\ heap' = heap \ UNION {GroupBlocks(g) : g \in ToSet(groups)}
    /\ users' = {}
    /\ UNCHANGED <<n_grp_free, freeing, trimmed>>

Reinit ==
    /\ ~alive
    /\ alive' = TRUE
    /\ UNCHANGED <<free_chunks_list, groups, n_grp_free, heap, users, freeing, trimmed>>

ChunkNext ==
    \/ Alloc
    \/ \E g \in Groups : AllocGrow(g)
    \/ \E g \in Groups : \E got \in SUBSET GroupBlocks(g) : AllocFails(g, got)
    \/ \E c \in Chunks : FreeCall(c) \/ FreeDone(c)
    \/ Trim
    \/ Destroy
    \/ Reinit

ChunkSpec == ChunkInit /\ [][ChunkNext]_chunkVars

-----------------------------------------------------------------------------
(***************************************************************************)
(* Properties.                                                             *)
(***************************************************************************)
ChunkTypeOK ==
    /\ alive \in BOOLEAN
    /\ free_chunks_list \in Seq(Chunks)
    /\ groups \in Seq(Groups)
    /\ n_grp_free \in [Groups -> 0..ChunksPerGroup]
    /\ heap \subseteq UNION {GroupBlocks(g) : g \in Groups}
    /\ users \subseteq Chunks
    /\ freeing \subseteq Chunks
    /\ trimmed \in Nat

\* The count in a group's header, which alone decides whether trim frees the
\* group, is the number of its chunks on the free list.
CountsMatchList ==
    \A g \in ToSet(groups) :
        n_grp_free[g] = Cardinality({i \in DOMAIN free_chunks_list :
                                        GroupOf(free_chunks_list[i]) = g})

\* Every chunk of a group is on the free list once, or with one user: never
\* both, and never lost; and the counts that trim goes by are right.
ChunksAccountedFor ==
    LET free == ToSet(free_chunks_list)
        out == users \cup freeing
    IN
    /\ ChunkTypeOK
    /\ CountsMatchList
    /\ IsInjective(free_chunks_list)
    /\ free \cap out = {}
    /\ users \cap freeing = {}
    /\ free \cup out = ToSet(groups) \X (1..ChunksPerGroup)

\* The manager has the memory of its groups and no other: a failed malloc, a
\* trim and a destroy leave nothing behind (chunk_manager_add_group_failed),
\* and, with ChunksAccountedFor, the addresses of allocated chunks stay
\* (chunk_manager.h:57): a chunk's memory is there while a user has it and
\* while chunk_free reads its group and manager without the lock.
MemoryExact == heap = UNION {GroupBlocks(g) : g \in ToSet(groups)}

\* chunk_manager.h:183, trim returns the number of groups it gave back, and
\* it gives back every group of which nobody has a chunk.
TrimIsComplete ==
    [][Trim => /\ trimmed' = Len(groups) - Len(groups')
               /\ \A g \in ToSet(groups') :
                     \E c \in users' \cup freeing' : GroupOf(c) = g]_chunkVars

\* The manager implements the abstract pool of chunks; a free takes effect
\* when it has the lock.
Pool == INSTANCE ChunkPool WITH
            live <- ToSet(groups), users <- users \cup freeing
ImplementsChunkPool == Pool!Spec
=============================================================================
