------------------------------- MODULE Locked -------------------------------
(***************************************************************************)
(* A lock of lock_object.c, and two objects whose calls run one after the  *)
(* other under such a lock: the chunk manager and the AVL tree.  What the  *)
(* lock promises makes each of those calls one step, which does nothing to *)
(* the lock; so a process uses one of the three, and what is true of each  *)
(* for itself is true of all of them together.                             *)
(***************************************************************************)
EXTENDS RWLock, ChunkManager, AVLTree

VARIABLE using

lockedVars == <<using, vars, chunkVars, avlVars>>

LockedInit == /\ using \in {"lock", "chunks", "tree"}
              /\ Init /\ ChunkInit /\ AVLInit

UsesLock == using = "lock" /\ Next /\ UNCHANGED <<using, chunkVars, avlVars>>

UsesChunks == using = "chunks" /\ ChunkNext /\ UNCHANGED <<using, vars, avlVars>>

UsesTree == using = "tree" /\ AVLNext /\ UNCHANGED <<using, vars, chunkVars>>

LockedNext == UsesLock \/ UsesChunks \/ UsesTree

\* With the fairness of the lock.
LockedSpec == LockedInit /\ [][LockedNext]_lockedVars /\ Fairness
=============================================================================
