------------------------------ MODULE MCLists ------------------------------
(***************************************************************************)
(* Instance of Lists for TLC: any address is as good as any other.         *)
(***************************************************************************)
EXTENDS Lists

\* Five addresses: the two end nodes and three elements, on one list or spread
\* over the three, and up to five on a list alone.  They are interchangeable.
Addresses == Permutations(Nodes)
=============================================================================
