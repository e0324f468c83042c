------------------------------ MODULE MCRWLock ------------------------------
(***************************************************************************)
(* A small instance of RWLockO3 for TLC.                                   *)
(***************************************************************************)
EXTENDS RWLockO3

CONSTANTS r1, r2, w1

Independent == {}
=============================================================================
