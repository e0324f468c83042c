------------------------------ MODULE MCLocked ------------------------------
(***************************************************************************)
(* A small instance of Locked for TLC.                                     *)
(***************************************************************************)
EXTENDS Locked

CONSTANTS r1, r2, r3, w1

Independent == {}
=============================================================================
