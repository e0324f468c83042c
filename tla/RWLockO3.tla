------------------------------ MODULE RWLockO3 ------------------------------
(***************************************************************************)
(* RWLock as an optimising build of lock_object.c may run it.  mtx is      *)
(* volatile and readers is not, so a compiler may store the clamped count  *)
(* of release_read_lock after mtx = 0; gcc does so at the Makefile's -O3.  *)
(***************************************************************************)
EXTENDS RWLock

UnreadDecEarly(t) ==
    /\ Goto(t, "ru_dec", "ru_early")
    /\ readers' = reg[t]
    /\ UNCHANGED <<mtx, write_pending, writing, reg>>

LeaveEarly(t) ==
    /\ Goto(t, "ru_early", "ru_late")
    /\ mtx' = 0
    /\ UNCHANGED <<readers, write_pending, writing, reg>>

UnreadClampLate(t) ==
    /\ Goto(t, "ru_late", "idle")
    /\ readers' = IF reg[t] < 0 THEN 0 ELSE reg[t]
    /\ UNCHANGED <<mtx, write_pending, writing, reg>>

NextO3 ==
    \/ Next
    \/ \E t \in Threads : UnreadDecEarly(t) \/ LeaveEarly(t) \/ UnreadClampLate(t)

SpecO3 == Init /\ [][NextO3]_vars
=============================================================================
