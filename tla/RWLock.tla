------------------------------- MODULE RWLock -------------------------------
(***************************************************************************)
(* lock_object.c: a read/write lock built from one byte that is set with   *)
(* compare and swap (mtx) and three plain fields that the byte protects.   *)
(* One step of a process is one access to a field, so the interleavings    *)
(* are those of the threads' loads and stores.  A failed compare and swap  *)
(* calls sched_yield and tries again: it changes nothing and is a          *)
(* stuttering step here.                                                   *)
(*                                                                         *)
(* A process is one chain of lock and unlock calls.  A thread that calls   *)
(* again while it holds the lock is a second process that Nest relates to  *)
(* the first.                                                              *)
(***************************************************************************)
EXTENDS Integers, FiniteSets

CONSTANTS
    Readers,        \* processes that call grab_read_lock
    Writers,        \* processes that call grab_write_lock
    Nest,           \* <<o, i>>: i is a call the thread of o makes while o holds
    MaxShort        \* the largest value of the field readers, a short (32767)

Threads == Readers \cup Writers

ASSUME ThreadsAssumption == IsFiniteSet(Threads)
ASSUME NestAssumption == Nest \subseteq Threads \X Threads
ASSUME ShortAssumption == MaxShort \in Nat

VARIABLES
    mtx,            \* 0 or 1, the byte the compare and swap works on
    readers,        \* the count of read locks given out
    write_pending,
    writing,
    pc,             \* where each process stands in the lock's code
    reg             \* the count a process has loaded and not stored yet

lck == <<mtx, readers, write_pending, writing>>
vars == <<mtx, readers, write_pending, writing, pc, reg>>

-----------------------------------------------------------------------------
(***************************************************************************)
(* Labels.  rl is grab_read_lock, ru release_read_lock, wl grab_write_lock *)
(* and wu release_write_lock; "reading" and "writing" are the caller's     *)
(* code while it holds the lock.                                           *)
(***************************************************************************)
\* The process is between a successful compare and swap and its mtx = 0.
InsideLabels ==
    {"rl_test", "rl_load", "rl_store", "rl_out", "rl_back",
     "ru_load", "ru_dec", "ru_clamp", "ru_out",
     "wl_mark", "wl_test", "wl_claim", "wl_out", "wl_back",
     "wu_clear", "wu_unmark", "wu_out"}

Labels ==
    InsideLabels \cup {"idle", "rl_try", "reading", "ru_try",
                      "wl_try", "writing", "wu_try"}

Goto(t, from, to) ==
    /\ pc[t] = from
    /\ pc' = [pc EXCEPT ![t] = to]

-----------------------------------------------------------------------------
\* What a store of n, at most one out of range, leaves in the field.
Short(n) ==
    IF n > MaxShort THEN n - 2 * (MaxShort + 1)
    ELSE IF n < -(MaxShort + 1) THEN n + 2 * (MaxShort + 1)
    ELSE n

Init ==
    /\ mtx = 0
    /\ readers = 0
    /\ write_pending = FALSE
    /\ writing = FALSE
    /\ pc = [t \in Threads |-> "idle"]
    /\ reg = [t \in Threads |-> 0]

-----------------------------------------------------------------------------
(***************************************************************************)
(* The caller.  A nested call starts while the outer one holds the lock    *)
(* and has ended before the outer one gives it back.                       *)
(***************************************************************************)
Holding(t) == pc[t] \in {"reading", "writing"}

MayCall(t) == \A o \in Threads : <<o, t>> \in Nest => Holding(o)
MayRelease(t) == \A i \in Threads : <<t, i>> \in Nest => pc[i] = "idle"

Grab(t) ==
    /\ MayCall(t)
    /\ \/ t \in Readers /\ Goto(t, "idle", "rl_try")
       \/ t \in Writers /\ Goto(t, "idle", "wl_try")
    /\ UNCHANGED <<lck, reg>>

Release(t) ==
    /\ MayRelease(t)
    /\ \/ Goto(t, "reading", "ru_try")
       \/ Goto(t, "writing", "wu_try")
    /\ UNCHANGED <<lck, reg>>

-----------------------------------------------------------------------------
(***************************************************************************)
(* The byte: ttas succeeds, and the plain store that gives it back.        *)
(***************************************************************************)
\* Mutant: the byte is set without testing it, an unlocked exchange.
EnterUntested(t) ==
    /\ mtx' = 1
    /\ \/ Goto(t, "rl_try", "rl_test")
       \/ Goto(t, "ru_try", "ru_load")
       \/ Goto(t, "wl_try", "wl_mark")
       \/ Goto(t, "wu_try", "wu_clear")
    /\ UNCHANGED <<readers, write_pending, writing, reg>>

Enter(t) ==
    /\ mtx = 0
    /\ mtx' = 1
    /\ \/ Goto(t, "rl_try", "rl_test")
       \/ Goto(t, "ru_try", "ru_load")
       \/ Goto(t, "wl_try", "wl_mark")
       \/ Goto(t, "wu_try", "wu_clear")
    /\ UNCHANGED <<readers, write_pending, writing, reg>>

Leave(t) ==
    /\ mtx' = 0
    /\ \/ Goto(t, "rl_out", "reading")
       \/ Goto(t, "rl_back", "rl_try")
       \/ Goto(t, "ru_out", "idle")
       \/ Goto(t, "wl_out", "writing")
       \/ Goto(t, "wl_back", "wl_try")
       \/ Goto(t, "wu_out", "idle")
    /\ UNCHANGED <<readers, write_pending, writing, reg>>

(***************************************************************************)
(* _read_lock: back off while a writer is pending, otherwise readers++.    *)
(***************************************************************************)
\* Mutant: the reader looks at nothing.
ReadTestNothing(t) ==
    /\ Goto(t, "rl_test", "rl_load")
    /\ UNCHANGED <<lck, reg>>

\* Mutant: the reader looks at writing where it should look at write_pending.
ReadTestWriting(t) ==
    /\ Goto(t, "rl_test", IF writing THEN "rl_back" ELSE "rl_load")
    /\ UNCHANGED <<lck, reg>>

ReadTest(t) ==
    /\ Goto(t, "rl_test", IF write_pending THEN "rl_back" ELSE "rl_load")
    /\ UNCHANGED <<lck, reg>>

ReadLoad(t) ==
    /\ Goto(t, "rl_load", "rl_store")
    /\ reg' = [reg EXCEPT ![t] = readers]
    /\ UNCHANGED lck

ReadStore(t) ==
    /\ Goto(t, "rl_store", "rl_out")
    /\ readers' = Short(reg[t] + 1)
    /\ UNCHANGED <<mtx, write_pending, writing, reg>>

(***************************************************************************)
(* release_read_lock: --readers, then the count again, clamped at zero.    *)
(* RWLockO3 has the order of the stores of an optimising build.            *)
(***************************************************************************)
UnreadLoad(t) ==
    /\ Goto(t, "ru_load", "ru_dec")
    /\ reg' = [reg EXCEPT ![t] = Short(readers - 1)]
    /\ UNCHANGED lck

UnreadDec(t) ==
    /\ Goto(t, "ru_dec", "ru_clamp")
    /\ readers' = reg[t]
    /\ UNCHANGED <<mtx, write_pending, writing, reg>>

UnreadClamp(t) ==
    /\ Goto(t, "ru_clamp", "ru_out")
    /\ readers' = IF reg[t] < 0 THEN 0 ELSE reg[t]
    /\ UNCHANGED <<mtx, write_pending, writing, reg>>

(***************************************************************************)
(* _write_lock: announce the writer, then take the lock if it is free.     *)
(***************************************************************************)
\* Mutant: the writer does not announce itself.
WriteMarkNot(t) ==
    /\ Goto(t, "wl_mark", "wl_test")
    /\ UNCHANGED <<lck, reg>>

WriteMark(t) ==
    /\ Goto(t, "wl_mark", "wl_test")
    /\ write_pending' = TRUE
    /\ UNCHANGED <<mtx, readers, writing, reg>>

WriteTest(t) ==
    /\ Goto(t, "wl_test",
            IF readers <= 0 /\ ~writing THEN "wl_claim" ELSE "wl_back")
    /\ UNCHANGED <<lck, reg>>

WriteClaim(t) ==
    /\ Goto(t, "wl_claim", "wl_out")
    /\ writing' = TRUE
    /\ UNCHANGED <<mtx, readers, write_pending, reg>>

(***************************************************************************)
(* release_write_lock: write_pending = writing = false.                    *)
(***************************************************************************)
UnwriteClear(t) ==
    /\ Goto(t, "wu_clear", "wu_unmark")
    /\ writing' = FALSE
    /\ UNCHANGED <<mtx, readers, write_pending, reg>>

UnwriteUnmark(t) ==
    /\ Goto(t, "wu_unmark", "wu_out")
    /\ write_pending' = FALSE
    /\ UNCHANGED <<mtx, readers, writing, reg>>

-----------------------------------------------------------------------------
Inside(t) ==
    \/ ReadTest(t) \/ ReadLoad(t) \/ ReadStore(t)
    \/ UnreadLoad(t) \/ UnreadDec(t) \/ UnreadClamp(t)
    \/ WriteMark(t) \/ WriteTest(t) \/ WriteClaim(t)
    \/ UnwriteClear(t) \/ UnwriteUnmark(t)
    \/ Leave(t)

Next == \E t \in Threads : Grab(t) \/ Release(t) \/ Enter(t) \/ Inside(t)

Spec == Init /\ [][Next]_vars

(***************************************************************************)
(* A thread is never stopped for good by the scheduler, holders give the   *)
(* lock back, and a process that spins sees the byte free again and again  *)
(* and wins it in the end: the lock keeps no queue, so no weaker           *)
(* assumption gets any process in.                                         *)
(***************************************************************************)
Fairness ==
    \A t \in Threads :
        /\ WF_vars(Inside(t))
        /\ WF_vars(Release(t))
        /\ SF_vars(Enter(t))

FairSpec == Spec /\ Fairness

-----------------------------------------------------------------------------
(***************************************************************************)
(* Properties.                                                             *)
(***************************************************************************)
TypeOK ==
    /\ mtx \in {0, 1}
    /\ readers \in -(MaxShort + 1)..MaxShort
    /\ write_pending \in BOOLEAN
    /\ writing \in BOOLEAN
    /\ pc \in [Threads -> Labels]
    /\ reg \in [Threads -> -(MaxShort + 1)..MaxShort]

\* The processes that hold the lock, from the store that gives it to them to
\* the store that takes it back.
ReadOwners ==
    {t \in Threads : pc[t] \in {"rl_out", "reading", "ru_try", "ru_load", "ru_dec"}}
WriteOwners ==
    {t \in Threads : pc[t] \in {"wl_out", "writing", "wu_try", "wu_clear", "wu_unmark"}}

\* The purpose of the lock, which test_lock_object.c:74 looks for in a shared
\* array: while one process is in its write section no other process is in a
\* read or a write section.
MutualExclusion ==
    \A w \in Threads : pc[w] = "writing" =>
        \A t \in Threads \ {w} : ~Holding(t)

\* lock_object.h:74, the byte "protects rest of the variables": whenever no
\* process is inside, the count is exactly the number of read locks given out.
ReadersExact ==
    mtx = 0 => readers = Cardinality(ReadOwners)

\* lock_object.h:46, "read locks will not starve out a write lock": when
\* writers wait, one of them gets the lock, whatever the readers do.
WriterGetsIn ==
    (\E w \in Writers : pc[w] = "wl_try") ~> (\E w \in Writers : pc[w] = "writing")

\* The lock implements ReadersWriters: a grant and a release take effect at
\* the store to readers, to writing or to write_pending.
RW == INSTANCE ReadersWriters WITH
        reading <- ReadOwners, writing <- WriteOwners, announced <- write_pending
ImplementsReadersWriters == RW!Spec
=============================================================================
