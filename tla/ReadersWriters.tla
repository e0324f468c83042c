--------------------------- MODULE ReadersWriters ---------------------------
(***************************************************************************)
(* What lock_object.h promises of a read/write lock, with nothing of how   *)
(* it is done: any number of readers or one writer hold it, and once a     *)
(* writer has announced itself no new reader is let in until a writer has  *)
(* held the lock and given it back.                                        *)
(***************************************************************************)
CONSTANTS
    Readers,    \* processes that take the lock for reading
    Writers     \* processes that take it for writing

VARIABLES
    reading,    \* the processes that hold the lock for reading
    writing,    \* the processes that hold it for writing
    announced   \* a writer has asked for the lock since it was last given back

vars == <<reading, writing, announced>>

TypeOK ==
    /\ reading \in SUBSET Readers
    /\ writing \in SUBSET Writers
    /\ announced \in BOOLEAN

Init ==
    /\ reading = {}
    /\ writing = {}
    /\ announced = FALSE

GrantRead(t) ==
    /\ ~announced
    /\ t \notin reading
    /\ reading' = reading \cup {t}
    /\ UNCHANGED <<writing, announced>>

ReleaseRead(t) ==
    /\ t \in reading
    /\ reading' = reading \ {t}
    /\ UNCHANGED <<writing, announced>>

Announce ==
    /\ announced' = TRUE
    /\ UNCHANGED <<reading, writing>>

GrantWrite(t) ==
    /\ announced
    /\ reading = {}
    /\ writing = {}
    /\ writing' = {t}
    /\ UNCHANGED <<reading, announced>>

\* Giving the lock back withdraws every announcement, the other writers' too.
ReleaseWrite(t) ==
    /\ t \in writing
    /\ writing' = writing \ {t}
    /\ announced' = FALSE
    /\ UNCHANGED reading

Next ==
    \/ Announce
    \/ \E t \in Readers : GrantRead(t) \/ ReleaseRead(t)
    \/ \E t \in Writers : GrantWrite(t) \/ ReleaseWrite(t)

Spec == Init /\ [][Next]_vars

\* The readers/writers exclusion that the specification implies.
Exclusion ==
    /\ \A s, t \in writing : s = t
    /\ writing # {} => reading = {}
=============================================================================
