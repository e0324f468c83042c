------------------------- MODULE LockAndTreeProofs -------------------------
(***************************************************************************)
(* Proofs about the two components that the objects are built on: RWLock,  *)
(* for any number of processes, any nesting of calls and any width of the  *)
(* reader count that can count the readers, and AVLTree, whose operations  *)
(* are steps because they run under that lock, for any finite or infinite  *)
(* set of integer keys and any sequence of calls.                          *)
(***************************************************************************)
EXTENDS RWLock, AVLTree, DataFacts

\* Without it the count wraps to a negative value, which a writer takes for
\* no readers.
Sound == Cardinality(Readers) <= MaxShort

ReadLabels == {"rl_try", "rl_test", "rl_load", "rl_store", "rl_out", "rl_back",
               "reading", "ru_try", "ru_load", "ru_dec", "ru_clamp", "ru_out"}
WriteLabels == {"wl_try", "wl_mark", "wl_test", "wl_claim", "wl_out", "wl_back",
                "writing", "wu_try", "wu_clear", "wu_unmark", "wu_out"}

-----------------------------------------------------------------------------
(***************************************************************************)
(* The inductive invariant.                                                *)
(***************************************************************************)
\* A process is at a label of its role.
Roles ==
    \A t \in Threads :
        \/ pc[t] = "idle"
        \/ pc[t] \in ReadLabels /\ t \in Readers
        \/ pc[t] \in WriteLabels /\ t \in Writers

\* mtx is a mutual exclusion lock for the processes inside.
ByteGuards ==
    /\ \A t \in Threads : pc[t] \in InsideLabels => mtx = 1
    /\ \A s, t \in Threads :
         pc[s] \in InsideLabels /\ pc[t] \in InsideLabels => s = t

\* The count is exact but between the two stores of a release, and a loaded
\* count is the present one.
CountExact ==
    /\ readers = Cardinality(ReadOwners)
    /\ \A t \in Threads :
         /\ pc[t] = "rl_store" => reg[t] = readers
         /\ pc[t] = "ru_dec" => reg[t] = readers - 1
         /\ pc[t] = "ru_clamp" => reg[t] = readers

\* What the two flags say of the processes.
FlagsExact ==
    /\ \A t \in Threads :
         pc[t] \in {"wl_out", "writing", "wu_try", "wu_clear"} => writing
    /\ \A t \in Threads :
         pc[t] \in {"wl_test", "wl_claim", "wl_out", "writing", "wu_try",
                    "wu_clear", "wu_unmark"} => write_pending
    /\ \A t \in Threads : pc[t] \in {"rl_load", "rl_store"} => ~write_pending
    /\ \A t \in Threads : pc[t] = "wl_claim" => ~writing /\ ReadOwners = {}

Exclusion ==
    /\ \A s, t \in WriteOwners : s = t
    /\ WriteOwners # {} => ReadOwners = {}

IInv == TypeOK /\ Roles /\ ByteGuards /\ CountExact /\ FlagsExact /\ Exclusion

-----------------------------------------------------------------------------
LEMMA OwnersFinite ==
    ASSUME IInv, Sound
    PROVE  /\ IsFiniteSet(ReadOwners)
           /\ ReadOwners \subseteq Readers
           /\ IsFiniteSet(Readers)
           /\ Cardinality(ReadOwners) \in 0..MaxShort
<1>1. ReadOwners \subseteq Readers
  BY DEF IInv, Roles, ReadOwners, WriteLabels
<1>2. IsFiniteSet(Readers)
  BY ThreadsAssumption, FS_Subset DEF Threads
<1>3. /\ IsFiniteSet(ReadOwners)
      /\ Cardinality(ReadOwners) <= Cardinality(Readers)
  BY <1>1, <1>2, FS_Subset
<1>4. Cardinality(ReadOwners) \in Nat /\ Cardinality(Readers) \in Nat
  BY <1>2, <1>3, FS_CardinalityType
<1> QED
  BY <1>1, <1>2, <1>3, <1>4, ShortAssumption DEF Sound

LEMMA InitIInv == ASSUME Init, Sound PROVE IInv
<1>1. ReadOwners = {} /\ WriteOwners = {}
  BY DEF Init, ReadOwners, WriteOwners
<1>2. Cardinality(ReadOwners) = 0
  BY <1>1, FS_EmptySet
<1>3. TypeOK
  <2>1. 0 \in -(MaxShort + 1)..MaxShort
    BY ShortAssumption
  <2> QED
    BY <2>1 DEF Init, TypeOK, Labels
<1>4. Roles /\ ByteGuards /\ FlagsExact /\ Exclusion
  BY <1>1 DEF Init, Roles, ByteGuards, FlagsExact, Exclusion, InsideLabels
<1>5. CountExact
  BY <1>2 DEF Init, CountExact
<1> QED
  BY <1>3, <1>4, <1>5 DEF IInv

(***************************************************************************)
(* The steps that neither the count nor the owners notice.                 *)
(***************************************************************************)
LEMMA CallStep ==
    ASSUME IInv, Sound, NEW t \in Threads, Grab(t) \/ Release(t)
    PROVE  IInv'
<1>1. ReadOwners' = ReadOwners /\ WriteOwners' = WriteOwners
  BY DEF IInv, TypeOK, Grab, Release, Goto, ReadOwners, WriteOwners
<1>2. TypeOK'
  BY DEF IInv, TypeOK, Grab, Release, Goto, lck, Labels, InsideLabels
<1>3. Roles'
  BY DEF IInv, TypeOK, Roles, Grab, Release, Goto, ReadLabels, WriteLabels
<1>4. ByteGuards'
  BY DEF IInv, TypeOK, ByteGuards, Grab, Release, Goto, lck, InsideLabels
<1>5. CountExact'
  BY <1>1 DEF IInv, TypeOK, CountExact, Grab, Release, Goto, lck
<1>6. FlagsExact'
  BY <1>1 DEF IInv, TypeOK, FlagsExact, Grab, Release, Goto, lck
<1>7. Exclusion'
  BY <1>1 DEF IInv, Exclusion
<1> QED
  BY <1>2, <1>3, <1>4, <1>5, <1>6, <1>7 DEF IInv

LEMMA EnterStep ==
    ASSUME IInv, Sound, NEW t \in Threads, Enter(t)
    PROVE  IInv'
<1>1. ReadOwners' = ReadOwners /\ WriteOwners' = WriteOwners
  BY DEF IInv, TypeOK, Enter, Goto, ReadOwners, WriteOwners
<1>2. TypeOK'
  BY DEF IInv, TypeOK, Enter, Goto, Labels, InsideLabels
<1>3. Roles'
  BY DEF IInv, TypeOK, Roles, Enter, Goto, ReadLabels, WriteLabels
<1>4. ByteGuards'
  BY DEF IInv, TypeOK, ByteGuards, Enter, Goto, InsideLabels
<1>5. CountExact'
  BY <1>1 DEF IInv, TypeOK, CountExact, Enter, Goto
<1>6. FlagsExact'
  BY <1>1 DEF IInv, TypeOK, FlagsExact, Enter, Goto
<1>7. Exclusion'
  BY <1>1 DEF IInv, Exclusion
<1> QED
  BY <1>2, <1>3, <1>4, <1>5, <1>6, <1>7 DEF IInv

LEMMA LeaveStep ==
    ASSUME IInv, Sound, NEW t \in Threads, Leave(t)
    PROVE  IInv'
<1>2. ReadOwners' = ReadOwners /\ WriteOwners' = WriteOwners
  BY DEF IInv, TypeOK, Leave, Goto, ReadOwners, WriteOwners
<1>3. TypeOK'
  BY DEF IInv, TypeOK, Leave, Goto, Labels, InsideLabels
<1>4. Roles'
  BY DEF IInv, TypeOK, Roles, Leave, Goto, ReadLabels, WriteLabels
<1>5. ByteGuards'
  BY DEF IInv, TypeOK, ByteGuards, Leave, Goto, InsideLabels
<1>6. CountExact'
  BY <1>2 DEF IInv, TypeOK, CountExact, Leave, Goto
<1>7. FlagsExact'
  BY <1>2 DEF IInv, TypeOK, FlagsExact, Leave, Goto
<1>8. Exclusion'
  BY <1>2 DEF IInv, Exclusion
<1> QED
  BY <1>3, <1>4, <1>5, <1>6, <1>7, <1>8 DEF IInv

(***************************************************************************)
(* The steps of a process inside that give the lock to nobody and take it  *)
(* from nobody.                                                            *)
(***************************************************************************)

LEMMA ReadTestStep ==
    ASSUME IInv, Sound, NEW t \in Threads, ReadTest(t)
    PROVE  IInv'
<1>1. ReadOwners' = ReadOwners /\ WriteOwners' = WriteOwners
  BY DEF IInv, TypeOK, ReadTest, Goto, ReadOwners, WriteOwners
<1>2. TypeOK'
  BY DEF IInv, TypeOK, ReadTest, Goto, lck, Labels, InsideLabels
<1>3. Roles'
  BY DEF IInv, TypeOK, Roles, ReadTest, Goto, ReadLabels, WriteLabels
<1>4. ByteGuards'
  BY DEF IInv, TypeOK, ByteGuards, ReadTest, Goto, lck, InsideLabels
<1>5. CountExact'
  BY <1>1 DEF IInv, TypeOK, CountExact, ReadTest, Goto, lck
<1>6. FlagsExact'
  BY <1>1 DEF IInv, TypeOK, FlagsExact, ReadTest, Goto, lck
<1>7. Exclusion'
  BY <1>1 DEF IInv, Exclusion
<1> QED
  BY <1>2, <1>3, <1>4, <1>5, <1>6, <1>7 DEF IInv

LEMMA ReadLoadStep ==
    ASSUME IInv, Sound, NEW t \in Threads, ReadLoad(t)
    PROVE  IInv'
<1>1. ReadOwners' = ReadOwners /\ WriteOwners' = WriteOwners
  BY DEF IInv, TypeOK, ReadLoad, Goto, ReadOwners, WriteOwners
<1>2. TypeOK'
  BY DEF IInv, TypeOK, ReadLoad, Goto, lck, Labels, InsideLabels
<1>3. Roles'
  BY DEF IInv, TypeOK, Roles, ReadLoad, Goto, ReadLabels, WriteLabels
<1>4. ByteGuards'
  BY DEF IInv, TypeOK, ByteGuards, ReadLoad, Goto, lck, InsideLabels
<1>5. CountExact'
  BY <1>1 DEF IInv, TypeOK, CountExact, ReadLoad, Goto, lck
<1>6. FlagsExact'
  BY <1>1 DEF IInv, TypeOK, FlagsExact, ReadLoad, Goto, lck
<1>7. Exclusion'
  BY <1>1 DEF IInv, Exclusion
<1> QED
  BY <1>2, <1>3, <1>4, <1>5, <1>6, <1>7 DEF IInv

LEMMA UnreadLoadStep ==
    ASSUME IInv, Sound, NEW t \in Threads, UnreadLoad(t)
    PROVE  IInv'
<1>1. ReadOwners' = ReadOwners /\ WriteOwners' = WriteOwners
  BY DEF IInv, TypeOK, UnreadLoad, Goto, ReadOwners, WriteOwners
<1>a. /\ Short(readers - 1) = readers - 1
      /\ readers - 1 \in -(MaxShort + 1)..MaxShort
  BY OwnersFinite, ShortAssumption DEF IInv, CountExact, Short
<1>2. TypeOK'
  BY <1>a DEF IInv, TypeOK, UnreadLoad, Goto, lck, Labels, InsideLabels
<1>3. Roles'
  BY DEF IInv, TypeOK, Roles, UnreadLoad, Goto, ReadLabels, WriteLabels
<1>4. ByteGuards'
  BY DEF IInv, TypeOK, ByteGuards, UnreadLoad, Goto, lck, InsideLabels
<1>5. CountExact'
  BY <1>1, <1>a DEF IInv, TypeOK, CountExact, UnreadLoad, Goto, lck
<1>6. FlagsExact'
  BY <1>1 DEF IInv, TypeOK, FlagsExact, UnreadLoad, Goto, lck
<1>7. Exclusion'
  BY <1>1 DEF IInv, Exclusion
<1> QED
  BY <1>2, <1>3, <1>4, <1>5, <1>6, <1>7 DEF IInv

LEMMA WriteMarkStep ==
    ASSUME IInv, Sound, NEW t \in Threads, WriteMark(t)
    PROVE  IInv'
<1>1. ReadOwners' = ReadOwners /\ WriteOwners' = WriteOwners
  BY DEF IInv, TypeOK, WriteMark, Goto, ReadOwners, WriteOwners
<1>2. TypeOK'
  BY DEF IInv, TypeOK, WriteMark, Goto, Labels, InsideLabels
<1>3. Roles'
  BY DEF IInv, TypeOK, Roles, WriteMark, Goto, ReadLabels, WriteLabels
<1>4. ByteGuards'
  BY DEF IInv, TypeOK, ByteGuards, WriteMark, Goto, InsideLabels
<1>5. CountExact'
  BY <1>1 DEF IInv, TypeOK, CountExact, WriteMark, Goto
<1>6. FlagsExact'
  BY <1>1 DEF IInv, TypeOK, FlagsExact, ByteGuards, InsideLabels, WriteMark, Goto
<1>7. Exclusion'
  BY <1>1 DEF IInv, Exclusion
<1> QED
  BY <1>2, <1>3, <1>4, <1>5, <1>6, <1>7 DEF IInv

LEMMA WriteTestStep ==
    ASSUME IInv, Sound, NEW t \in Threads, WriteTest(t)
    PROVE  IInv'
<1>1. ReadOwners' = ReadOwners /\ WriteOwners' = WriteOwners
  BY DEF IInv, TypeOK, WriteTest, Goto, ReadOwners, WriteOwners
<1>a. readers <= 0 => ReadOwners = {}
  BY OwnersFinite, FS_EmptySet DEF IInv, CountExact
<1>2. TypeOK'
  BY DEF IInv, TypeOK, WriteTest, Goto, lck, Labels, InsideLabels
<1>3. Roles'
  BY DEF IInv, TypeOK, Roles, WriteTest, Goto, ReadLabels, WriteLabels
<1>4. ByteGuards'
  BY DEF IInv, TypeOK, ByteGuards, WriteTest, Goto, lck, InsideLabels
<1>5. CountExact'
  BY <1>1 DEF IInv, TypeOK, CountExact, WriteTest, Goto, lck
<1>6. FlagsExact'
  BY <1>1, <1>a DEF IInv, TypeOK, FlagsExact, WriteTest, Goto, lck
<1>7. Exclusion'
  BY <1>1 DEF IInv, Exclusion
<1> QED
  BY <1>2, <1>3, <1>4, <1>5, <1>6, <1>7 DEF IInv

LEMMA UnreadClampStep ==
    ASSUME IInv, Sound, NEW t \in Threads, UnreadClamp(t)
    PROVE  IInv'
<1>a. pc[t] = "ru_clamp" /\ reg[t] = readers /\ readers \in Nat
  BY OwnersFinite DEF IInv, Roles, ReadLabels, WriteLabels, CountExact, UnreadClamp, Goto
<1>b. readers' = readers
  BY <1>a DEF UnreadClamp
<1>1. ReadOwners' = ReadOwners /\ WriteOwners' = WriteOwners
  BY <1>a DEF IInv, TypeOK, UnreadClamp, Goto, ReadOwners, WriteOwners
<1>2. TypeOK'
  BY <1>b DEF IInv, TypeOK, UnreadClamp, Goto, Labels, InsideLabels
<1>3. Roles'
  BY DEF IInv, TypeOK, Roles, UnreadClamp, Goto, ReadLabels, WriteLabels
<1>4. ByteGuards'
  BY DEF IInv, TypeOK, ByteGuards, UnreadClamp, Goto, InsideLabels
<1>5. CountExact'
  BY <1>1, <1>a, <1>b DEF IInv, TypeOK, CountExact, UnreadClamp, Goto
<1>6. FlagsExact'
  BY <1>1 DEF IInv, TypeOK, FlagsExact, UnreadClamp, Goto
<1>7. Exclusion'
  BY <1>1 DEF IInv, Exclusion
<1> QED
  BY <1>2, <1>3, <1>4, <1>5, <1>6, <1>7 DEF IInv

LEMMA UnwriteClearStep ==
    ASSUME IInv, Sound, NEW t \in Threads, UnwriteClear(t)
    PROVE  IInv'
<1>1. ReadOwners' = ReadOwners /\ WriteOwners' = WriteOwners
  BY DEF IInv, TypeOK, UnwriteClear, Goto, ReadOwners, WriteOwners
<1>2. TypeOK'
  BY DEF IInv, TypeOK, UnwriteClear, Goto, Labels, InsideLabels
<1>3. Roles'
  BY DEF IInv, TypeOK, Roles, UnwriteClear, Goto, ReadLabels, WriteLabels
<1>4. ByteGuards'
  BY DEF IInv, TypeOK, ByteGuards, UnwriteClear, Goto, InsideLabels
<1>5. CountExact'
  BY <1>1 DEF IInv, TypeOK, CountExact, UnwriteClear, Goto
<1>6. FlagsExact'
  <2>1. \A w \in Threads \ {t} :
           pc[w] \notin {"wl_out", "writing", "wu_try", "wu_clear", "wl_claim"}
    BY DEF IInv, Exclusion, WriteOwners, ByteGuards, InsideLabels, UnwriteClear, Goto
  <2> QED
    BY <1>1, <2>1 DEF IInv, TypeOK, FlagsExact, UnwriteClear, Goto
<1>7. Exclusion'
  BY <1>1 DEF IInv, Exclusion
<1> QED
  BY <1>2, <1>3, <1>4, <1>5, <1>6, <1>7 DEF IInv

(***************************************************************************)
(* The steps that give the lock to a process or take it back.              *)
(***************************************************************************)

LEMMA ReadStoreStep ==
    ASSUME IInv, Sound, NEW t \in Threads, ReadStore(t)
    PROVE  IInv'
<1>a. t \in Readers /\ t \notin ReadOwners /\ reg[t] = readers
  BY DEF IInv, Roles, ReadLabels, WriteLabels, CountExact, ReadOwners, ReadStore, Goto
<1>b. /\ ReadOwners' = ReadOwners \cup {t}
      /\ WriteOwners' = WriteOwners
  BY <1>a DEF IInv, TypeOK, ReadStore, Goto, ReadOwners, WriteOwners
<1>c. Cardinality(ReadOwners') = readers + 1
  BY <1>a, <1>b, OwnersFinite, FS_AddElement DEF IInv, CountExact
<1>d. ReadOwners' \subseteq Readers
  BY <1>a, <1>b, OwnersFinite
<1>e. readers + 1 <= MaxShort
  <2>1. Cardinality(ReadOwners') <= Cardinality(Readers)
    BY <1>d, OwnersFinite, FS_Subset
  <2> QED
    BY <2>1, <1>c, OwnersFinite, FS_CardinalityType, ShortAssumption
       DEF Sound, IInv, TypeOK
<1>1. readers' = readers + 1 /\ readers' \in 0..MaxShort
  BY <1>a, <1>e, OwnersFinite, ShortAssumption DEF IInv, CountExact, ReadStore, Short
<1>f. WriteOwners = {}
  BY DEF IInv, FlagsExact, WriteOwners, ReadStore, Goto
<1>2. TypeOK'
  BY <1>1, ShortAssumption DEF IInv, TypeOK, ReadStore, Goto, Labels, InsideLabels
<1>3. Roles'
  BY DEF IInv, TypeOK, Roles, ReadStore, Goto, ReadLabels, WriteLabels
<1>4. ByteGuards'
  BY DEF IInv, TypeOK, ByteGuards, ReadStore, Goto, InsideLabels
<1>5. CountExact'
  <2>1. \A s \in Threads : pc'[s] \notin {"rl_store", "ru_dec", "ru_clamp"}
    BY DEF IInv, TypeOK, ByteGuards, InsideLabels, ReadStore, Goto
  <2> QED
    BY <1>1, <1>c, <2>1 DEF CountExact
<1>6. FlagsExact'
  BY DEF IInv, TypeOK, FlagsExact, ByteGuards, InsideLabels, ReadStore, Goto
<1>7. Exclusion'
  BY <1>b, <1>f DEF Exclusion
<1> QED
  BY <1>2, <1>3, <1>4, <1>5, <1>6, <1>7 DEF IInv

LEMMA UnreadDecStep ==
    ASSUME IInv, Sound, NEW t \in Threads, UnreadDec(t)
    PROVE  IInv'
<1>a. t \in ReadOwners /\ pc[t] = "ru_dec" /\ reg[t] = readers - 1
  BY DEF IInv, CountExact, ReadOwners, UnreadDec, Goto
<1>b. /\ ReadOwners' = ReadOwners \ {t}
      /\ WriteOwners' = WriteOwners
  BY <1>a DEF IInv, TypeOK, UnreadDec, Goto, ReadOwners, WriteOwners
<1>1. Cardinality(ReadOwners') = readers - 1 /\ readers' = readers - 1
  BY <1>a, <1>b, OwnersFinite, FS_RemoveElement DEF IInv, CountExact, UnreadDec
<1>c. pc' = [pc EXCEPT ![t] = "ru_clamp"]
  BY DEF UnreadDec, Goto
<1>2. TypeOK'
  <2>1. readers' \in -(MaxShort + 1)..MaxShort
    BY <1>1, <1>a DEF IInv, TypeOK
  <2> QED
    BY <2>1, <1>c DEF IInv, TypeOK, UnreadDec, Labels, InsideLabels
<1>3. Roles'
  BY <1>a, <1>c DEF IInv, TypeOK, Roles, ReadLabels, WriteLabels
<1>4. ByteGuards'
  BY <1>a, <1>c DEF IInv, TypeOK, ByteGuards, UnreadDec, InsideLabels
<1>5. CountExact'
  <2>1. \A s \in Threads \ {t} : pc'[s] \notin {"rl_store", "ru_dec", "ru_clamp"}
    BY <1>a, <1>c DEF IInv, TypeOK, ByteGuards, InsideLabels
  <2> QED
    BY <1>1, <1>a, <1>c, <2>1 DEF IInv, TypeOK, CountExact, UnreadDec
<1>6. FlagsExact'
  BY <1>b, <1>c DEF IInv, TypeOK, FlagsExact, UnreadDec
<1>7. Exclusion'
  BY <1>b DEF IInv, Exclusion
<1> QED
  BY <1>2, <1>3, <1>4, <1>5, <1>6, <1>7 DEF IInv

LEMMA WriteClaimStep ==
    ASSUME IInv, Sound, NEW t \in Threads, WriteClaim(t)
    PROVE  IInv'
<1>a. WriteOwners = {}
  BY DEF IInv, FlagsExact, ByteGuards, InsideLabels, WriteOwners, WriteClaim, Goto
<1>b. ReadOwners = {}
  BY DEF IInv, FlagsExact, WriteClaim, Goto
<1>1. ReadOwners' = ReadOwners /\ WriteOwners' = {t}
  BY <1>a DEF IInv, TypeOK, WriteClaim, Goto, ReadOwners, WriteOwners
<1>2. TypeOK'
  BY DEF IInv, TypeOK, WriteClaim, Goto, Labels, InsideLabels
<1>3. Roles'
  BY DEF IInv, TypeOK, Roles, WriteClaim, Goto, ReadLabels, WriteLabels
<1>4. ByteGuards'
  BY DEF IInv, TypeOK, ByteGuards, WriteClaim, Goto, InsideLabels
<1>5. CountExact'
  BY <1>1 DEF IInv, TypeOK, CountExact, WriteClaim, Goto
<1>6. FlagsExact'
  BY DEF IInv, TypeOK, FlagsExact, ByteGuards, InsideLabels, WriteClaim, Goto
<1>7. Exclusion'
  BY <1>1, <1>b DEF Exclusion
<1> QED
  BY <1>2, <1>3, <1>4, <1>5, <1>6, <1>7 DEF IInv

LEMMA UnwriteUnmarkStep ==
    ASSUME IInv, Sound, NEW t \in Threads, UnwriteUnmark(t)
    PROVE  IInv'
<1>a. t \in WriteOwners
  BY DEF WriteOwners, UnwriteUnmark, Goto
<1>1. ReadOwners' = ReadOwners /\ WriteOwners' = WriteOwners \ {t}
  BY DEF IInv, TypeOK, UnwriteUnmark, Goto, ReadOwners, WriteOwners
<1>2. TypeOK'
  BY DEF IInv, TypeOK, UnwriteUnmark, Goto, Labels, InsideLabels
<1>3. Roles'
  BY DEF IInv, TypeOK, Roles, UnwriteUnmark, Goto, ReadLabels, WriteLabels
<1>4. ByteGuards'
  BY DEF IInv, TypeOK, ByteGuards, UnwriteUnmark, Goto, InsideLabels
<1>5. CountExact'
  BY <1>1 DEF IInv, TypeOK, CountExact, UnwriteUnmark, Goto
<1>6. FlagsExact'
  <2>1. \A w \in Threads \ {t} : pc[w] \notin
           {"wl_test", "wl_claim", "wl_out", "writing", "wu_try", "wu_clear", "wu_unmark"}
    BY <1>a DEF IInv, Exclusion, WriteOwners, ByteGuards, InsideLabels, UnwriteUnmark, Goto
  <2> QED
    BY <1>1, <2>1 DEF IInv, TypeOK, FlagsExact, UnwriteUnmark, Goto
<1>7. Exclusion'
  BY <1>1, <1>a DEF IInv, Exclusion
<1> QED
  BY <1>2, <1>3, <1>4, <1>5, <1>6, <1>7 DEF IInv

-----------------------------------------------------------------------------
LEMMA NextIInv == ASSUME IInv, Sound, [Next]_vars PROVE IInv'
<1>1. CASE UNCHANGED vars
  BY <1>1 DEF vars, IInv, TypeOK, Roles, ByteGuards, CountExact, FlagsExact,
     Exclusion, ReadOwners, WriteOwners
<1>2. ASSUME NEW t \in Threads, Grab(t) \/ Release(t) \/ Enter(t) \/ Leave(t)
      PROVE  IInv'
  BY <1>2, CallStep, EnterStep, LeaveStep
<1>3. ASSUME NEW t \in Threads, Inside(t), ~Leave(t)
      PROVE  IInv'
  BY <1>3, ReadTestStep, ReadLoadStep, ReadStoreStep, UnreadLoadStep,
     UnreadDecStep, UnreadClampStep, WriteMarkStep, WriteTestStep,
     WriteClaimStep, UnwriteClearStep, UnwriteUnmarkStep DEF Inside
<1> QED
  BY <1>1, <1>2, <1>3 DEF Next

\* The inductive invariant holds in every reachable state of a sound instance.
THEOREM Invariance == Sound => (Spec => []IInv)
<1> SUFFICES ASSUME Sound PROVE Spec => []IInv
  OBVIOUS
<1>1. Init => IInv
  BY InitIInv
<1>2. IInv /\ [Next]_vars => IInv'
  BY NextIInv
<1> QED
  BY <1>1, <1>2, PTL DEF Spec

\* Every field of the lock and every local of its code keeps its type: the
\* count of readers never leaves the range of the field.
THEOREM TypeCorrect == Sound => (Spec => []TypeOK)
<1>1. IInv => TypeOK
  BY DEF IInv
<1> QED
  BY <1>1, Invariance, PTL

\* While a process is in its write section no other process is in a read or a
\* write section (grab_read_lock, grab_write_lock).
THEOREM LockExcludes == Sound => (Spec => []MutualExclusion)
<1>1. IInv => MutualExclusion
  BY DEF IInv, Exclusion, MutualExclusion, Holding, ReadOwners, WriteOwners
<1> QED
  BY <1>1, Invariance, PTL

\* Whenever the byte is free, the count is the number of read locks given out.
THEOREM CountIsExact == Sound => (Spec => []ReadersExact)
<1>1. IInv => ReadersExact
  BY DEF IInv, CountExact, ReadersExact
<1> QED
  BY <1>1, Invariance, PTL

\* Every run of the code is a run of the abstract readers/writers lock.
THEOREM Refinement == Sound => (Spec => ImplementsReadersWriters)
<1> SUFFICES ASSUME Sound PROVE Spec => RW!Spec
  BY DEF ImplementsReadersWriters
<1>1. Init => RW!Init
  BY DEF Init, RW!Init, ReadOwners, WriteOwners
<1>2. IInv /\ [Next]_vars => [RW!Next]_(RW!vars)
  <2> SUFFICES ASSUME IInv, [Next]_vars PROVE [RW!Next]_(RW!vars)
    OBVIOUS
  <2>1. CASE UNCHANGED vars
    BY <2>1 DEF vars, RW!vars, ReadOwners, WriteOwners
  <2>2. ASSUME NEW t \in Threads,
               Grab(t) \/ Release(t) \/ Enter(t) \/ Leave(t)
               \/ ReadTest(t) \/ ReadLoad(t) \/ UnreadLoad(t) \/ UnreadClamp(t)
               \/ WriteTest(t) \/ UnwriteClear(t)
        PROVE  UNCHANGED RW!vars
    <3>1. UNCHANGED write_pending
      BY <2>2 DEF Grab, Release, Enter, Leave, ReadTest, ReadLoad, UnreadLoad,
         UnreadClamp, WriteTest, UnwriteClear, lck
    <3>3. UNCHANGED <<ReadOwners, WriteOwners>>
      BY <2>2 DEF IInv, TypeOK, Grab, Release, Enter, Leave, ReadTest,
         ReadLoad, UnreadLoad, UnreadClamp, WriteTest, UnwriteClear, Goto,
         ReadOwners, WriteOwners
    <3> QED
      BY <3>1, <3>3 DEF RW!vars
  <2>3. ASSUME NEW t \in Threads, ReadStore(t) PROVE RW!GrantRead(t) /\ t \in Readers
    BY <2>3 DEF IInv, TypeOK, Roles, FlagsExact, ReadLabels, WriteLabels, ReadStore,
       Goto, ReadOwners, WriteOwners, RW!GrantRead
  <2>4. ASSUME NEW t \in Threads, UnreadDec(t) PROVE RW!ReleaseRead(t) /\ t \in Readers
    BY <2>4 DEF IInv, TypeOK, Roles, ReadLabels, WriteLabels, UnreadDec,
       Goto, ReadOwners, WriteOwners, RW!ReleaseRead
  <2>5. ASSUME NEW t \in Threads, WriteMark(t) PROVE RW!Announce
    BY <2>5 DEF IInv, TypeOK, WriteMark, Goto, ReadOwners, WriteOwners, RW!Announce
  <2>6. ASSUME NEW t \in Threads, WriteClaim(t) PROVE RW!GrantWrite(t) /\ t \in Writers
    BY <2>6 DEF IInv, TypeOK, Roles, FlagsExact, ByteGuards, InsideLabels, ReadLabels,
       WriteLabels, WriteClaim, Goto, ReadOwners, WriteOwners, RW!GrantWrite
  <2>7. ASSUME NEW t \in Threads, UnwriteUnmark(t) PROVE RW!ReleaseWrite(t) /\ t \in Writers
    BY <2>7 DEF IInv, TypeOK, Roles, ReadLabels, WriteLabels, UnwriteUnmark,
       Goto, ReadOwners, WriteOwners, RW!ReleaseWrite
  <2> QED
    BY <2>1, <2>2, <2>3, <2>4, <2>5, <2>6, <2>7 DEF Next, Inside, RW!Next
<1> QED
  BY <1>1, <1>2, Invariance, PTL DEF Spec, RW!Spec

-----------------------------------------------------------------------------
(***************************************************************************)
(* The AVL tree.  A call is a walk down and a walk up; what a walk has not *)
(* yet passed is a tree but for the node where it stands.  The operators   *)
(* below state that for each stage of a call: Shape and Level for a whole  *)
(* tree, At for the lookup, Leant for an insertion before its rotation,    *)
(* Falling for a removal on its way up, Risen for a rotation.              *)
(*                                                                         *)
(* A side is 0 or 1, left or right, so that a fact about one rotation is a *)
(* fact about both.                                                        *)
(***************************************************************************)
Side(is_left) == IF is_left THEN 0 ELSE 1

\* The inductive invariant.
TreeInv ==
    /\ IsTree(tree, Contents, BelowIn(tree), HeightIn(tree))
    /\ Whole(tree, Contents)
    /\ n = Cardinality(Contents)

-----------------------------------------------------------------------------
LEMMA ChildIs ==
    ASSUME NEW t, t \in Trees, NEW x \in Keys
    PROVE  /\ Child(t, x, 0) = t.left[x] /\ Child(t, x, 1) = t.right[x]
           /\ \A s \in Sides : Child(t, x, s) \in Keys \cup {NULL}
           /\ t.parent[x] \in Keys \cup {NULL} /\ t.balance[x] \in Int
BY DEF Child, Trees, Pointers, Sides

\* A node is below itself and not below its children.
LEMMA BelowSelf ==
    ASSUME NEW t, NEW C, NEW f, Shape(t, C, f), NEW x \in C
    PROVE  /\ x \in f[x] /\ f[x] \subseteq C /\ x \in Int /\ x # NULL
           /\ \A s \in Sides : /\ f[Child(t, x, s)] \subseteq f[x]
                               /\ x \notin f[Child(t, x, s)]
                               /\ Child(t, x, s) # x
           /\ f[Child(t, x, 0)] \cap f[Child(t, x, 1)] = {}
<1>1. x \in Int /\ x # NULL /\ Linked(t, C, f, x) /\ C \subseteq Int
  BY KeysAssumption DEF Shape
<1>2. x \in f[x] /\ f[x] \subseteq C /\ \A s \in Sides : f[Child(t, x, s)] \subseteq f[x]
  BY <1>1 DEF Linked, Sides
<1>3. ASSUME NEW s \in Sides PROVE x \notin f[Child(t, x, s)]
  BY <1>1 DEF Linked, Before
<1>4. ASSUME NEW s \in Sides, Child(t, x, s) = x PROVE FALSE
  BY <1>2, <1>3, <1>4
<1>5. ASSUME NEW y \in f[Child(t, x, 0)], y \in f[Child(t, x, 1)] PROVE FALSE
  <2>1. Before(0, y, x) /\ Before(1, y, x)
    BY <1>1, <1>5 DEF Linked, Sides
  <2>2. y \in Int
    BY <1>1, <1>2, <1>5 DEF Sides
  <2> QED
    BY <1>1, <2>1, <2>2 DEF Before
<1> QED
  BY <1>1, <1>2, <1>3, <1>4, <1>5

LEMMA ForestIs ==
    ASSUME NEW t, NEW C, NEW f, Shape(t, C, f)
    PROVE  Forest(C, f, t.left, t.right)
<1>1. IsFiniteSet(C) /\ f[NULL] = {}
  BY DEF Shape
<1>2. ASSUME NEW x \in C
      PROVE  /\ f[x] \subseteq C /\ f[x] = {x} \cup f[t.left[x]] \cup f[t.right[x]]
             /\ x \notin f[t.left[x]] /\ x \notin f[t.right[x]]
             /\ t.left[x] \in C \cup {NULL} /\ t.right[x] \in C \cup {NULL}
  <2>1. Linked(t, C, f, x) /\ Child(t, x, 0) = t.left[x] /\ Child(t, x, 1) = t.right[x]
    BY ChildIs DEF Shape
  <2>2. x \notin f[Child(t, x, 0)] /\ x \notin f[Child(t, x, 1)]
    BY BelowSelf DEF Sides
  <2> QED
    BY <2>1, <2>2 DEF Linked, Sides
<1> QED
  BY <1>1, <1>2 DEF Forest

LEMMA Lowest ==
    ASSUME NEW t, NEW C, NEW f, Shape(t, C, f), NEW S, S \subseteq C, S # {}
    PROVE  \E x \in S : \A s \in Sides : Child(t, x, s) \notin S
<1>1. PICK x \in S : t.left[x] \notin S /\ t.right[x] \notin S
  BY ForestIs, ForestLowest
<1> QED
  BY <1>1 DEF Child

LEMMA BelowTransitive ==
    ASSUME NEW t, NEW C, NEW f, Shape(t, C, f), NEW w \in C, NEW z \in f[w]
    PROVE  z \in C /\ f[z] \subseteq f[w]
BY ForestIs, ForestBelow

\* A node below another one has its parent below it too, and is its child.
LEMMA ParentBelow ==
    ASSUME NEW t, NEW C, NEW f, Shape(t, C, f), NEW w \in C, NEW y \in f[w], y # w
    PROVE  /\ y \in C /\ t.parent[y] \in f[w] /\ t.parent[y] \in C
           /\ \E s \in Sides : Child(t, t.parent[y], s) = y
           /\ y # t.root
<1>1. PICK p \in f[w] : y = t.left[p] \/ y = t.right[p]
  BY ForestIs, ForestChild
<1>2. y \in C /\ p \in C /\ y # NULL
  BY BelowSelf
<1>3. PICK s \in Sides : Child(t, p, s) = y
  BY <1>1, <1>2 DEF Child, Sides
<1>4. t.parent[y] = p
  BY <1>2, <1>3 DEF Shape, Linked
<1>5. y # t.root
  BY <1>2, <1>4, BelowSelf DEF Shape
<1> QED
  BY <1>2, <1>3, <1>4, <1>5

\* Every node but the root is a child of its parent.
LEMMA ParentIs ==
    ASSUME NEW t, NEW C, NEW f, Shape(t, C, f), NEW y \in C, y # t.root
    PROVE  /\ t.parent[y] \in C /\ t.parent[y] # y
           /\ \E s \in Sides : Child(t, t.parent[y], s) = y /\ Child(t, t.parent[y], 1 - s) # y
<1>1. t.root \in C /\ y \in f[t.root]
  BY DEF Shape
<1>2. t.parent[y] \in C /\ \E s \in Sides : Child(t, t.parent[y], s) = y
  BY <1>1, ParentBelow
<1>3. PICK s \in Sides : Child(t, t.parent[y], s) = y
  BY <1>2
<1>4. y \in f[y] /\ t.parent[y] # y
  BY <1>2, <1>3, BelowSelf
<1>5. Child(t, t.parent[y], 1 - s) # y
  BY <1>2, <1>3, <1>4, BelowSelf DEF Sides
<1> QED
  BY <1>2, <1>3, <1>4, <1>5

-----------------------------------------------------------------------------
(***************************************************************************)
(* BelowIn and HeightIn are what a tree's own f and H are.                 *)
(***************************************************************************)
LEMMA BelowInIs ==
    ASSUME NEW t, NEW C, NEW f, Shape(t, C, f), Whole(t, C)
    PROVE  \A x \in C \cup {NULL} : BelowIn(t)[x] = f[x]
<1> DEFINE B(g) == [x \in Keys \cup {NULL} |->
                       IF x = NULL THEN {} ELSE {x} \cup g[t.left[x]] \cup g[t.right[x]]]
           b == CHOOSE g : g = B(g)
           e == [x \in Keys \cup {NULL} |-> IF x \in C \cup {NULL} THEN f[x] ELSE {x}]
<1>1. NULL \notin Keys /\ C \subseteq Keys /\ f[NULL] = {}
  BY KeysAssumption DEF Shape
<1>2. ASSUME NEW x \in C
      PROVE  /\ t.left[x] \in C \cup {NULL} /\ t.right[x] \in C \cup {NULL}
             /\ f[x] = {x} \cup f[t.left[x]] \cup f[t.right[x]]
  <2>1. Linked(t, C, f, x) /\ Child(t, x, 0) = t.left[x] /\ Child(t, x, 1) = t.right[x]
    BY <1>1, ChildIs DEF Shape
  <2> QED
    BY <2>1 DEF Linked, Sides
<1>3. e = B(e)
  <2>1. ASSUME NEW x \in Keys \cup {NULL} PROVE e[x] = B(e)[x]
    <3>1. CASE x = NULL
      BY <1>1, <3>1
    <3>2. CASE x \in C
      BY <1>1, <1>2, <3>2
    <3>3. CASE x \in Keys \ C
      <4>1. t.left[x] = NULL /\ t.right[x] = NULL
        BY <3>3 DEF Whole
      <4> QED
        BY <1>1, <3>3, <4>1
    <3> QED
      BY <3>1, <3>2, <3>3
  <2> QED
    BY <2>1
<1>4. b = B(b)
  <2> HIDE DEF e
  <2> QED
    BY <1>3, Zenon
<1>5. BelowIn(t) = b
  BY DEF BelowIn
<1> HIDE DEF b
<1>6. b[NULL] = {} /\ \A x \in C : b[x] = {x} \cup b[t.left[x]] \cup b[t.right[x]]
  BY <1>1, <1>4
<1> DEFINE S == {x \in C : b[x] # f[x]}
<1>7. S = {}
  <2>1. SUFFICES ASSUME S # {} PROVE FALSE
    OBVIOUS
  <2>2. PICK x \in S : \A s \in Sides : Child(t, x, s) \notin S
    <3> HIDE DEF S
    <3>1. S \subseteq C
      BY DEF S
    <3> QED
      BY <2>1, <3>1, Lowest
  <2>3. t.left[x] \notin S /\ t.right[x] \notin S
    BY <1>1, <2>2, ChildIs DEF Sides, Shape
  <2> QED
    <3>1. b[t.left[x]] = f[t.left[x]] /\ b[t.right[x]] = f[t.right[x]]
      BY <1>1, <1>2, <1>6, <2>2, <2>3
    <3>2. x \in C /\ b[x] # f[x]
      BY <2>2
    <3> HIDE DEF S
    <3>3. b[x] = {x} \cup b[t.left[x]] \cup b[t.right[x]] /\ f[x] = {x} \cup f[t.left[x]] \cup f[t.right[x]]
      BY <1>2, <1>6, <3>2
    <3> QED
      BY <3>1, <3>2, <3>3, Zenon
<1> QED
  BY <1>1, <1>5, <1>6, <1>7

LEMMA HeightInIs ==
    ASSUME NEW t, NEW C, NEW f, NEW H, IsTree(t, C, f, H), Whole(t, C)
    PROVE  \A x \in C \cup {NULL} : HeightIn(t)[x] = H[x]
<1> DEFINE B(g) == [x \in Keys \cup {NULL} |->
                       IF x = NULL THEN 0 ELSE 1 + Higher(g[t.left[x]], g[t.right[x]])]
           b == CHOOSE g : g = B(g)
           e == [x \in Keys \cup {NULL} |-> IF x \in C \cup {NULL} THEN H[x] ELSE 1]
<1>1. NULL \notin Keys /\ C \subseteq Keys /\ H[NULL] = 0 /\ Shape(t, C, f)
  BY KeysAssumption DEF Shape, IsTree
<1>2. ASSUME NEW x \in C
      PROVE  /\ t.left[x] \in C \cup {NULL} /\ t.right[x] \in C \cup {NULL}
             /\ H[x] = 1 + Higher(H[t.left[x]], H[t.right[x]])
  <2>1. Linked(t, C, f, x) /\ Child(t, x, 0) = t.left[x] /\ Child(t, x, 1) = t.right[x]
    BY <1>1, ChildIs DEF Shape
  <2>2. Level(t, H, x)
    BY DEF IsTree
  <2> QED
    BY <2>1, <2>2 DEF Linked, Sides, Level
<1>3. e = B(e)
  <2>1. ASSUME NEW x \in Keys \cup {NULL} PROVE e[x] = B(e)[x]
    <3>1. CASE x = NULL
      BY <1>1, <3>1
    <3>2. CASE x \in C
      BY <1>1, <1>2, <3>2
    <3>3. CASE x \in Keys \ C
      <4>1. t.left[x] = NULL /\ t.right[x] = NULL
        BY <3>3 DEF Whole
      <4> QED
        BY <1>1, <3>3, <4>1 DEF Higher
    <3> QED
      BY <3>1, <3>2, <3>3
  <2> QED
    BY <2>1
<1>4. b = B(b)
  <2> HIDE DEF e
  <2> QED
    BY <1>3, Zenon
<1>5. HeightIn(t) = b
  BY DEF HeightIn
<1> HIDE DEF b
<1>6. b[NULL] = 0 /\ \A x \in C : b[x] = 1 + Higher(b[t.left[x]], b[t.right[x]])
  BY <1>1, <1>4
<1> DEFINE S == {x \in C : b[x] # H[x]}
<1>7. S = {}
  <2>1. SUFFICES ASSUME S # {} PROVE FALSE
    OBVIOUS
  <2>2. PICK x \in S : \A s \in Sides : Child(t, x, s) \notin S
    <3> HIDE DEF S
    <3>1. S \subseteq C
      BY DEF S
    <3> QED
      BY <1>1, <2>1, <3>1, Lowest
  <2>3. t.left[x] \notin S /\ t.right[x] \notin S
    BY <1>1, <2>2, ChildIs DEF Sides, Shape
  <2> QED
    <3>1. b[t.left[x]] = H[t.left[x]] /\ b[t.right[x]] = H[t.right[x]]
      BY <1>1, <1>2, <1>6, <2>2, <2>3
    <3>2. x \in C /\ b[x] # H[x]
      BY <2>2
    <3> HIDE DEF S
    <3>3. b[x] = 1 + Higher(b[t.left[x]], b[t.right[x]]) /\ H[x] = 1 + Higher(H[t.left[x]], H[t.right[x]])
      BY <1>2, <1>6, <3>2
    <3> QED
      BY <3>1, <3>2, <3>3, Zenon
<1> QED
  BY <1>1, <1>5, <1>6, <1>7

\* A tree that has some f and H satisfies the invariant, and its contents
\* are its nodes.
LEMMA TreeIs ==
    ASSUME NEW t, NEW C, NEW f, NEW H, IsTree(t, C, f, H), Whole(t, C)
    PROVE  /\ BelowIn(t)[t.root] = C
           /\ IsTree(t, C, BelowIn(t), HeightIn(t))
<1> DEFINE b == BelowIn(t)
           h == HeightIn(t)
<1>1. Shape(t, C, f) /\ H[NULL] = 0 /\ C \subseteq Keys
  BY DEF IsTree, Shape
<1>2. \A x \in C \cup {NULL} : b[x] = f[x] /\ h[x] = H[x]
  BY <1>1, BelowInIs, HeightInIs
<1> HIDE DEF b, h
<1>3. ASSUME NEW x \in C PROVE Linked(t, C, b, x) /\ Level(t, h, x)
  <2>1. Linked(t, C, f, x) /\ Level(t, H, x)
    BY DEF IsTree, Shape
  <2>2. Child(t, x, 0) \in C \cup {NULL} /\ Child(t, x, 1) \in C \cup {NULL}
    BY <2>1 DEF Linked, Sides
  <2>3. Child(t, x, 0) = t.left[x] /\ Child(t, x, 1) = t.right[x]
    BY <1>1, ChildIs DEF Shape
  <2>4. Linked(t, C, b, x)
    BY <1>2, <2>1, <2>2 DEF Linked
  <2>5. Level(t, h, x)
    BY <1>2, <2>1, <2>2, <2>3 DEF Level
  <2> QED
    BY <2>4, <2>5
<1>4. Shape(t, C, b)
  BY <1>1, <1>2, <1>3 DEF Shape
<1>5. b[t.root] = C /\ h[NULL] = 0
  BY <1>1, <1>2, <1>4 DEF Shape
<1> QED
  BY <1>3, <1>4, <1>5 DEF IsTree, b, h

LEMMA InvIsAVL == TreeInv => IsAVLTree
<1> DEFINE C == Contents
           f == BelowIn(tree)
           H == HeightIn(tree)
<1>1. SUFFICES ASSUME TreeInv PROVE IsAVLTree
  OBVIOUS
<1>2. Shape(tree, C, f) /\ (\A x \in C : Level(tree, H, x)) /\ Whole(tree, C) /\ n = Cardinality(C)
  BY <1>1 DEF TreeInv, IsTree
<1>3. tree \in Trees /\ C \subseteq Keys
  BY <1>2 DEF Shape
<1> HIDE DEF C, f, H
<1>4. ASSUME NEW x \in C
      PROVE  /\ \A y \in f[tree.left[x]] : y < x
             /\ \A y \in f[tree.right[x]] : y > x
             /\ tree.left[x] # NULL => tree.parent[tree.left[x]] = x
             /\ tree.right[x] # NULL => tree.parent[tree.right[x]] = x
  <2>1. Linked(tree, C, f, x) /\ Child(tree, x, 0) = tree.left[x] /\ Child(tree, x, 1) = tree.right[x]
    BY <1>2, <1>3, ChildIs DEF Shape
  <2>2. (\A y \in f[tree.left[x]] : Before(0, y, x)) /\ (\A y \in f[tree.right[x]] : Before(1, y, x))
    BY <2>1 DEF Linked, Sides
  <2>3. f[tree.left[x]] \subseteq Int /\ f[tree.right[x]] \subseteq Int /\ x \in Int
    BY <1>2, <1>3, <2>1, BelowSelf, KeysAssumption DEF Sides
  <2>4. (\A y \in f[tree.left[x]] : y < x) /\ \A y \in f[tree.right[x]] : y > x
    BY <2>2, <2>3 DEF Before
  <2> QED
    BY <2>1, <2>4 DEF Linked, Sides
<1>5. AVLTypeOK
  <2>1. \A x \in Keys : tree.balance[x] \in -1 .. 1
    BY <1>2 DEF Level, Whole
  <2>2. tree.balance \in [Keys -> -1 .. 1]
    BY <1>3, <2>1 DEF Trees
  <2> QED
    BY <1>2, <1>3, <2>2 DEF AVLTypeOK, Trees, C
<1>6. Ordered
  BY <1>4 DEF Ordered, Below, C, f
<1>7. ParentsAgree
  <2>1. NULL \notin Keys /\ (tree.root # NULL => tree.parent[tree.root] = NULL)
    BY <1>2, KeysAssumption DEF Shape
  <2> QED
    BY <1>4, <2>1 DEF ParentsAgree, C
<1>8. Balanced
  BY <1>2 DEF Balanced, Level, Height, C, H
<1> QED
  BY <1>5, <1>6, <1>7, <1>8 DEF IsAVLTree

LEMMA InitTree == AVLInit => TreeInv
<1> SUFFICES ASSUME AVLInit PROVE TreeInv
  OBVIOUS
<1> DEFINE e == [x \in Keys \cup {NULL} |-> {}]
           h == [x \in Keys \cup {NULL} |-> 0]
<1>1. tree \in Trees /\ tree.root = NULL
  BY DEF AVLInit, Trees, Pointers
<1>2. Shape(tree, {}, e) /\ IsTree(tree, {}, e, h)
  BY <1>1, FS_EmptySet DEF Shape, IsTree
<1>3. Whole(tree, {})
  BY DEF AVLInit, Whole
<1>4. Contents = {} /\ IsTree(tree, {}, BelowIn(tree), HeightIn(tree))
  <2> HIDE DEF e, h
  <2>1. BelowIn(tree)[tree.root] = {} /\ IsTree(tree, {}, BelowIn(tree), HeightIn(tree))
    BY <1>2, <1>3, TreeIs
  <2> QED
    BY <2>1 DEF Contents, Below
<1>5. n = Cardinality({})
  BY FS_EmptySet DEF AVLInit
<1> QED
  BY <1>3, <1>4, <1>5 DEF TreeInv

-----------------------------------------------------------------------------
(***************************************************************************)
(* Links after an assignment.                                              *)
(***************************************************************************)
\* r is the side on which p is a child, if it has a parent.
IsSide(t, p, r) ==
    t.parent[p] # NULL => r \in Sides /\ Child(t, t.parent[p], r) = p /\ Child(t, t.parent[p], 1 - r) # p

LEMMA RelinkKeeps ==
    ASSUME NEW t, t \in Trees, NEW p \in Keys, NEW q \in Keys \cup {NULL}
    PROVE  /\ Relink(t, p, q) \in Trees
           /\ Relink(t, p, q).parent = t.parent /\ Relink(t, p, q).balance = t.balance
           /\ Relink(t, p, q).root = (IF t.parent[p] = NULL THEN q ELSE t.root)
<1> DEFINE a == t.parent[p]
<1>1. a \in Keys \cup {NULL}
  BY DEF Trees, Pointers
<1>2. CASE a = NULL
  <2>1. Relink(t, p, q) = [t EXCEPT !.root = q]
    BY <1>2 DEF Relink
  <2> QED
    BY <1>2, <2>1 DEF Trees, Pointers
<1>3. CASE a # NULL /\ t.left[a] = p
  <2>1. Relink(t, p, q) = [t EXCEPT !.left[a] = q]
    BY <1>3 DEF Relink, SetChild
  <2> QED
    BY <1>1, <1>3, <2>1 DEF Trees, Pointers
<1>4. CASE a # NULL /\ t.left[a] # p
  <2>1. Relink(t, p, q) = [t EXCEPT !.right[a] = q]
    BY <1>4 DEF Relink, SetChild
  <2> QED
    BY <1>1, <1>4, <2>1 DEF Trees, Pointers
<1> QED
  BY <1>2, <1>3, <1>4

LEMMA RelinkSides ==
    ASSUME NEW t, t \in Trees, NEW p \in Keys, NEW q \in Keys \cup {NULL}
    PROVE  LET u == Relink(t, p, q)
               a == t.parent[p]
           IN /\ u.left = (IF a # NULL /\ t.left[a] = p THEN [t.left EXCEPT ![a] = q] ELSE t.left)
              /\ u.right = (IF a # NULL /\ t.left[a] # p THEN [t.right EXCEPT ![a] = q] ELSE t.right)
<1> DEFINE a == t.parent[p]
<1>1. a \in Keys \cup {NULL}
  BY DEF Trees, Pointers
<1>2. CASE a = NULL
  <2>1. Relink(t, p, q) = [t EXCEPT !.root = q]
    BY <1>2 DEF Relink
  <2> QED
    BY <1>2, <2>1 DEF Trees, Pointers
<1>3. CASE a # NULL /\ t.left[a] = p
  <2>1. Relink(t, p, q) = [t EXCEPT !.left[a] = q]
    BY <1>3 DEF Relink, SetChild
  <2> QED
    BY <1>1, <1>3, <2>1 DEF Trees, Pointers
<1>4. CASE a # NULL /\ t.left[a] # p
  <2>1. Relink(t, p, q) = [t EXCEPT !.right[a] = q]
    BY <1>4 DEF Relink, SetChild
  <2> QED
    BY <1>1, <1>4, <2>1 DEF Trees, Pointers
<1> QED
  BY <1>2, <1>3, <1>4

LEMMA RelinkIs ==
    ASSUME NEW t, t \in Trees, NEW p \in Keys, NEW q \in Keys \cup {NULL}, NEW r, IsSide(t, p, r)
    PROVE  LET u == Relink(t, p, q)
               a == t.parent[p]
           IN /\ u \in Trees /\ u.parent = t.parent /\ u.balance = t.balance
              /\ u.root = IF a = NULL THEN q ELSE t.root
              /\ \A w \in Keys, o \in Sides :
                   Child(u, w, o) = IF w = a /\ o = r THEN q ELSE Child(t, w, o)
<1> DEFINE u == Relink(t, p, q)
           a == t.parent[p]
<1>1. /\ u \in Trees /\ u.parent = t.parent /\ u.balance = t.balance
      /\ u.root = IF a = NULL THEN q ELSE t.root
      /\ u.left = (IF a # NULL /\ t.left[a] = p THEN [t.left EXCEPT ![a] = q] ELSE t.left)
      /\ u.right = (IF a # NULL /\ t.left[a] # p THEN [t.right EXCEPT ![a] = q] ELSE t.right)
  <2>1. /\ u.left = (IF a # NULL /\ t.left[a] = p THEN [t.left EXCEPT ![a] = q] ELSE t.left)
        /\ u.right = (IF a # NULL /\ t.left[a] # p THEN [t.right EXCEPT ![a] = q] ELSE t.right)
    BY RelinkSides
  <2> QED
    BY <2>1, RelinkKeeps
<1>2. a \in Keys \cup {NULL} /\ NULL \notin Keys /\ t.left \in [Keys -> Keys \cup {NULL}]
      /\ t.right \in [Keys -> Keys \cup {NULL}]
  BY KeysAssumption DEF Trees, Pointers
<1> HIDE DEF u
<1>3. ASSUME NEW w \in Keys, NEW o \in Sides
      PROVE  Child(u, w, o) = IF w = a /\ o = r THEN q ELSE Child(t, w, o)
  <2>1. CASE w # a
    BY <1>1, <1>2, <2>1 DEF Child
  <2>2. CASE w = a /\ r = 0
    <3>1. t.left[a] = p /\ a # NULL
      BY <1>2, <2>2 DEF IsSide, Child
    <3> QED
      BY <1>1, <1>2, <2>2, <3>1 DEF Child, Sides
  <2>3. CASE w = a /\ r = 1
    <3>1. t.left[a] # p /\ a # NULL
      BY <1>2, <2>3 DEF IsSide, Child
    <3> QED
      BY <1>1, <1>2, <2>3, <3>1 DEF Child, Sides
  <2> QED
    BY <1>2, <2>1, <2>2, <2>3 DEF IsSide, Sides
<1> QED
  BY <1>1, <1>3 DEF u

Rotate(t, p, s) == IF s = 0 THEN RotateLeft(t, p) ELSE RotateRight(t, p)

\* The fields of t after the rotation of p towards side s.
RotatedFields(t, u, p, s) ==
    LET q == Child(t, p, 1 - s)
        m == Child(t, q, s)
        a == t.parent[p]
        v == Relink(t, p, q)
    IN /\ u \in Trees /\ u.balance = t.balance
       /\ u.root = IF a = NULL THEN q ELSE t.root
       /\ \A w \in Keys : u.parent[w] = IF w = m THEN p ELSE IF w = p THEN q
                                        ELSE IF w = q THEN a ELSE t.parent[w]
       /\ \A w \in Keys, o \in Sides :
            Child(u, w, o) = IF w = q /\ o = s THEN p ELSE IF w = p /\ o = 1 - s THEN m
                             ELSE Child(v, w, o)

LEMMA RotateLeftFields ==
    ASSUME NEW t, t \in Trees, NEW p \in Keys, t.right[p] \in Keys
    PROVE  RotatedFields(t, RotateLeft(t, p), p, 0)
<1> DEFINE q == t.right[p]
           m == t.left[q]
           a == t.parent[p]
           v == Relink(t, p, q)
           up == [v EXCEPT !.parent[q] = a, !.parent[p] = q]
           cut == [up EXCEPT !.right[p] = m]
           moved == SetParent(cut, m, p)
           u == [moved EXCEPT !.left[q] = p]
<1>1. RotateLeft(t, p) = u
  BY DEF RotateLeft
<1>2. q \in Keys /\ m \in Keys \cup {NULL} /\ a \in Keys \cup {NULL} /\ NULL \notin Keys
  BY KeysAssumption DEF Trees, Pointers
<1> HIDE DEF q, m
<1>3. v \in Trees /\ v.parent = t.parent /\ v.balance = t.balance
      /\ v.root = IF a = NULL THEN q ELSE t.root
  <2>1. q \in Keys \cup {NULL}
    BY <1>2
  <2> QED
    BY <2>1, RelinkKeeps
<1> HIDE DEF a, v
<1>4. /\ cut \in Trees /\ cut.balance = v.balance /\ cut.root = v.root /\ cut.left = v.left
      /\ cut.right = [v.right EXCEPT ![p] = m]
      /\ cut.parent = [v.parent EXCEPT ![q] = a, ![p] = q]
  BY <1>2, <1>3 DEF Trees, Pointers
<1> HIDE DEF cut
<1>5. /\ moved \in Trees /\ moved.balance = cut.balance /\ moved.root = cut.root
      /\ moved.left = cut.left /\ moved.right = cut.right
      /\ \A w \in Keys : moved.parent[w] = IF w = m THEN p ELSE cut.parent[w]
  BY <1>2, <1>4 DEF Trees, Pointers, SetParent
<1> HIDE DEF moved
<1>6. /\ u \in Trees /\ u.balance = moved.balance /\ u.root = moved.root
      /\ u.parent = moved.parent /\ u.right = moved.right
      /\ u.left = [moved.left EXCEPT ![q] = p]
  BY <1>2, <1>5 DEF Trees, Pointers
<1> HIDE DEF u
<1>7. \A w \in Keys : u.parent[w] = IF w = m THEN p ELSE IF w = p THEN q
                                    ELSE IF w = q THEN a ELSE t.parent[w]
  <2>1. v.parent \in [Keys -> Keys \cup {NULL}]
    BY <1>3 DEF Trees, Pointers
  <2> QED
    BY <1>2, <1>3, <1>4, <1>5, <1>6, <2>1
<1>8. \A w \in Keys, o \in Sides :
        Child(u, w, o) = IF w = q /\ o = 0 THEN p ELSE IF w = p /\ o = 1 THEN m ELSE Child(v, w, o)
  <2>1. v.left \in [Keys -> Keys \cup {NULL}] /\ v.right \in [Keys -> Keys \cup {NULL}]
    BY <1>3 DEF Trees, Pointers
  <2> QED
    BY <1>2, <1>4, <1>5, <1>6, <2>1 DEF Child, Sides
<1>9. Child(t, p, 1) = q /\ Child(t, q, 0) = m
  BY DEF Child, q, m
<1>10. RotatedFields(t, u, p, 0)
  BY <1>3, <1>4, <1>5, <1>6, <1>7, <1>8, <1>9 DEF RotatedFields, a, v
<1> QED
  BY <1>1, <1>10 DEF u

LEMMA RotateRightFields ==
    ASSUME NEW t, t \in Trees, NEW p \in Keys, t.left[p] \in Keys
    PROVE  RotatedFields(t, RotateRight(t, p), p, 1)
<1> DEFINE q == t.left[p]
           m == t.right[q]
           a == t.parent[p]
           v == Relink(t, p, q)
           up == [v EXCEPT !.parent[q] = a, !.parent[p] = q]
           cut == [up EXCEPT !.left[p] = m]
           moved == SetParent(cut, m, p)
           u == [moved EXCEPT !.right[q] = p]
<1>1. RotateRight(t, p) = u
  BY DEF RotateRight
<1>2. q \in Keys /\ m \in Keys \cup {NULL} /\ a \in Keys \cup {NULL} /\ NULL \notin Keys
  BY KeysAssumption DEF Trees, Pointers
<1> HIDE DEF q, m
<1>3. v \in Trees /\ v.parent = t.parent /\ v.balance = t.balance
      /\ v.root = IF a = NULL THEN q ELSE t.root
  <2>1. q \in Keys \cup {NULL}
    BY <1>2
  <2> QED
    BY <2>1, RelinkKeeps
<1> HIDE DEF a, v
<1>4. /\ cut \in Trees /\ cut.balance = v.balance /\ cut.root = v.root /\ cut.right = v.right
      /\ cut.left = [v.left EXCEPT ![p] = m]
      /\ cut.parent = [v.parent EXCEPT ![q] = a, ![p] = q]
  BY <1>2, <1>3 DEF Trees, Pointers
<1> HIDE DEF cut
<1>5. /\ moved \in Trees /\ moved.balance = cut.balance /\ moved.root = cut.root
      /\ moved.right = cut.right /\ moved.left = cut.left
      /\ \A w \in Keys : moved.parent[w] = IF w = m THEN p ELSE cut.parent[w]
  BY <1>2, <1>4 DEF Trees, Pointers, SetParent
<1> HIDE DEF moved
<1>6. /\ u \in Trees /\ u.balance = moved.balance /\ u.root = moved.root
      /\ u.parent = moved.parent /\ u.left = moved.left
      /\ u.right = [moved.right EXCEPT ![q] = p]
  BY <1>2, <1>5 DEF Trees, Pointers
<1> HIDE DEF u
<1>7. \A w \in Keys : u.parent[w] = IF w = m THEN p ELSE IF w = p THEN q
                                    ELSE IF w = q THEN a ELSE t.parent[w]
  <2>1. v.parent \in [Keys -> Keys \cup {NULL}]
    BY <1>3 DEF Trees, Pointers
  <2> QED
    BY <1>2, <1>3, <1>4, <1>5, <1>6, <2>1
<1>8. \A w \in Keys, o \in Sides :
        Child(u, w, o) = IF w = q /\ o = 1 THEN p ELSE IF w = p /\ o = 0 THEN m ELSE Child(v, w, o)
  <2>1. v.right \in [Keys -> Keys \cup {NULL}] /\ v.left \in [Keys -> Keys \cup {NULL}]
    BY <1>3 DEF Trees, Pointers
  <2> QED
    BY <1>2, <1>4, <1>5, <1>6, <2>1 DEF Child, Sides
<1>9. Child(t, p, 0) = q /\ Child(t, q, 1) = m
  BY DEF Child, q, m
<1>10. RotatedFields(t, u, p, 1)
  BY <1>3, <1>4, <1>5, <1>6, <1>7, <1>8, <1>9 DEF RotatedFields, a, v
<1> QED
  BY <1>1, <1>10 DEF u

\* The fields of t after the rotation of p, a child on side r, towards side s.
Rotated(t, u, p, s, r) ==
    LET q == Child(t, p, 1 - s)
        m == Child(t, q, s)
        a == t.parent[p]
    IN /\ u \in Trees /\ u.balance = t.balance
       /\ u.root = (IF a = NULL THEN q ELSE t.root)
       /\ \A w \in Keys : u.parent[w] = IF w = m THEN p ELSE IF w = p THEN q
                                        ELSE IF w = q THEN a ELSE t.parent[w]
       /\ \A w \in Keys, o \in Sides :
            Child(u, w, o) = IF w = q /\ o = s THEN p ELSE IF w = p /\ o = 1 - s THEN m
                             ELSE IF w = a /\ o = r THEN q ELSE Child(t, w, o)

LEMMA RotateIs ==
    ASSUME NEW t, t \in Trees, NEW p \in Keys, NEW s \in Sides, Child(t, p, 1 - s) \in Keys,
           NEW r, IsSide(t, p, r)
    PROVE  Rotated(t, Rotate(t, p, s), p, s, r)
<1> DEFINE q == Child(t, p, 1 - s)
           u == Rotate(t, p, s)
           v == Relink(t, p, q)
<1>1. RotatedFields(t, u, p, s)
  <2>1. CASE s = 0
    <3>1. t.right[p] \in Keys
      BY <2>1 DEF Child
    <3>2. RotatedFields(t, RotateLeft(t, p), p, 0)
      BY <3>1, RotateLeftFields
    <3> QED
      BY <2>1, <3>2 DEF Rotate
  <2>2. CASE s = 1
    <3>1. t.left[p] \in Keys
      BY <2>2 DEF Child
    <3>2. RotatedFields(t, RotateRight(t, p), p, 1)
      BY <3>1, RotateRightFields
    <3> QED
      BY <2>2, <3>2 DEF Rotate
  <2> QED
    BY <2>1, <2>2 DEF Sides
<1>2. \A w \in Keys, o \in Sides : Child(v, w, o) = IF w = t.parent[p] /\ o = r THEN q ELSE Child(t, w, o)
  <2>1. q \in Keys \cup {NULL}
    OBVIOUS
  <2> HIDE DEF q
  <2> QED
    BY <2>1, RelinkIs
<1> HIDE DEF u
<1>3. Rotated(t, u, p, s, r)
  BY <1>1, <1>2 DEF RotatedFields, Rotated
<1> QED
  BY <1>3 DEF u

LEMMA SideOf ==
    ASSUME NEW t, NEW C, NEW f, Shape(t, C, f), NEW p \in C
    PROVE  /\ \E r : IsSide(t, p, r)
           /\ p \in Keys
           /\ t.parent[p] = NULL <=> p = t.root
           /\ t.parent[p] # NULL => t.parent[p] \in C /\ t.parent[p] \notin f[p]
<1>1. C \subseteq Keys /\ NULL \notin Keys /\ (t.root # NULL => t.parent[t.root] = NULL)
  BY KeysAssumption DEF Shape
<1>2. CASE p = t.root
  BY <1>1, <1>2 DEF IsSide
<1>3. CASE p # t.root
  <2>1. PICK s \in Sides : Child(t, t.parent[p], s) = p /\ Child(t, t.parent[p], 1 - s) # p
    BY <1>3, ParentIs
  <2>2. t.parent[p] \in C /\ t.parent[p] \notin f[p]
    BY <1>3, <2>1, ParentIs, BelowSelf
  <2> QED
    BY <1>1, <1>3, <2>1, <2>2 DEF IsSide
<1> QED
  BY <1>2, <1>3

\* A node is the child of one node on one side.
LEMMA OnlyChild ==
    ASSUME NEW t, NEW C, NEW f, Shape(t, C, f), NEW w \in C, NEW x \in C, NEW o \in Sides, NEW r \in Sides,
           Child(t, w, o) # NULL, Child(t, w, o) = Child(t, x, r)
    PROVE  w = x /\ o = r /\ t.parent[Child(t, w, o)] = w /\ Child(t, w, o) \in C
<1>1. Child(t, w, o) \in C /\ t.parent[Child(t, w, o)] = w /\ t.parent[Child(t, x, r)] = x
  BY DEF Shape, Linked
<1>2. w = x
  BY <1>1
<1>3. Child(t, w, o) \in f[Child(t, w, o)]
  BY <1>1, BelowSelf
<1>4. o = r
  BY <1>2, <1>3, BelowSelf DEF Sides
<1> QED
  BY <1>1, <1>2, <1>4

\* The nodes below each node after the rotation.
RotatedBelow(t, f, p, s) ==
    LET q == Child(t, p, 1 - s)
    IN [x \in Keys \cup {NULL} |->
           IF x = q THEN f[p]
           ELSE IF x = p THEN {p} \cup f[Child(t, p, s)] \cup f[Child(t, q, s)]
           ELSE f[x]]

\* Before is an order.
LEMMA BeforeOrder ==
    ASSUME NEW s \in Sides, NEW x \in Int, NEW y \in Int, NEW z \in Int
    PROVE  /\ Before(s, x, y) /\ Before(s, y, z) => Before(s, x, z)
           /\ Before(s, x, y) <=> Before(1 - s, y, x)
           /\ ~Before(s, x, x)
           /\ 1 - s \in Sides /\ 1 - (1 - s) = s /\ 1 - s # s
BY DEF Before, Sides

LEMMA LinkedBy ==
    ASSUME NEW t, NEW C, NEW f, NEW x, NEW s \in Sides,
           f[x] = {x} \cup f[Child(t, x, s)] \cup f[Child(t, x, 1 - s)],
           f[x] \subseteq C,
           \A o \in {s, 1 - s} :
              /\ Child(t, x, o) \in C \cup {NULL}
              /\ Child(t, x, o) # NULL => t.parent[Child(t, x, o)] = x
              /\ \A y \in f[Child(t, x, o)] : Before(o, y, x)
    PROVE  Linked(t, C, f, x)
<1>1. CASE s = 0
  BY <1>1 DEF Linked, Sides
<1>2. CASE s = 1
  BY <1>2 DEF Linked, Sides
<1> QED
  BY <1>1, <1>2 DEF Sides

\* The nodes around a rotation.
LEMMA Around ==
    ASSUME NEW t, NEW C, NEW f, Shape(t, C, f), NEW p \in C, NEW s \in Sides, NEW r, IsSide(t, p, r),
           NEW q \in C, q = Child(t, p, 1 - s)
    PROVE  LET m == Child(t, q, s)
               a == t.parent[p]
           IN /\ 1 - s \in Sides /\ 1 - s # s /\ NULL \notin C
              /\ a \in C \cup {NULL} /\ m \in C \cup {NULL}
              /\ p # q /\ m # p /\ m # q /\ a # p /\ a # q /\ (a # NULL => a # m)
              /\ a # NULL => r \in Sides /\ Child(t, a, r) = p
              /\ t.parent[q] = p /\ (m # NULL => t.parent[m] = q)
              /\ q \in f[p] /\ f[q] \subseteq f[p] /\ (m # NULL => m \in f[q]) /\ f[m] \subseteq f[q]
<1> DEFINE m == Child(t, q, s)
           a == t.parent[p]
<1>1. 1 - s \in Sides /\ 1 - s # s /\ NULL \notin C /\ (a # NULL => r \in Sides /\ Child(t, a, r) = p)
  <2>1. NULL \notin C
    BY KeysAssumption DEF Shape
  <2>2. 1 - s \in Sides /\ 1 - s # s
    BY DEF Sides
  <2> QED
    BY <2>1, <2>2 DEF IsSide
<1>2. a \in C \cup {NULL} /\ a \notin f[p]
  <2>1. NULL \notin f[p]
    BY <1>1, BelowSelf
  <2> QED
    BY <2>1, SideOf
<1>3. m \in C \cup {NULL} /\ t.parent[q] = p /\ (m # NULL => t.parent[m] = q)
  BY <1>1 DEF Shape, Linked
<1>4. p # q /\ q \in f[q] /\ f[q] \subseteq f[p] /\ p \in f[p]
  BY <1>1, BelowSelf
<1>5. m # q /\ f[m] \subseteq f[q] /\ p \notin f[q]
  BY <1>1, BelowSelf
<1>6. m # NULL => m \in f[m]
  BY <1>3, BelowSelf
<1>7. m # p
  BY <1>1, <1>4, <1>5, <1>6
<1> QED
  BY <1>1, <1>2, <1>3, <1>4, <1>5, <1>6, <1>7

LEMMA RotateShape ==
    ASSUME NEW t, NEW C, NEW f, Shape(t, C, f), NEW p \in C, NEW s \in Sides, NEW r, IsSide(t, p, r),
           NEW q \in C, q = Child(t, p, 1 - s), NEW u, Rotated(t, u, p, s, r)
    PROVE  Shape(u, C, RotatedBelow(t, f, p, s))
<1> DEFINE g == RotatedBelow(t, f, p, s)
           m == Child(t, q, s)
           a == t.parent[p]
           c == Child(t, p, s)
           d == Child(t, q, 1 - s)
<1>1. /\ 1 - s \in Sides /\ 1 - s # s /\ NULL \notin C
      /\ a \in C \cup {NULL} /\ m \in C \cup {NULL}
      /\ p # q /\ m # p /\ m # q /\ a # p /\ a # q /\ (a # NULL => a # m)
      /\ a # NULL => r \in Sides /\ Child(t, a, r) = p
      /\ t.parent[q] = p /\ (m # NULL => t.parent[m] = q)
      /\ q \in f[p] /\ f[q] \subseteq f[p] /\ (m # NULL => m \in f[q]) /\ f[m] \subseteq f[q]
  BY Around
<1>2. /\ u \in Trees /\ u.root = (IF a = NULL THEN q ELSE t.root)
      /\ \A w \in C : u.parent[w] = IF w = m THEN p ELSE IF w = p THEN q
                                    ELSE IF w = q THEN a ELSE t.parent[w]
      /\ \A w \in C, o \in Sides :
            Child(u, w, o) = IF w = q /\ o = s THEN p ELSE IF w = p /\ o = 1 - s THEN m
                             ELSE IF w = a /\ o = r THEN q ELSE Child(t, w, o)
  BY DEF Rotated, Shape
<1>3. /\ g[q] = f[p] /\ g[p] = {p} \cup f[c] \cup f[m] /\ g[NULL] = {}
      /\ \A w \in C \cup {NULL} : w # p /\ w # q => g[w] = f[w]
  BY <1>1 DEF RotatedBelow, Shape
<1>4. C \subseteq Int /\ C \subseteq Keys
  BY KeysAssumption DEF Shape
<1>5. \A w \in C : Linked(t, C, f, w)
  BY DEF Shape
<1> HIDE DEF g, m, a
<1>6. ASSUME NEW w \in C, NEW o \in Sides, NEW y \in C, y = Child(t, w, o)
      PROVE  /\ y = p => w = a /\ o = r
             /\ y = q => w = p /\ o = 1 - s
             /\ y = m => w = q /\ o = s
             /\ t.parent[y] = w /\ f[y] \subseteq f[w]
  <2>1. y # NULL
    BY <1>1
  <2>2. t.parent[y] = w /\ f[y] \subseteq f[w]
    BY <1>6, <2>1, OnlyChild, BelowSelf
  <2>3. ASSUME y = q PROVE w = p /\ o = 1 - s
    <3>1. Child(t, w, o) = Child(t, p, 1 - s) /\ Child(t, w, o) # NULL
      BY <1>6, <2>1, <2>3
    <3> QED
      BY <1>1, <3>1, OnlyChild
  <2>4. ASSUME y = m PROVE w = q /\ o = s
    <3>1. Child(t, w, o) = Child(t, q, s) /\ Child(t, w, o) # NULL
      BY <1>6, <2>1, <2>4 DEF m
    <3> QED
      BY <3>1, OnlyChild
  <2>5. ASSUME y = p PROVE w = a /\ o = r
    <3>1. a = w /\ w # NULL
      BY <1>1, <2>2, <2>5 DEF a
    <3>2. r \in Sides /\ Child(t, w, o) = Child(t, w, r) /\ Child(t, w, o) # NULL
      BY <1>1, <1>6, <2>1, <2>5, <3>1
    <3> QED
      BY <3>1, <3>2, OnlyChild
  <2> QED
    BY <2>2, <2>3, <2>4, <2>5
<1>7. ASSUME NEW w \in C, w # p, w # q, w # a PROVE Linked(u, C, g, w)
  <2>1. \A o \in Sides : Child(u, w, o) = Child(t, w, o)
    BY <1>2, <1>7
  <2>2. ASSUME NEW o \in Sides, Child(t, w, o) # NULL
        PROVE  /\ Child(t, w, o) \in C /\ u.parent[Child(t, w, o)] = w
               /\ Child(t, w, o) # p /\ Child(t, w, o) # q
    <3>1. Child(t, w, o) \in C
      BY <1>5, <2>2 DEF Linked
    <3>2. Child(t, w, o) # p /\ Child(t, w, o) # q /\ Child(t, w, o) # m /\ t.parent[Child(t, w, o)] = w
      BY <1>6, <1>7, <3>1
    <3> QED
      BY <1>2, <3>1, <3>2
  <2>3. \A o \in Sides : g[Child(t, w, o)] = f[Child(t, w, o)]
    BY <1>1, <1>3, <1>5, <2>2 DEF Linked
  <2>4. g[w] = f[w]
    BY <1>3, <1>7
  <2> QED
    BY <1>5, <2>1, <2>2, <2>3, <2>4 DEF Linked, Sides
<1>8. ASSUME a # NULL PROVE Linked(u, C, g, a)
  <2> DEFINE e == Child(t, a, 1 - r)
  <2>1. a \in C /\ r \in Sides /\ 1 - r \in Sides /\ r # 1 - r
    BY <1>1, <1>8 DEF Sides
  <2>2. Child(u, a, r) = q /\ Child(u, a, 1 - r) = e
    BY <1>1, <1>2, <2>1
  <2>3. e \in C \cup {NULL} /\ (\A y \in f[e] : Before(1 - r, y, a)) /\ \A y \in f[p] : Before(r, y, a)
    BY <1>1, <1>5, <1>8, <2>1 DEF Linked
  <2>4. e # NULL => e # p /\ e # q /\ e # m /\ t.parent[e] = a
    BY <1>1, <1>6, <2>1, <2>3
  <2>5. g[e] = f[e] /\ g[a] = f[a] /\ g[q] = f[p] /\ p # NULL /\ q # NULL
    BY <1>1, <1>3, <2>1, <2>3, <2>4
  <2>6. u.parent[q] = a /\ (e # NULL => u.parent[e] = a)
    BY <1>1, <1>2, <2>3, <2>4
  <2>7. f[a] = {a} \cup f[p] \cup f[e] /\ f[a] \subseteq C
    BY <1>1, <1>5, <1>8, <2>1 DEF Linked, Sides
  <2> HIDE DEF e
  <2>8. ASSUME NEW o \in {r, 1 - r}
        PROVE  /\ Child(u, a, o) \in C \cup {NULL}
               /\ Child(u, a, o) # NULL => u.parent[Child(u, a, o)] = a
               /\ \A y \in g[Child(u, a, o)] : Before(o, y, a)
    BY <2>2, <2>3, <2>5, <2>6
  <2>9. g[a] = {a} \cup g[Child(u, a, r)] \cup g[Child(u, a, 1 - r)] /\ g[a] \subseteq C
    BY <2>2, <2>5, <2>7
  <2> QED
    BY <2>1, <2>8, <2>9, LinkedBy
<1>9. /\ c \in C \cup {NULL} /\ d \in C \cup {NULL}
      /\ \A y \in f[c] : Before(s, y, p)
      /\ \A y \in f[q] : Before(1 - s, y, p)
      /\ \A y \in f[m] : Before(s, y, q)
      /\ \A y \in f[d] : Before(1 - s, y, q)
      /\ f[p] = {p} \cup f[c] \cup f[q] /\ f[q] = {q} \cup f[m] \cup f[d]
      /\ f[p] \subseteq C
  BY <1>1, <1>5 DEF Linked, Sides, m
<1>10. /\ c # NULL => c # p /\ c # q /\ c # m /\ t.parent[c] = p
       /\ d # NULL => d # p /\ d # q /\ d # m /\ t.parent[d] = q
  BY <1>1, <1>6, <1>9
<1> HIDE DEF c, d
<1>11. Linked(u, C, g, p)
  <2>1. Child(u, p, s) = c /\ Child(u, p, 1 - s) = m
    BY <1>1, <1>2 DEF c
  <2>2. g[c] = f[c] /\ g[m] = f[m] /\ g[p] = {p} \cup f[c] \cup f[m] /\ g[p] \subseteq C
    BY <1>1, <1>3, <1>9, <1>10
  <2>3. (m # NULL => u.parent[m] = p) /\ (c # NULL => u.parent[c] = p)
    BY <1>1, <1>2, <1>9, <1>10
  <2>4. \A y \in f[m] : Before(1 - s, y, p)
    BY <1>1, <1>9
  <2> QED
    BY <1>1, <1>9, <2>1, <2>2, <2>3, <2>4, LinkedBy
<1>12. Linked(u, C, g, q)
  <2>1. Child(u, q, s) = p /\ Child(u, q, 1 - s) = d
    BY <1>1, <1>2 DEF d
  <2>2. g[d] = f[d] /\ g[p] = {p} \cup f[c] \cup f[m] /\ g[q] = f[p]
    BY <1>1, <1>3, <1>9, <1>10
  <2>3. u.parent[p] = q /\ (d # NULL => u.parent[d] = q)
    BY <1>1, <1>2, <1>9, <1>10
  <2>4. g[q] = {q} \cup g[p] \cup g[d]
    BY <1>9, <2>2
  <2>5. ASSUME NEW y \in g[p] PROVE Before(s, y, q)
    <3>1. y \in Int /\ p \in Int /\ q \in Int
      BY <1>1, <1>4, <1>9, <2>2
    <3>2. Before(1 - s, q, p)
      BY <1>1, <1>9
    <3>3. Before(s, p, q)
      BY <1>1, <3>1, <3>2, BeforeOrder
    <3>4. CASE y \in f[c]
      BY <1>9, <3>1, <3>3, <3>4, BeforeOrder
    <3> QED
      BY <1>9, <2>2, <3>3, <3>4
  <2> QED
    BY <1>1, <1>9, <2>1, <2>2, <2>3, <2>4, <2>5, LinkedBy
<1>13. u.root \in C \cup {NULL} /\ g[u.root] = C /\ (u.root # NULL => u.parent[u.root] = NULL)
  <2>1. CASE a = NULL
    <3>1. p = t.root
      BY <2>1, SideOf DEF a
    <3> QED
      BY <1>1, <1>2, <1>3, <2>1, <3>1 DEF Shape
  <2>2. CASE a # NULL
    <3>1. t.root \in C /\ t.parent[t.root] = NULL /\ f[t.root] = C
      BY DEF Shape
    <3>2. t.root # p /\ t.root # q /\ t.root # m
      BY <1>1, <2>2, <3>1 DEF a
    <3> QED
      BY <1>1, <1>2, <1>3, <2>2, <3>1, <3>2
  <2> QED
    BY <2>1, <2>2
<1>14. ASSUME NEW w \in C PROVE Linked(u, C, g, w)
  BY <1>1, <1>7, <1>8, <1>11, <1>12
<1> QED
  BY <1>2, <1>3, <1>4, <1>13, <1>14 DEF Shape, g

-----------------------------------------------------------------------------
(***************************************************************************)
(* Heights around a rotation.                                              *)
(***************************************************************************)
\* How much higher the subtree on side s of x is than the other, as stored.
Tilt(t, x, s) == IF s = 0 THEN 0 - t.balance[x] ELSE t.balance[x]

\* Height h and tilt b of a node with subtrees of heights i, on the side of
\* the tilt, and j.
Fits(h, b, i, j) == i \in Nat /\ j \in Nat /\ b = i - j /\ b \in -1 .. 1 /\ h = 1 + Higher(i, j)

LEMMA LevelIs ==
    ASSUME NEW t, t \in Trees, NEW x \in Keys, NEW s \in Sides, NEW H
    PROVE  Level(t, H, x) <=> Fits(H[x], Tilt(t, x, s), H[Child(t, x, s)], H[Child(t, x, 1 - s)])
<1> DEFINE i == H[t.left[x]]
           j == H[t.right[x]]
           b == t.balance[x]
<1>1. b \in Int
  BY DEF Trees
<1>2. CASE s = 0
  <2>1. Child(t, x, s) = t.left[x] /\ Child(t, x, 1 - s) = t.right[x] /\ Tilt(t, x, s) = 0 - b
    BY <1>2 DEF Child, Tilt
  <2> HIDE DEF i, j, b
  <2>2. (i \in Nat /\ j \in Nat /\ b = j - i /\ b \in -1 .. 1 /\ H[x] = 1 + Higher(i, j))
        <=> Fits(H[x], 0 - b, i, j)
    BY <1>1 DEF Fits
  <2> QED
    BY <2>1, <2>2 DEF Level, i, j, b
<1>3. CASE s = 1
  <2>1. Child(t, x, s) = t.right[x] /\ Child(t, x, 1 - s) = t.left[x] /\ Tilt(t, x, s) = b
    BY <1>3 DEF Child, Tilt
  <2> HIDE DEF i, j, b
  <2>2. (i \in Nat /\ j \in Nat /\ b = j - i /\ b \in -1 .. 1 /\ H[x] = 1 + Higher(i, j))
        <=> Fits(H[x], b, j, i)
    BY <1>1 DEF Fits, Higher
  <2> QED
    BY <2>1, <2>2 DEF Level, i, j, b
<1> QED
  BY <1>2, <1>3 DEF Sides

\* A node whose links and balance stay, and whose children keep their
\* heights, stays level.
LEMMA LevelStays ==
    ASSUME NEW t, t \in Trees, NEW u, u \in Trees, NEW x \in Keys, NEW H, NEW G, Level(t, H, x),
           \A o \in Sides : Child(u, x, o) = Child(t, x, o) /\ G[Child(t, x, o)] = H[Child(t, x, o)],
           u.balance[x] = t.balance[x], G[x] = H[x]
    PROVE  Level(u, G, x)
<1>1. Child(t, x, 0) = t.left[x] /\ Child(t, x, 1) = t.right[x]
      /\ Child(u, x, 0) = u.left[x] /\ Child(u, x, 1) = u.right[x]
  BY DEF Child
<1>2. u.left[x] = t.left[x] /\ u.right[x] = t.right[x] /\ G[t.left[x]] = H[t.left[x]]
      /\ G[t.right[x]] = H[t.right[x]]
  BY <1>1 DEF Sides
<1> QED
  BY <1>2 DEF Level

\* What a rotation of p leaves of the heights H, and what has to be so of the
\* new heights G of p and of q, which takes its place.
LEMMA RotateLevel ==
    ASSUME NEW t, NEW C, NEW f, Shape(t, C, f), NEW p \in C, NEW s \in Sides, NEW r, IsSide(t, p, r),
           NEW q \in C, q = Child(t, p, 1 - s), NEW u, Rotated(t, u, p, s, r),
           NEW H, NEW G, \A w \in C \cup {NULL} : w # p /\ w # q => G[w] = H[w]
    PROVE  LET c == Child(t, p, s)
               m == Child(t, q, s)
               d == Child(t, q, 1 - s)
               a == t.parent[p]
           IN /\ \A w \in C : w # p /\ w # q /\ w # a /\ Level(t, H, w) => Level(u, G, w)
              /\ Fits(G[p], Tilt(t, p, s), H[c], H[m]) => Level(u, G, p)
              /\ Fits(G[q], Tilt(t, q, s), G[p], H[d]) => Level(u, G, q)
              /\ a # NULL => /\ a \in C /\ r \in Sides /\ Child(t, a, r) = p
                             /\ Child(u, a, r) = q /\ Child(u, a, 1 - r) = Child(t, a, 1 - r)
                             /\ G[a] = H[a] /\ G[Child(t, a, 1 - r)] = H[Child(t, a, 1 - r)]
              /\ u.parent[q] = a
<1> DEFINE m == Child(t, q, s)
           a == t.parent[p]
           c == Child(t, p, s)
           d == Child(t, q, 1 - s)
<1>1. /\ 1 - s \in Sides /\ 1 - s # s /\ NULL \notin C
      /\ a \in C \cup {NULL} /\ m \in C \cup {NULL}
      /\ p # q /\ m # p /\ m # q /\ a # p /\ a # q
      /\ a # NULL => r \in Sides /\ Child(t, a, r) = p
      /\ t.parent[q] = p
  BY Around
<1>2. /\ u \in Trees /\ t \in Trees /\ C \subseteq Keys /\ u.balance = t.balance
      /\ u.parent[q] = a
      /\ \A w \in C, o \in Sides :
            Child(u, w, o) = IF w = q /\ o = s THEN p ELSE IF w = p /\ o = 1 - s THEN m
                             ELSE IF w = a /\ o = r THEN q ELSE Child(t, w, o)
  <2>1. C \subseteq Keys /\ t \in Trees
    BY DEF Shape
  <2>2. \A w \in Keys : u.parent[w] = IF w = m THEN p ELSE IF w = p THEN q
                                      ELSE IF w = q THEN a ELSE t.parent[w]
    BY DEF Rotated
  <2>3. u.parent[q] = a
    BY <1>1, <2>1, <2>2
  <2> QED
    BY <2>1, <2>3 DEF Rotated
<1>3. \A w \in C, o \in Sides : Child(t, w, o) \in C \cup {NULL}
                                /\ (Child(t, w, o) # NULL => t.parent[Child(t, w, o)] = w)
  BY DEF Shape, Linked
<1>4. q # NULL /\ p # NULL
  BY <1>1
<1> HIDE DEF m, a, c, d
<1>5. ASSUME NEW w \in C, w # p, w # q, w # a, Level(t, H, w) PROVE Level(u, G, w)
  <2>1. \A o \in Sides : Child(t, w, o) # q /\ Child(t, w, o) # p
    BY <1>1, <1>3, <1>4, <1>5 DEF a
  <2>2. \A o \in Sides : Child(u, w, o) = Child(t, w, o) /\ G[Child(t, w, o)] = H[Child(t, w, o)]
    BY <1>2, <1>3, <1>5, <2>1
  <2> QED
    BY <1>2, <1>5, <2>2, LevelStays
<1>6. c \in C \cup {NULL} /\ c # p /\ c # q /\ d \in C \cup {NULL} /\ d # p /\ d # q
  <2>1. c \in C \cup {NULL} /\ d \in C \cup {NULL} /\ (c # NULL => t.parent[c] = p) /\ (d # NULL => t.parent[d] = q)
    BY <1>1, <1>3 DEF c, d
  <2>2. c # p /\ d # q
    BY <1>1, BelowSelf DEF c, d
  <2>3. c # q
    <3>1. SUFFICES ASSUME c = q PROVE FALSE
      OBVIOUS
    <3>2. Child(t, p, s) = Child(t, p, 1 - s) /\ Child(t, p, s) # NULL
      BY <1>4, <3>1 DEF c
    <3> QED
      BY <1>1, <3>2, OnlyChild
  <2>4. d # p
    <3>1. d # NULL => d \in f[q] /\ p \notin f[q]
      BY <1>1, <2>1, BelowSelf DEF d
    <3> QED
      BY <1>4, <3>1
  <2> QED
    BY <2>1, <2>2, <2>3, <2>4
<1>7. G[c] = H[c] /\ G[d] = H[d] /\ G[m] = H[m]
  BY <1>1, <1>6
<1>8. ASSUME Fits(G[p], Tilt(t, p, s), H[c], H[m]) PROVE Level(u, G, p)
  <2>1. Child(u, p, s) = c /\ Child(u, p, 1 - s) = m
    BY <1>1, <1>2 DEF c
  <2>2. Tilt(u, p, s) = Tilt(t, p, s)
    BY <1>2 DEF Tilt
  <2> QED
    BY <1>2, <1>7, <1>8, <2>1, <2>2, LevelIs
<1>9. ASSUME Fits(G[q], Tilt(t, q, s), G[p], H[d]) PROVE Level(u, G, q)
  <2>1. Child(u, q, s) = p /\ Child(u, q, 1 - s) = d
    BY <1>1, <1>2 DEF d
  <2>2. Tilt(u, q, s) = Tilt(t, q, s)
    BY <1>2 DEF Tilt
  <2> QED
    BY <1>2, <1>7, <1>9, <2>1, <2>2, LevelIs
<1>10. ASSUME a # NULL
       PROVE  /\ a \in C /\ r \in Sides /\ Child(t, a, r) = p
              /\ Child(u, a, r) = q /\ Child(u, a, 1 - r) = Child(t, a, 1 - r)
              /\ G[a] = H[a] /\ G[Child(t, a, 1 - r)] = H[Child(t, a, 1 - r)]
  <2>1. a \in C /\ r \in Sides /\ 1 - r \in Sides /\ 1 - r # r /\ Child(t, a, r) = p
    BY <1>1, <1>10 DEF Sides
  <2>2. Child(u, a, r) = q /\ Child(u, a, 1 - r) = Child(t, a, 1 - r)
    BY <1>1, <1>2, <2>1
  <2>3. Child(t, a, 1 - r) # p
    BY <1>4, <2>1, OnlyChild
  <2>4. Child(t, a, 1 - r) # q
    BY <1>1, <1>3, <1>4, <2>1
  <2> QED
    BY <1>1, <1>3, <2>1, <2>2, <2>3, <2>4
<1> QED
  BY <1>2, <1>5, <1>8, <1>9, <1>10 DEF a, c, d, m

-----------------------------------------------------------------------------
(***************************************************************************)
(* Rebalancing: the rotations with the balances that are set before them.  *)
(***************************************************************************)
\* v is t with other balances.
SameLinks(t, v) ==
    /\ v \in Trees
    /\ v.root = t.root /\ v.left = t.left /\ v.right = t.right /\ v.parent = t.parent

\* The links and the balances of what is not in the tree stay.
Untouched(t, u, C) ==
    \A w \in Keys \ C : u.left[w] = t.left[w] /\ u.right[w] = t.right[w] /\ u.balance[w] = t.balance[w]

LEMMA SameShape ==
    ASSUME NEW t, NEW C, NEW f, Shape(t, C, f), NEW v, SameLinks(t, v)
    PROVE  /\ Shape(v, C, f)
           /\ \A x, s : Child(v, x, s) = Child(t, x, s)
           /\ \A p, r : IsSide(t, p, r) => IsSide(v, p, r)
<1>1. \A x, s : Child(v, x, s) = Child(t, x, s)
  BY DEF SameLinks, Child
<1>2. \A x : Linked(t, C, f, x) => Linked(v, C, f, x)
  BY <1>1 DEF SameLinks, Linked
<1>3. Shape(v, C, f)
  BY <1>2 DEF SameLinks, Shape
<1>4. \A p, r : IsSide(t, p, r) => IsSide(v, p, r)
  BY <1>1 DEF SameLinks, IsSide
<1> QED
  BY <1>1, <1>3, <1>4

LEMMA RotateOutside ==
    ASSUME NEW t, NEW C, NEW f, Shape(t, C, f), NEW p \in C, NEW s \in Sides, NEW r, IsSide(t, p, r),
           NEW q \in C, q = Child(t, p, 1 - s), NEW u, Rotated(t, u, p, s, r)
    PROVE  Untouched(t, u, C)
<1>1. ASSUME NEW w \in Keys \ C PROVE \A o \in Sides : Child(u, w, o) = Child(t, w, o)
  <2>1. w # p /\ w # q /\ w # t.parent[p]
    BY <1>1, SideOf, KeysAssumption
  <2> QED
    BY <1>1, <2>1 DEF Rotated
<1>2. u.balance = t.balance
  BY DEF Rotated
<1> QED
  BY <1>1, <1>2 DEF Untouched, Child, Sides

\* The subtree of x, a child on side r, has become u's subtree of a node of
\* height h, all of it level; of the rest only the link to it has changed.
Risen(t, u, C, f, H, x, r, h, g, G, top) ==
    LET a == t.parent[x]
    IN /\ Shape(u, C, g) /\ G[NULL] = 0
       /\ top \in C /\ g[top] = f[x] /\ G[top] = h /\ u.parent[top] = a
       /\ \A w \in C : w # a => Level(u, G, w)
       /\ a # NULL => /\ a \in C /\ r \in Sides /\ Child(t, a, r) = x
                      /\ Child(u, a, r) = top /\ Child(u, a, 1 - r) = Child(t, a, 1 - r)
                      /\ u.balance[a] = t.balance[a]
                      /\ G[a] = H[a] /\ G[Child(t, a, 1 - r)] = H[Child(t, a, 1 - r)]
       /\ Untouched(t, u, C)

Rises(t, u, C, f, H, x, r, h) == \E g, G, top : Risen(t, u, C, f, H, x, r, h, g, G, top)

\* x is two too low on side s; all but x and its parent is level.
Heavy(t, C, f, H, x, s, r, q) ==
    /\ Shape(t, C, f) /\ x \in C /\ s \in Sides /\ IsSide(t, x, r)
    /\ q \in C /\ q = Child(t, x, 1 - s)
    /\ H[NULL] = 0 /\ H[Child(t, x, s)] \in Nat /\ H[q] = H[Child(t, x, s)] + 2
    /\ \A w \in C : w # x /\ w # t.parent[x] => Level(t, H, w)

LEMMA SingleRises ==
    ASSUME NEW t, NEW C, NEW f, NEW H, NEW x, NEW s, NEW r, NEW q, Heavy(t, C, f, H, x, s, r, q),
           NEW e \in {0, 1}, Tilt(t, q, 1 - s) = e,
           NEW v, SameLinks(t, v), \A w \in Keys : w # x /\ w # q => v.balance[w] = t.balance[w],
           Tilt(v, x, s) = e - 1, Tilt(v, q, s) = 1 - e
    PROVE  Rises(t, Rotate(v, x, s), C, f, H, x, r, H[Child(t, x, s)] + 3 - e)
<1> DEFINE u == Rotate(v, x, s)
           c == Child(t, x, s)
           m == Child(t, q, s)
           d == Child(t, q, 1 - s)
           a == t.parent[x]
           h == H[c]
           G == [w \in Keys \cup {NULL} |-> IF w = x THEN h + 2 - e ELSE IF w = q THEN h + 3 - e ELSE H[w]]
           g == RotatedBelow(v, f, x, s)
<1>1. /\ Shape(t, C, f) /\ x \in C /\ s \in Sides /\ IsSide(t, x, r) /\ q \in C /\ q = Child(t, x, 1 - s)
      /\ H[NULL] = 0 /\ h \in Nat /\ H[q] = h + 2
      /\ \A w \in C : w # x /\ w # a => Level(t, H, w)
  BY DEF Heavy
<1>2. Shape(v, C, f) /\ IsSide(v, x, r) /\ \A y, o : Child(v, y, o) = Child(t, y, o)
  BY <1>1, SameShape
<1>3. v.parent = t.parent /\ v \in Trees /\ t \in Trees /\ C \subseteq Keys /\ NULL \notin Keys
  BY <1>1, KeysAssumption DEF SameLinks, Shape
<1>4. Rotated(v, u, x, s, r)
  <2>1. Child(v, x, 1 - s) \in Keys
    BY <1>1, <1>2, <1>3
  <2> QED
    BY <1>1, <1>2, <1>3, <2>1, RotateIs
<1>5. /\ 1 - s \in Sides /\ a \in C \cup {NULL} /\ m \in C \cup {NULL}
      /\ x # q /\ a # x /\ a # q /\ t.parent[q] = x
  BY <1>1, Around
<1> HIDE DEF u, c, d, m, h, a
<1>6. Level(t, H, q) /\ Fits(H[q], e, H[d], H[m])
  <2>1. Level(t, H, q)
    BY <1>1, <1>5
  <2>2. 1 - (1 - s) = s /\ q \in Keys
    BY <1>1, <1>3 DEF Sides
  <2> QED
    BY <1>3, <1>5, <2>1, <2>2, LevelIs DEF d, m
<1>7. H[d] = h + 1 /\ H[m] = h + 1 - e
  BY <1>1, <1>6 DEF Fits, Higher
<1>8. G[x] = h + 2 - e /\ G[q] = h + 3 - e /\ \A w \in C \cup {NULL} : w # x /\ w # q => G[w] = H[w]
  BY <1>1, <1>3, <1>5
<1> HIDE DEF G
<1>9. Fits(G[x], e - 1, H[c], H[m]) /\ Fits(G[q], 1 - e, G[x], H[d])
  <2>1. h \in Nat /\ H[c] = h
    BY <1>1 DEF h
  <2>2. CASE e = 0
    BY <1>7, <1>8, <2>1, <2>2 DEF Fits, Higher
  <2>3. CASE e = 1
    BY <1>7, <1>8, <2>1, <2>3 DEF Fits, Higher
  <2> QED
    BY <2>2, <2>3
<1>10. /\ \A w \in C : w # x /\ w # q /\ w # a /\ Level(v, H, w) => Level(u, G, w)
       /\ Level(u, G, x) /\ Level(u, G, q)
       /\ a # NULL => /\ a \in C /\ r \in Sides /\ Child(t, a, r) = x
                      /\ Child(u, a, r) = q /\ Child(u, a, 1 - r) = Child(t, a, 1 - r)
                      /\ G[a] = H[a] /\ G[Child(t, a, 1 - r)] = H[Child(t, a, 1 - r)]
       /\ u.parent[q] = a
  <2>1. q = Child(v, x, 1 - s) /\ v.parent[x] = a
    BY <1>1, <1>2, <1>3 DEF a
  <2> QED
    BY <1>1, <1>2, <1>4, <1>8, <1>9, <2>1, RotateLevel DEF c, d, m
<1>11. ASSUME NEW w \in C, w # a PROVE Level(u, G, w)
  <2>1. CASE w # x /\ w # q
    <3>1. Level(t, H, w) /\ v.balance[w] = t.balance[w] /\ w \in Keys
      BY <1>1, <1>3, <1>11, <2>1
    <3>2. Level(v, H, w)
      BY <1>2, <1>3, <3>1, LevelStays
    <3> QED
      BY <1>10, <1>11, <2>1, <3>2
  <2> QED
    BY <1>10, <2>1
<1>12. Shape(u, C, g)
  <2>1. q = Child(v, x, 1 - s)
    BY <1>1, <1>2
  <2> QED
    BY <1>1, <1>2, <1>4, <2>1, RotateShape
<1>13. Untouched(t, u, C)
  <2>1. q = Child(v, x, 1 - s)
    BY <1>1, <1>2
  <2>2. Untouched(v, u, C)
    BY <1>1, <1>2, <1>4, <2>1, RotateOutside
  <2> QED
    BY <1>1, <2>2 DEF Untouched, SameLinks
<1>14. g[q] = f[x]
  BY <1>1, <1>2, <1>3 DEF RotatedBelow
<1>15. a # NULL => u.balance[a] = t.balance[a]
  BY <1>3, <1>4, <1>5 DEF Rotated
<1> HIDE DEF g
<1>16. G[NULL] = 0
  BY <1>1, <1>3, <1>8
<1>17. Risen(t, u, C, f, H, x, r, h + 3 - e, g, G, q)
  BY <1>1, <1>8, <1>10, <1>11, <1>12, <1>13, <1>14, <1>15, <1>16 DEF Risen, a
<1> QED
  BY <1>17 DEF Rises, u, c, h

LEMMA DoubleRises ==
    ASSUME NEW t, NEW C, NEW f, NEW H, NEW x, NEW s, NEW r, NEW q, Heavy(t, C, f, H, x, s, r, q),
           Tilt(t, q, s) = 1, NEW m, m = Child(t, q, s), NEW b, b = Tilt(t, m, s),
           NEW v, SameLinks(t, v),
           \A w \in Keys : w # x /\ w # q /\ w # m => v.balance[w] = t.balance[w],
           Tilt(v, x, s) = (IF b = -1 THEN 1 ELSE 0), Tilt(v, q, s) = (IF b = 1 THEN -1 ELSE 0),
           Tilt(v, m, s) = 0
    PROVE  Rises(t, Rotate(Rotate(v, q, 1 - s), x, s), C, f, H, x, r, H[Child(t, x, s)] + 2)
<1> DEFINE z == 1 - s
           i == Rotate(v, q, z)
           u == Rotate(i, x, s)
           c == Child(t, x, s)
           d == Child(t, q, z)
           a == t.parent[x]
           h == H[c]
           l == Child(t, m, s)
           k == Child(t, m, z)
           K == [w \in Keys \cup {NULL} |-> IF w = x THEN h + 1 ELSE H[w]]
           G == [w \in Keys \cup {NULL} |-> IF w = x \/ w = q THEN h + 1 ELSE IF w = m THEN h + 2 ELSE H[w]]
           e == RotatedBelow(v, f, q, z)
           g == RotatedBelow(i, e, x, s)
<1>1. /\ Shape(t, C, f) /\ x \in C /\ s \in Sides /\ IsSide(t, x, r) /\ q \in C /\ q = Child(t, x, z)
      /\ H[NULL] = 0 /\ h \in Nat /\ H[q] = h + 2
      /\ \A w \in C : w # x /\ w # a => Level(t, H, w)
  BY DEF Heavy
<1>2. Shape(v, C, f) /\ IsSide(v, x, r) /\ \A y, o : Child(v, y, o) = Child(t, y, o)
  BY <1>1, SameShape
<1>3. v.parent = t.parent /\ v \in Trees /\ t \in Trees /\ C \subseteq Keys /\ NULL \notin Keys
  BY <1>1, KeysAssumption DEF SameLinks, Shape
<1>4. /\ z \in Sides /\ z # s /\ 1 - z = s /\ a \in C \cup {NULL} /\ m \in C \cup {NULL}
      /\ x # q /\ m # x /\ m # q /\ a # x /\ a # q /\ (a # NULL => a # m)
      /\ t.parent[q] = x /\ (m # NULL => t.parent[m] = q)
      /\ a # NULL => r \in Sides /\ Child(t, a, r) = x
  <2>1. 1 - z = s
    BY <1>1 DEF Sides
  <2> QED
    BY <1>1, <2>1, Around
<1>5. \A w \in C, o \in Sides : Child(t, w, o) \in C \cup {NULL}
  BY <1>1 DEF Shape, Linked
<1> HIDE DEF i, u, c, d, h, a, z, l, k, e, g
<1>6. H[m] = h + 1 /\ H[d] = h /\ m \in C /\ m # a
  <2>1. Level(t, H, q)
    BY <1>1, <1>4
  <2>2. Fits(H[q], 1, H[m], H[d])
    BY <1>1, <1>3, <1>4, <2>1, LevelIs DEF d, z
  <2>3. H[m] = h + 1 /\ H[d] = h
    BY <1>1, <2>2 DEF Fits, Higher
  <2>4. m # NULL
    BY <1>1, <2>3
  <2> QED
    BY <1>3, <1>4, <2>3, <2>4
<1>7. Level(t, H, m) /\ Fits(H[m], b, H[l], H[k])
  <2>1. Level(t, H, m)
    BY <1>1, <1>4, <1>6
  <2> QED
    BY <1>1, <1>3, <1>6, <2>1, LevelIs DEF l, k, z
<1>8. /\ b \in -1 .. 1 /\ H[l] = (IF b = -1 THEN h - 1 ELSE h) /\ H[k] = (IF b = 1 THEN h - 1 ELSE h)
      /\ H[l] \in Nat /\ H[k] \in Nat
  <2>1. b \in -1 .. 1 /\ H[l] \in Nat /\ H[k] \in Nat /\ b = H[l] - H[k] /\ h = Higher(H[l], H[k])
    BY <1>1, <1>6, <1>7 DEF Fits, Higher
  <2> QED
    BY <1>1, <2>1 DEF Higher
<1>9. /\ K[x] = h + 1 /\ \A w \in C \cup {NULL} : w # x => K[w] = H[w]
      /\ G[x] = h + 1 /\ G[q] = h + 1 /\ G[m] = h + 2
      /\ \A w \in C \cup {NULL} : w # q /\ w # m => G[w] = K[w]
      /\ \A w \in C \cup {NULL} : w # q /\ w # m /\ w # x => G[w] = H[w]
  BY <1>1, <1>3, <1>4
<1> HIDE DEF K, G
<1>10. /\ c \in C \cup {NULL} /\ d \in C \cup {NULL} /\ l \in C \cup {NULL} /\ k \in C \cup {NULL}
       /\ c # x /\ c # q /\ c # m /\ d # x /\ d # q /\ d # m /\ l # x /\ k # x /\ l # m /\ k # m /\ l # q /\ k # q
  <2>1. /\ c \in C \cup {NULL} /\ d \in C \cup {NULL} /\ l \in C \cup {NULL} /\ k \in C \cup {NULL}
        /\ (c # NULL => t.parent[c] = x) /\ (d # NULL => t.parent[d] = q)
        /\ (l # NULL => t.parent[l] = m) /\ (k # NULL => t.parent[k] = m)
    BY <1>1, <1>4, <1>6 DEF Shape, Linked, c, d, l, k
  <2>2. NULL \notin C /\ t.parent[q] = x /\ t.parent[m] = q /\ t.parent[x] = a
    BY <1>3, <1>4, <1>6 DEF a
  <2>3. c # q /\ d # m
    <3>1. c # NULL => c # q
      BY <1>1, <1>4, OnlyChild DEF c
    <3>2. d # NULL => d # m
      BY <1>1, <1>4, OnlyChild DEF d
    <3> QED
      BY <1>1, <1>6, <2>2, <3>1, <3>2
  <2> QED
    BY <1>1, <1>4, <1>6, <2>1, <2>2, <2>3
<1>11. IsSide(v, q, z) /\ Rotated(v, i, q, z, z)
  <2>1. Child(t, x, 1 - z) # q /\ Child(t, x, z) = q
    BY <1>1, <1>4, <1>10 DEF c
  <2>2. IsSide(v, q, z)
    BY <1>2, <1>3, <1>4, <2>1 DEF IsSide
  <2>3. Child(v, q, 1 - z) \in Keys /\ q \in Keys
    BY <1>1, <1>2, <1>3, <1>4, <1>6
  <2> QED
    BY <1>1, <1>3, <1>4, <2>2, <2>3, RotateIs DEF i
<1>12. m = Child(v, q, 1 - z) /\ Child(v, m, z) = k /\ Child(v, q, z) = d /\ Child(v, m, 1 - z) = l /\ v.parent[q] = x
  BY <1>2, <1>3, <1>4 DEF k, d, l
<1>13. Shape(i, C, e)
  BY <1>1, <1>2, <1>4, <1>6, <1>11, <1>12, RotateShape DEF e
<1>14. /\ i \in Trees /\ i.balance = v.balance
       /\ \A w \in C : i.parent[w] = IF w = k THEN q ELSE IF w = q THEN m
                                     ELSE IF w = m THEN x ELSE t.parent[w]
       /\ \A w \in C, o \in Sides :
            Child(i, w, o) = IF w = m /\ o = z THEN q ELSE IF w = q /\ o = s THEN k
                             ELSE IF w = x /\ o = z THEN m ELSE Child(t, w, o)
  <2>1. \A w \in C : w \in Keys
    BY <1>3
  <2>2. \A w \in Keys : i.parent[w] = IF w = k THEN q ELSE IF w = q THEN m
                                      ELSE IF w = m THEN x ELSE v.parent[w]
    BY <1>11, <1>12 DEF Rotated
  <2>3. \A w \in Keys, o \in Sides :
            Child(i, w, o) = IF w = m /\ o = z THEN q ELSE IF w = q /\ o = 1 - z THEN k
                             ELSE IF w = x /\ o = z THEN m ELSE Child(v, w, o)
    BY <1>11, <1>12 DEF Rotated
  <2>4. i \in Trees /\ i.balance = v.balance
    BY <1>11 DEF Rotated
  <2> QED
    BY <1>2, <1>3, <1>4, <2>1, <2>2, <2>3, <2>4
<1>15. /\ Child(i, x, z) = m /\ Child(i, x, s) = c /\ Child(i, m, s) = l /\ Child(i, m, z) = q
       /\ i.parent[x] = a
  BY <1>1, <1>4, <1>6, <1>10, <1>14 DEF c, l, a
<1>16. IsSide(i, x, r)
  <2>1. SUFFICES ASSUME a # NULL PROVE r \in Sides /\ Child(i, a, r) = x /\ Child(i, a, 1 - r) # x
    BY <1>15 DEF IsSide
  <2>2. r \in Sides /\ 1 - r \in Sides /\ Child(t, a, r) = x /\ Child(t, a, 1 - r) # x /\ a \in C
    BY <1>1, <1>4, <2>1 DEF IsSide, a, Sides
  <2> QED
    BY <1>4, <1>6, <1>14, <2>1, <2>2
<1>17. Rotated(i, u, x, s, r)
  <2>1. Child(i, x, 1 - s) \in Keys /\ x \in Keys
    BY <1>1, <1>3, <1>6, <1>15 DEF z
  <2> QED
    BY <1>1, <1>14, <1>16, <2>1, RotateIs DEF u
<1>18. m = Child(i, x, 1 - s)
  BY <1>15 DEF z
<1>19. Shape(u, C, g)
  BY <1>1, <1>6, <1>13, <1>16, <1>17, <1>18, RotateShape DEF g
\* The heights after the first rotation.
<1>20. /\ \A w \in C : w # q /\ w # m /\ w # x /\ Level(v, K, w) => Level(i, G, w)
       /\ Level(i, G, q)
  <2>1. Fits(G[q], Tilt(v, q, z), K[d], K[k])
    <3>1. K[d] = h /\ K[k] = H[k] /\ G[q] = h + 1
      BY <1>6, <1>9, <1>10
    <3>2. Tilt(v, q, z) = (IF b = 1 THEN 1 ELSE 0)
      <4>1. v.balance[q] \in Int
        BY <1>1, <1>3 DEF Trees
      <4> QED
        BY <1>1, <4>1 DEF Tilt, z, Sides
    <3> QED
      BY <1>1, <1>8, <3>1, <3>2 DEF Fits, Higher
  <2>2. \A w \in C \cup {NULL} : w # q /\ w # m => G[w] = K[w]
    BY <1>9
  <2> QED
    BY <1>1, <1>2, <1>4, <1>6, <1>11, <1>12, <2>1, <2>2, RotateLevel
\* The heights after the second one.
<1>21. /\ \A w \in C : w # x /\ w # m /\ w # a /\ Level(i, G, w) => Level(u, G, w)
       /\ Level(u, G, x) /\ Level(u, G, m)
       /\ a # NULL => /\ a \in C /\ r \in Sides /\ Child(i, a, r) = x
                      /\ Child(u, a, r) = m /\ Child(u, a, 1 - r) = Child(i, a, 1 - r)
       /\ u.parent[m] = a
  <2>1. Fits(G[x], Tilt(i, x, s), G[c], G[l])
    <3>1. G[c] = h /\ G[l] = H[l] /\ G[x] = h + 1
      BY <1>9, <1>10 DEF h
    <3>2. Tilt(i, x, s) = (IF b = -1 THEN 1 ELSE 0)
      BY <1>14 DEF Tilt
    <3> QED
      BY <1>1, <1>8, <3>1, <3>2 DEF Fits, Higher
  <2>2. Fits(G[m], Tilt(i, m, s), G[x], G[q])
    <3>1. Tilt(i, m, s) = 0
      BY <1>14 DEF Tilt
    <3> QED
      BY <1>1, <1>9, <3>1 DEF Fits, Higher
  <2>3. c = Child(i, x, s) /\ l = Child(i, m, s) /\ q = Child(i, m, 1 - s) /\ a = i.parent[x]
    BY <1>15 DEF z
  <2> QED
    BY <1>1, <1>6, <1>13, <1>16, <1>17, <1>18, <2>1, <2>2, <2>3, RotateLevel
<1>22. ASSUME NEW w \in C, w # a PROVE Level(u, G, w)
  <2>1. CASE w # x /\ w # q /\ w # m
    <3>1. Level(t, H, w) /\ v.balance[w] = t.balance[w] /\ w \in Keys
      BY <1>1, <1>3, <1>22, <2>1
    <3>2. ASSUME NEW o \in Sides PROVE K[Child(t, w, o)] = H[Child(t, w, o)]
      <4>1. Child(t, w, o) # x
        <5>1. SUFFICES ASSUME Child(t, w, o) = x PROVE FALSE
          OBVIOUS
        <5>2. t.parent[x] = w
          BY <1>1, <1>3, <5>1 DEF Shape, Linked
        <5> QED
          BY <1>22, <5>2 DEF a
      <4> QED
        BY <1>5, <1>9, <4>1
    <3>3. Level(v, K, w)
      BY <1>2, <1>3, <1>9, <2>1, <3>1, <3>2, LevelStays
    <3>4. Level(i, G, w)
      BY <1>20, <2>1, <3>3
    <3> QED
      BY <1>21, <1>22, <2>1, <3>4
  <2>2. CASE w = q
    BY <1>4, <1>6, <1>20, <1>21, <2>2
  <2> QED
    BY <1>21, <2>1, <2>2
<1>23. ASSUME a # NULL
       PROVE  /\ a \in C /\ r \in Sides /\ Child(t, a, r) = x
              /\ Child(u, a, r) = m /\ Child(u, a, 1 - r) = Child(t, a, 1 - r)
              /\ u.balance[a] = t.balance[a]
              /\ G[a] = H[a] /\ G[Child(t, a, 1 - r)] = H[Child(t, a, 1 - r)]
  <2>1. a \in C /\ r \in Sides /\ 1 - r \in Sides /\ 1 - r # r /\ Child(t, a, r) = x /\ a # m /\ a # q /\ a # x
    BY <1>4, <1>6, <1>23 DEF Sides
  <2>2. Child(i, a, 1 - r) = Child(t, a, 1 - r)
    BY <1>14, <2>1
  <2>3. Child(t, a, 1 - r) # x /\ Child(t, a, 1 - r) # q /\ Child(t, a, 1 - r) # m
    <3>1. Child(t, a, 1 - r) # NULL => t.parent[Child(t, a, 1 - r)] = a
      BY <1>1, <2>1 DEF Shape, Linked
    <3>2. x # NULL /\ q # NULL /\ m # NULL
      BY <1>1, <1>3, <1>6
    <3>3. Child(t, a, 1 - r) # x
      BY <1>1, <2>1, <3>2, OnlyChild
    <3> QED
      BY <1>4, <1>6, <2>1, <3>1, <3>2, <3>3
  <2>4. u.balance[a] = t.balance[a]
    BY <1>3, <1>14, <1>17, <2>1 DEF Rotated
  <2> QED
    BY <1>5, <1>9, <1>21, <1>23, <2>1, <2>2, <2>3, <2>4
<1>24. Untouched(t, u, C)
  <2>1. Untouched(v, i, C)
    BY <1>1, <1>2, <1>4, <1>6, <1>11, <1>12, RotateOutside
  <2>2. Untouched(i, u, C)
    BY <1>1, <1>6, <1>13, <1>16, <1>17, <1>18, RotateOutside
  <2> QED
    BY <1>1, <1>6, <2>1, <2>2 DEF Untouched, SameLinks
<1>25. g[m] = f[x]
  <2>1. g[m] = e[x]
    BY <1>3, <1>6, <1>18 DEF RotatedBelow, g
  <2>2. e[x] = f[x]
    BY <1>1, <1>3, <1>4, <1>12 DEF RotatedBelow, e
  <2> QED
    BY <2>1, <2>2
<1>26. G[NULL] = 0
  BY <1>1, <1>3, <1>6, <1>9
<1>27. Risen(t, u, C, f, H, x, r, h + 2, g, G, m)
  BY <1>6, <1>9, <1>19, <1>21, <1>22, <1>23, <1>24, <1>25, <1>26 DEF Risen, a
<1> QED
  BY <1>27 DEF Rises, u, i, c, h, z

SetTwo(t, x, i, q, j) == [t EXCEPT !.balance[x] = i, !.balance[q] = j]

SetThree(t, x, i, q, j, m, k) == [t EXCEPT !.balance[x] = i, !.balance[q] = j, !.balance[m] = k]

LEMMA SetTwoIs ==
    ASSUME NEW t, t \in Trees, NEW x \in Keys, NEW q \in Keys, x # q, NEW i \in Int, NEW j \in Int
    PROVE  LET v == SetTwo(t, x, i, q, j)
           IN /\ SameLinks(t, v) /\ v.balance[x] = i /\ v.balance[q] = j
              /\ \A w \in Keys : w # x /\ w # q => v.balance[w] = t.balance[w]
BY DEF SetTwo, SameLinks, Trees, Pointers

LEMMA SetThreeIs ==
    ASSUME NEW t, t \in Trees, NEW x \in Keys, NEW q \in Keys, NEW m \in Keys, x # q, m # x, m # q,
           NEW i \in Int, NEW j \in Int, NEW k \in Int
    PROVE  LET v == SetThree(t, x, i, q, j, m, k)
           IN /\ SameLinks(t, v) /\ v.balance[x] = i /\ v.balance[q] = j /\ v.balance[m] = k
              /\ \A w \in Keys : w # x /\ w # q /\ w # m => v.balance[w] = t.balance[w]
BY DEF SetThree, SameLinks, Trees, Pointers

\* The nodes of a rotation are different ones; a double rotation has the
\* third.
LEMMA HeavyNodes ==
    ASSUME NEW t, NEW C, NEW f, NEW H, NEW x, NEW s, NEW r, NEW q, Heavy(t, C, f, H, x, s, r, q)
    PROVE  /\ t \in Trees /\ x \in Keys /\ q \in Keys /\ x # q
           /\ Tilt(t, q, s) \in -1 .. 1
           /\ Tilt(t, q, s) = 1 => /\ Child(t, q, s) \in Keys /\ Child(t, q, s) # x /\ Child(t, q, s) # q
                                   /\ Tilt(t, Child(t, q, s), s) \in -1 .. 1
<1> DEFINE m == Child(t, q, s)
           a == t.parent[x]
<1>1. /\ Shape(t, C, f) /\ x \in C /\ s \in Sides /\ IsSide(t, x, r) /\ q \in C /\ q = Child(t, x, 1 - s)
      /\ H[NULL] = 0 /\ H[Child(t, x, s)] \in Nat /\ H[q] = H[Child(t, x, s)] + 2
      /\ \A w \in C : w # x /\ w # a => Level(t, H, w)
  BY DEF Heavy
<1>2. /\ m \in C \cup {NULL} /\ x # q /\ m # x /\ m # q /\ a # q /\ (a # NULL => a # m)
  BY <1>1, Around
<1>3. t \in Trees /\ C \subseteq Keys /\ NULL \notin Keys
  BY <1>1, KeysAssumption DEF Shape
<1> HIDE DEF m, a
<1>4. Fits(H[q], Tilt(t, q, s), H[m], H[Child(t, q, 1 - s)])
  BY <1>1, <1>2, <1>3, LevelIs DEF m
<1>5. Tilt(t, q, s) \in -1 .. 1
  BY <1>4 DEF Fits
<1>6. ASSUME Tilt(t, q, s) = 1 PROVE m \in C /\ Tilt(t, m, s) \in -1 .. 1
  <2>1. m # NULL
    BY <1>1, <1>4, <1>6 DEF Fits, Higher
  <2>2. m \in C /\ m # a
    BY <1>2, <1>3, <2>1
  <2>3. Fits(H[m], Tilt(t, m, s), H[Child(t, m, s)], H[Child(t, m, 1 - s)])
    BY <1>1, <1>2, <1>3, <2>2, LevelIs
  <2> QED
    BY <2>2, <2>3 DEF Fits
<1> QED
  BY <1>1, <1>2, <1>3, <1>5, <1>6 DEF m

\* The rotation of Rebalance makes x's subtree one higher than its lower
\* part was, and that is one less than x was meant to be.
LEMMA RebalanceRises ==
    ASSUME NEW t, NEW C, NEW f, NEW H, NEW x, NEW s, NEW r, NEW q, Heavy(t, C, f, H, x, s, r, q),
           Tilt(t, x, s) = -2, Tilt(t, q, s) # 0
    PROVE  Rises(t, Rebalance(t, x), C, f, H, x, r, H[Child(t, x, s)] + 2)
<1> DEFINE m == Child(t, q, s)
           h == H[Child(t, x, s)]
<1>1. /\ s \in Sides /\ q = Child(t, x, 1 - s) /\ h \in Nat
      /\ t \in Trees /\ x \in Keys /\ q \in Keys /\ x # q
      /\ Tilt(t, q, s) \in {-1, 1}
      /\ Tilt(t, q, s) = 1 => m \in Keys /\ m # x /\ m # q /\ Tilt(t, m, s) \in -1 .. 1
  <2>1. Tilt(t, q, s) \in -1 .. 1
    BY HeavyNodes
  <2> QED
    BY <2>1, HeavyNodes DEF Heavy
<1>2. t.balance[x] \in Int /\ t.balance[q] \in Int /\ (m \in Keys => t.balance[m] \in Int)
  BY <1>1 DEF Trees
<1>3. CASE s = 0 /\ Tilt(t, q, s) = -1
  <2> DEFINE v == SetTwo(t, x, 0, q, 0)
  <2>1. t.balance[x] = 2 /\ t.balance[q] = 1 /\ q = t.right[x] /\ Tilt(t, q, 1 - s) = 1
    BY <1>1, <1>2, <1>3 DEF Tilt, Child
  <2>2. Rebalance(t, x) = Rotate(v, x, s)
    BY <1>3, <2>1 DEF Rebalance, SingleLeft, Rotate, SetTwo
  <2>3. /\ SameLinks(t, v) /\ v.balance[x] = 0 /\ v.balance[q] = 0
        /\ \A w \in Keys : w # x /\ w # q => v.balance[w] = t.balance[w]
    BY <1>1, SetTwoIs
  <2> HIDE DEF v, h
  <2>4. Tilt(v, x, s) = 1 - 1 /\ Tilt(v, q, s) = 1 - 1
    BY <1>3, <2>3 DEF Tilt
  <2>5. Rises(t, Rotate(v, x, s), C, f, H, x, r, h + 3 - 1)
    BY <1>1, <2>1, <2>3, <2>4, SingleRises DEF h
  <2>6. h + 3 - 1 = h + 2
    BY <1>1
  <2> QED
    BY <2>2, <2>5, <2>6 DEF h
<1>4. CASE s = 1 /\ Tilt(t, q, s) = -1
  <2> DEFINE v == SetTwo(t, x, 0, q, 0)
  <2>1. t.balance[x] = -2 /\ t.balance[q] = -1 /\ q = t.left[x] /\ Tilt(t, q, 1 - s) = 1
    BY <1>1, <1>2, <1>4 DEF Tilt, Child
  <2>2. Rebalance(t, x) = Rotate(v, x, s)
    BY <1>4, <2>1 DEF Rebalance, SingleRight, Rotate, SetTwo
  <2>3. /\ SameLinks(t, v) /\ v.balance[x] = 0 /\ v.balance[q] = 0
        /\ \A w \in Keys : w # x /\ w # q => v.balance[w] = t.balance[w]
    BY <1>1, SetTwoIs
  <2> HIDE DEF v, h
  <2>4. Tilt(v, x, s) = 1 - 1 /\ Tilt(v, q, s) = 1 - 1
    BY <1>4, <2>3 DEF Tilt
  <2>5. Rises(t, Rotate(v, x, s), C, f, H, x, r, h + 3 - 1)
    BY <1>1, <2>1, <2>3, <2>4, SingleRises DEF h
  <2>6. h + 3 - 1 = h + 2
    BY <1>1
  <2> QED
    BY <2>2, <2>5, <2>6 DEF h
<1>5. CASE s = 0 /\ Tilt(t, q, s) = 1
  <2> DEFINE b == t.balance[m]
             v == SetThree(t, x, IF b = 1 THEN -1 ELSE 0, q, IF b = -1 THEN 1 ELSE 0, m, 0)
  <2>1. t.balance[x] = 2 /\ t.balance[q] = -1 /\ q = t.right[x] /\ m = t.left[q] /\ Tilt(t, m, s) = 0 - b
        /\ b \in -1 .. 1
    BY <1>1, <1>2, <1>5 DEF Tilt, Child
  <2>2. Rebalance(t, x) = Rotate(Rotate(v, q, 1 - s), x, s)
    <3>1. Rebalance(t, x) = DoubleLeft(t, x)
      BY <2>1 DEF Rebalance
    <3>2. t.right[x] = q /\ t.left[q] = m
      BY <2>1
    <3> HIDE DEF m
    <3>3. DoubleLeft(t, x) = RotateLeft(RotateRight(v, q), x)
      BY <3>2, Zenon DEF DoubleLeft, SetThree
    <3> HIDE DEF v
    <3> QED
      BY <1>5, <3>1, <3>3 DEF Rotate
  <2>3. /\ SameLinks(t, v) /\ v.balance[x] = (IF b = 1 THEN -1 ELSE 0)
        /\ v.balance[q] = (IF b = -1 THEN 1 ELSE 0) /\ v.balance[m] = 0
        /\ \A w \in Keys : w # x /\ w # q /\ w # m => v.balance[w] = t.balance[w]
    <3> DEFINE i == IF b = 1 THEN -1 ELSE 0
               j == IF b = -1 THEN 1 ELSE 0
    <3>1. i \in Int /\ j \in Int
      OBVIOUS
    <3> HIDE DEF i, j, m, b
    <3> QED
      BY <1>1, <1>5, <3>1, SetThreeIs DEF i, j
  <2> HIDE DEF v, h, m, b
  <2>4. /\ Tilt(v, x, s) = (IF Tilt(t, m, s) = -1 THEN 1 ELSE 0)
        /\ Tilt(v, q, s) = (IF Tilt(t, m, s) = 1 THEN -1 ELSE 0)
        /\ Tilt(v, m, s) = 0
    <3>1. Tilt(v, x, s) = 0 - v.balance[x] /\ Tilt(v, q, s) = 0 - v.balance[q] /\ Tilt(v, m, s) = 0 - v.balance[m]
      BY <1>5 DEF Tilt
    <3> QED
      BY <2>1, <2>3, <3>1
  <2>5. Rises(t, Rotate(Rotate(v, q, 1 - s), x, s), C, f, H, x, r, h + 2)
    BY <1>5, <2>3, <2>4, DoubleRises DEF h, m
  <2> QED
    BY <2>2, <2>5 DEF h
<1>6. CASE s = 1 /\ Tilt(t, q, s) = 1
  <2> DEFINE b == t.balance[m]
             v == SetThree(t, x, IF b = -1 THEN 1 ELSE 0, q, IF b = 1 THEN -1 ELSE 0, m, 0)
  <2>1. t.balance[x] = -2 /\ t.balance[q] = 1 /\ q = t.left[x] /\ m = t.right[q] /\ Tilt(t, m, s) = b
        /\ b \in -1 .. 1
    BY <1>1, <1>2, <1>6 DEF Tilt, Child
  <2>2. Rebalance(t, x) = Rotate(Rotate(v, q, 1 - s), x, s)
    <3>1. Rebalance(t, x) = DoubleRight(t, x)
      BY <2>1 DEF Rebalance
    <3>2. t.left[x] = q /\ t.right[q] = m
      BY <2>1
    <3> HIDE DEF m
    <3>3. DoubleRight(t, x) = RotateRight(RotateLeft(v, q), x)
      BY <3>2, Zenon DEF DoubleRight, SetThree
    <3> HIDE DEF v
    <3> QED
      BY <1>6, <3>1, <3>3 DEF Rotate
  <2>3. /\ SameLinks(t, v) /\ v.balance[x] = (IF b = -1 THEN 1 ELSE 0)
        /\ v.balance[q] = (IF b = 1 THEN -1 ELSE 0) /\ v.balance[m] = 0
        /\ \A w \in Keys : w # x /\ w # q /\ w # m => v.balance[w] = t.balance[w]
    <3> DEFINE i == IF b = -1 THEN 1 ELSE 0
               j == IF b = 1 THEN -1 ELSE 0
    <3>1. i \in Int /\ j \in Int
      OBVIOUS
    <3> HIDE DEF i, j, m, b
    <3> QED
      BY <1>1, <1>6, <3>1, SetThreeIs DEF i, j
  <2> HIDE DEF v, h, m, b
  <2>4. /\ Tilt(v, x, s) = (IF Tilt(t, m, s) = -1 THEN 1 ELSE 0)
        /\ Tilt(v, q, s) = (IF Tilt(t, m, s) = 1 THEN -1 ELSE 0)
        /\ Tilt(v, m, s) = 0
    <3>1. Tilt(v, x, s) = v.balance[x] /\ Tilt(v, q, s) = v.balance[q] /\ Tilt(v, m, s) = v.balance[m]
      BY <1>6 DEF Tilt
    <3> QED
      BY <2>1, <2>3, <3>1
  <2>5. Rises(t, Rotate(Rotate(v, q, 1 - s), x, s), C, f, H, x, r, h + 2)
    BY <1>6, <2>3, <2>4, DoubleRises DEF h, m
  <2> QED
    BY <2>2, <2>5 DEF h
<1> QED
  BY <1>1, <1>3, <1>4, <1>5, <1>6 DEF Sides

-----------------------------------------------------------------------------
(***************************************************************************)
(* Lower.                                                                  *)
(***************************************************************************)
\* The side of x in its parent, as the code reads it.
IsLeft(t, x) == t.parent[x] # NULL /\ t.left[t.parent[x]] = x

LEMMA SideIs ==
    ASSUME NEW t, NEW C, NEW f, Shape(t, C, f), NEW x \in C
    PROVE  IsSide(t, x, Side(IsLeft(t, x))) /\ IsLeft(t, x) \in BOOLEAN
<1> DEFINE a == t.parent[x]
<1>1. IsLeft(t, x) \in BOOLEAN
  BY DEF IsLeft
<1>2. PICK r : IsSide(t, x, r)
  BY SideOf
<1>3. CASE a = NULL
  BY <1>1, <1>3 DEF IsSide
<1>4. CASE a # NULL
  <2>1. r \in Sides /\ Child(t, a, r) = x /\ Child(t, a, 1 - r) # x
    BY <1>2, <1>4 DEF IsSide
  <2>2. CASE r = 0
    <3>1. t.left[a] = x
      BY <2>1, <2>2 DEF Child
    <3>2. Side(IsLeft(t, x)) = r
      BY <1>4, <2>2, <3>1 DEF Side, IsLeft
    <3> QED
      BY <1>1, <1>2, <3>2
  <2>3. CASE r = 1
    <3>1. t.left[a] # x
      BY <2>1, <2>3 DEF Child
    <3>2. Side(IsLeft(t, x)) = r
      BY <1>4, <2>3, <3>1 DEF Side, IsLeft
    <3> QED
      BY <1>1, <1>2, <3>2
  <2> QED
    BY <2>1, <2>2, <2>3 DEF Sides
<1> QED
  BY <1>3, <1>4

\* One subtree of x, on side s, is one lower than the balance of x and the
\* heights of x and of the nodes above it say; the rest is level.
Falling(t, C, f, H, x, s) ==
    /\ Shape(t, C, f) /\ s \in Sides /\ x \in C \cup {NULL} /\ H[NULL] = 0
    /\ \A w \in C : w # x => Level(t, H, w)
    /\ x # NULL => /\ H[Child(t, x, s)] \in Nat
                   /\ Fits(H[x], Tilt(t, x, s), H[Child(t, x, s)] + 1, H[Child(t, x, 1 - s)])

\* After a rotation that keeps the height, all is level.
LEMMA RiseEnds ==
    ASSUME NEW t, t \in Trees, NEW u, NEW C, NEW f, NEW H, NEW x, NEW r, NEW g, NEW G, NEW top,
           Risen(t, u, C, f, H, x, r, H[x], g, G, top),
           t.parent[x] # NULL => Level(t, H, t.parent[x])
    PROVE  \A w \in C : Level(u, G, w)
<1> DEFINE a == t.parent[x]
<1>1. /\ Shape(u, C, g) /\ G[top] = H[x]
      /\ \A w \in C : w # a => Level(u, G, w)
      /\ a # NULL => /\ a \in C /\ r \in Sides /\ Child(t, a, r) = x
                     /\ Child(u, a, r) = top /\ Child(u, a, 1 - r) = Child(t, a, 1 - r)
                     /\ u.balance[a] = t.balance[a]
                     /\ G[a] = H[a] /\ G[Child(t, a, 1 - r)] = H[Child(t, a, 1 - r)]
  BY DEF Risen
<1>2. u \in Trees /\ C \subseteq Keys /\ NULL \notin C
  BY <1>1, KeysAssumption DEF Shape
<1>3. ASSUME a # NULL PROVE Level(u, G, a)
  <2>1. Fits(H[a], Tilt(t, a, r), H[Child(t, a, r)], H[Child(t, a, 1 - r)])
    BY <1>1, <1>2, <1>3, LevelIs
  <2>2. Tilt(u, a, r) = Tilt(t, a, r)
    BY <1>1, <1>3 DEF Tilt
  <2>3. Fits(G[a], Tilt(u, a, r), G[Child(u, a, r)], G[Child(u, a, 1 - r)])
    BY <1>1, <1>3, <2>1, <2>2
  <2> QED
    BY <1>1, <1>2, <1>3, <2>3, LevelIs
<1> QED
  BY <1>1, <1>2, <1>3

\* After one that does not, the fall goes on above.
LEMMA RiseFalls ==
    ASSUME NEW t, t \in Trees, NEW u, NEW C, NEW f, NEW H, NEW x, NEW r \in Sides, NEW g, NEW G, NEW top,
           H[x] \in Nat \ {0}, Risen(t, u, C, f, H, x, r, H[x] - 1, g, G, top),
           t.parent[x] # NULL => Level(t, H, t.parent[x])
    PROVE  /\ Falling(u, C, g, G, t.parent[x], r)
           /\ t.parent[x] # NULL => f[x] \subseteq g[t.parent[x]] /\ t.parent[x] \notin f[x]
<1> DEFINE a == t.parent[x]
<1>1. /\ Shape(u, C, g) /\ G[top] = H[x] - 1 /\ G[NULL] = 0 /\ g[top] = f[x]
      /\ \A w \in C : w # a => Level(u, G, w)
      /\ a # NULL => /\ a \in C /\ r \in Sides /\ Child(t, a, r) = x
                     /\ Child(u, a, r) = top /\ Child(u, a, 1 - r) = Child(t, a, 1 - r)
                     /\ u.balance[a] = t.balance[a]
                     /\ G[a] = H[a] /\ G[Child(t, a, 1 - r)] = H[Child(t, a, 1 - r)]
  BY DEF Risen
<1>2. u \in Trees /\ C \subseteq Keys /\ NULL \notin C
  BY <1>1, KeysAssumption DEF Shape
<1>3. ASSUME a # NULL
      PROVE  /\ Fits(G[a], Tilt(u, a, r), G[Child(u, a, r)] + 1, G[Child(u, a, 1 - r)])
             /\ G[Child(u, a, r)] \in Nat
             /\ f[x] \subseteq g[a] /\ a \notin f[x]
  <2>1. Fits(H[a], Tilt(t, a, r), H[Child(t, a, r)], H[Child(t, a, 1 - r)])
    BY <1>1, <1>2, <1>3, LevelIs
  <2>2. Tilt(u, a, r) = Tilt(t, a, r)
    BY <1>1, <1>3 DEF Tilt
  <2>3. Fits(G[a], Tilt(u, a, r), G[Child(u, a, r)] + 1, G[Child(u, a, 1 - r)])
    BY <1>1, <1>3, <2>1, <2>2
  <2>4. g[Child(u, a, r)] \subseteq g[a] /\ a \notin g[Child(u, a, r)]
    BY <1>1, <1>3, BelowSelf
  <2> QED
    BY <1>1, <1>3, <2>3, <2>4
<1>4. Falling(u, C, g, G, a, r)
  BY <1>1, <1>3 DEF Falling
<1> QED
  BY <1>3, <1>4

\* The steps of the walk.
LEMMA LowerOnceIs ==
    ASSUME NEW t, NEW x \in Keys, NEW b \in BOOLEAN
    PROVE  LET v == SetBalance(t, x, t.balance[x] + (IF b THEN 1 ELSE -1))
               q == Child(t, x, 1 - Side(b))
               even == SetTwo(v, x, IF b THEN 1 ELSE -1, q, IF b THEN -1 ELSE 1)
           IN /\ v.balance[x] = 0 =>
                    LowerOnce(t, x, b) = [tree |-> v, node |-> t.parent[x], is_left |-> IsLeft(t, x)]
              /\ v.balance[x] \in {1, -1} => LowerOnce(t, x, b) = [tree |-> v, node |-> NULL, is_left |-> b]
              /\ v.balance[x] \notin {0, 1, -1} /\ v.balance[q] = 0 =>
                    LowerOnce(t, x, b) = [tree |-> Rotate(even, x, Side(b)), node |-> NULL, is_left |-> b]
              /\ v.balance[x] \notin {0, 1, -1} /\ v.balance[q] # 0 =>
                    LowerOnce(t, x, b) = [tree |-> Rebalance(v, x), node |-> t.parent[x], is_left |-> IsLeft(t, x)]
<1> DEFINE v == SetBalance(t, x, t.balance[x] + (IF b THEN 1 ELSE -1))
           child == IF b THEN t.right[x] ELSE t.left[x]
           r == IF b THEN RotateLeft([v EXCEPT !.balance[x] = 1, !.balance[child] = -1], x)
                ELSE RotateRight([v EXCEPT !.balance[x] = -1, !.balance[child] = 1], x)
           q == Child(t, x, 1 - Side(b))
           even == SetTwo(v, x, IF b THEN 1 ELSE -1, q, IF b THEN -1 ELSE 1)
           Up(tr) == [tree |-> tr, node |-> t.parent[x],
                      is_left |-> t.parent[x] # NULL /\ t.left[t.parent[x]] = x]
           Done(tr) == [tree |-> tr, node |-> NULL, is_left |-> b]
<1>1. q = child
  BY DEF Child, Side
<1>2. r = Rotate(even, x, Side(b))
  <2> HIDE DEF v, child, q
  <2>1. CASE b
    <3>1. r = RotateLeft(SetTwo(v, x, 1, child, -1), x)
      BY <2>1 DEF SetTwo
    <3>2. even = SetTwo(v, x, 1, child, -1) /\ Side(b) = 0
      BY <1>1, <2>1 DEF Side
    <3> QED
      BY <3>1, <3>2 DEF Rotate
  <2>2. CASE ~b
    <3>1. r = RotateRight(SetTwo(v, x, -1, child, 1), x)
      BY <2>2 DEF SetTwo
    <3>2. even = SetTwo(v, x, -1, child, 1) /\ Side(b) = 1
      BY <1>1, <2>2 DEF Side
    <3> QED
      BY <3>1, <3>2 DEF Rotate
  <2> QED
    BY <2>1, <2>2
<1>3. \A tr : Up(tr) = [tree |-> tr, node |-> t.parent[x], is_left |-> IsLeft(t, x)]
  BY Zenon DEF IsLeft
<1>4. LowerOnce(t, x, b) = CASE v.balance[x] = 0 -> Up(v)
                             [] v.balance[x] \in {1, -1} -> Done(v)
                             [] OTHER -> IF v.balance[child] = 0 THEN Done(r) ELSE Up(Rebalance(v, x))
  BY Zenon DEF LowerOnce
<1>5. \A tr : Done(tr) = [tree |-> tr, node |-> NULL, is_left |-> b]
  OBVIOUS
<1> HIDE DEF v, child, r, q, even, Up, Done
<1>6. v.balance[x] = 0 => LowerOnce(t, x, b) = Up(v)
  BY <1>4
<1>7. v.balance[x] \in {1, -1} => LowerOnce(t, x, b) = Done(v)
  BY <1>4
<1>8. v.balance[x] \notin {0, 1, -1} =>
        LowerOnce(t, x, b) = IF v.balance[child] = 0 THEN Done(r) ELSE Up(Rebalance(v, x))
  BY <1>4
<1> QED
  BY <1>1, <1>2, <1>3, <1>5, <1>6, <1>7, <1>8, Zenon DEF v, q, even

\* One step of the walk: the fall goes on at y.node, or nothing falls.
Fell(t, y, C, f, x) ==
    /\ y \in Walks /\ Untouched(t, y.tree, C)
    /\ \E g, G : /\ Falling(y.tree, C, g, G, y.node, Side(y.is_left))
                 /\ y.node # NULL => f[x] \subseteq g[y.node] /\ y.node \notin f[x]

LEMMA SetBalanceIs ==
    ASSUME NEW t, t \in Trees, NEW x \in Keys, NEW b \in Int
    PROVE  /\ SameLinks(t, SetBalance(t, x, b)) /\ SetBalance(t, x, b).balance[x] = b
           /\ \A w \in Keys : w # x => SetBalance(t, x, b).balance[w] = t.balance[w]
BY DEF SetBalance, SameLinks, Trees, Pointers

LEMMA EndedFalls ==
    ASSUME NEW u, NEW C, NEW g, NEW G, Shape(u, C, g), G[NULL] = 0, \A w \in C : Level(u, G, w),
           NEW t, Untouched(t, u, C), NEW b \in BOOLEAN, NEW f, NEW x
    PROVE  Fell(t, [tree |-> u, node |-> NULL, is_left |-> b], C, f, x)
<1> DEFINE y == [tree |-> u, node |-> NULL, is_left |-> b]
<1>1. y.tree = u /\ y.node = NULL /\ y.is_left = b
  OBVIOUS
<1>2. u \in Trees
  BY DEF Shape
<1>3. y \in Walks
  BY <1>2 DEF Walks
<1>4. Side(b) \in Sides
  BY DEF Side, Sides
<1>5. Falling(u, C, g, G, NULL, Side(b))
  BY <1>4 DEF Falling
<1> HIDE DEF y
<1>6. Fell(t, y, C, f, x)
  BY <1>1, <1>3, <1>5, Zenon DEF Fell
<1> QED
  BY <1>6 DEF y

LEMMA HigherFalls ==
    ASSUME NEW u, NEW C, NEW g, NEW G, NEW a, NEW b \in BOOLEAN, Falling(u, C, g, G, a, Side(b)),
           NEW t, Untouched(t, u, C), NEW f, NEW x,
           a # NULL => f[x] \subseteq g[a] /\ a \notin f[x]
    PROVE  Fell(t, [tree |-> u, node |-> a, is_left |-> b], C, f, x)
<1> DEFINE y == [tree |-> u, node |-> a, is_left |-> b]
<1>1. y.tree = u /\ y.node = a /\ y.is_left = b
  OBVIOUS
<1>2. u \in Trees /\ a \in Keys \cup {NULL}
  BY DEF Falling, Shape
<1>3. y \in Walks
  BY <1>2 DEF Walks
<1> HIDE DEF y
<1>4. Fell(t, y, C, f, x)
  BY <1>1, <1>3, Zenon DEF Fell
<1> QED
  BY <1>4 DEF y

LEMMA LowerKeeps ==
    ASSUME NEW t, NEW C, NEW f, NEW H, NEW x, NEW b \in BOOLEAN, Falling(t, C, f, H, x, Side(b)), x # NULL
    PROVE  Fell(t, LowerOnce(t, x, b), C, f, x)
<1> DEFINE s == Side(b)
           v == SetBalance(t, x, t.balance[x] + (IF b THEN 1 ELSE -1))
           q == Child(t, x, 1 - s)
           c == Child(t, x, s)
           a == t.parent[x]
           i == H[c]
           j == H[q]
           o == IsLeft(t, x)
           r == Side(o)
           even == SetTwo(v, x, IF b THEN 1 ELSE -1, q, IF b THEN -1 ELSE 1)
<1>1. /\ Shape(t, C, f) /\ s \in Sides /\ x \in C /\ H[NULL] = 0
      /\ \A w \in C : w # x => Level(t, H, w)
      /\ i \in Nat /\ Fits(H[x], Tilt(t, x, s), i + 1, j)
  BY DEF Falling
<1>2. t \in Trees /\ C \subseteq Keys /\ x \in Keys /\ NULL \notin Keys /\ t.balance[x] \in Int
  BY <1>1, KeysAssumption DEF Shape, Trees
<1>3. IsSide(t, x, r) /\ o \in BOOLEAN /\ r \in Sides /\ a \in C \cup {NULL} /\ a # x
  <2>1. r \in Sides
    BY DEF Side, Sides
  <2>2. a # x
    BY <1>1, <1>2, SideOf, BelowSelf
  <2> QED
    BY <1>1, <2>1, <2>2, SideIs, SideOf
<1>4. /\ SameLinks(t, v) /\ v.balance[x] = t.balance[x] + (IF b THEN 1 ELSE -1)
      /\ \A w \in Keys : w # x => v.balance[w] = t.balance[w]
  <2> DEFINE k == t.balance[x] + (IF b THEN 1 ELSE -1)
  <2>1. k \in Int
    BY <1>2
  <2> HIDE DEF k
  <2> QED
    BY <1>2, <2>1, SetBalanceIs DEF k
<1>5. Shape(v, C, f) /\ IsSide(v, x, r) /\ (\A y, z : Child(v, y, z) = Child(t, y, z)) /\ v.parent = t.parent
      /\ v \in Trees
  BY <1>1, <1>3, <1>4, SameShape DEF SameLinks
<1> HIDE DEF v, q, c, a, i, j, o, even, r, s
<1>6. /\ Tilt(v, x, s) = Tilt(t, x, s) - 1
      /\ v.balance[x] = 0 <=> Tilt(v, x, s) = 0
      /\ v.balance[x] \in {1, -1} <=> Tilt(v, x, s) \in {1, -1}
      /\ Tilt(t, x, s) = i + 1 - j /\ Tilt(t, x, s) \in -1 .. 1 /\ j \in Nat
      /\ H[x] = 1 + Higher(i + 1, j)
  <2>1. Tilt(t, x, s) = i + 1 - j /\ Tilt(t, x, s) \in -1 .. 1 /\ j \in Nat
        /\ H[x] = 1 + Higher(i + 1, j)
    BY <1>1 DEF Fits
  <2>2. CASE b
    <3>1. s = 0
      BY <2>2 DEF s, Side
    <3> QED
      BY <1>2, <1>4, <2>1, <2>2, <3>1 DEF Tilt
  <2>3. CASE ~b
    <3>1. s = 1
      BY <2>3 DEF s, Side
    <3> QED
      BY <1>2, <1>4, <2>1, <2>3, <3>1 DEF Tilt
  <2> QED
    BY <2>2, <2>3
<1>7. ASSUME NEW w \in C, w # x PROVE Level(v, H, w)
  <2>1. w \in Keys /\ Level(t, H, w) /\ v.balance[w] = t.balance[w]
    BY <1>1, <1>2, <1>4, <1>7
  <2> QED
    BY <1>2, <1>5, <2>1, LevelStays
<1>8. Untouched(t, v, C)
  BY <1>1, <1>4 DEF Untouched, SameLinks
<1>9. /\ v.balance[x] = 0 => LowerOnce(t, x, b) = [tree |-> v, node |-> a, is_left |-> o]
      /\ v.balance[x] \in {1, -1} => LowerOnce(t, x, b) = [tree |-> v, node |-> NULL, is_left |-> b]
      /\ v.balance[x] \notin {0, 1, -1} /\ v.balance[q] = 0 =>
           LowerOnce(t, x, b) = [tree |-> Rotate(even, x, s), node |-> NULL, is_left |-> b]
      /\ v.balance[x] \notin {0, 1, -1} /\ v.balance[q] # 0 =>
           LowerOnce(t, x, b) = [tree |-> Rebalance(v, x), node |-> a, is_left |-> o]
  BY <1>2, LowerOnceIs DEF v, a, o, q, even, s
\* x gets lower.
<1>10. CASE Tilt(t, x, s) = 1
  <2> DEFINE G == [w \in Keys \cup {NULL} |-> IF w = x THEN i + 1 ELSE H[w]]
  <2>1. i = j /\ H[x] = i + 2 /\ v.balance[x] = 0 /\ Tilt(v, x, s) = 0
    BY <1>1, <1>6, <1>10 DEF Higher
  <2>2. G[x] = i + 1 /\ \A w \in C \cup {NULL} : w # x => G[w] = H[w]
    BY <1>2
  <2> HIDE DEF G
  <2>3. c \in C \cup {NULL} /\ c # x /\ q \in C \cup {NULL} /\ q # x /\ 1 - s \in Sides
    <3>1. 1 - s \in Sides
      BY <1>1 DEF Sides
    <3> QED
      BY <1>1, <3>1, BelowSelf DEF Shape, Linked, c, q
  <2>4. Level(v, G, x)
    <3>1. Fits(G[x], 0, G[c], G[q])
      BY <1>1, <2>1, <2>2, <2>3 DEF Fits, Higher, i, j
    <3> QED
      BY <1>1, <1>2, <1>5, <2>1, <3>1, LevelIs DEF c, q
  <2>5. ASSUME NEW w \in C, w # a PROVE Level(v, G, w)
    <3>1. CASE w # x
      <4>1. ASSUME NEW z \in Sides PROVE Child(t, w, z) \in C \cup {NULL} /\ Child(t, w, z) # x
        <5>1. Child(t, w, z) \in C \cup {NULL} /\ (Child(t, w, z) # NULL => t.parent[Child(t, w, z)] = w)
          BY <1>1 DEF Shape, Linked
        <5> QED
          BY <1>1, <1>2, <2>5, <5>1 DEF a
      <4>2. \A z \in Sides : Child(v, w, z) = Child(v, w, z) /\ G[Child(v, w, z)] = H[Child(v, w, z)]
        BY <1>5, <2>2, <4>1
      <4>3. Level(v, H, w) /\ w \in Keys /\ G[w] = H[w]
        BY <1>2, <1>7, <2>2, <3>1
      <4> QED
        BY <1>5, <4>2, <4>3, LevelStays
    <3> QED
      BY <2>4, <3>1
  <2>6. ASSUME a # NULL
        PROVE  /\ a \in C /\ G[Child(v, a, r)] \in Nat
               /\ Fits(G[a], Tilt(v, a, r), G[Child(v, a, r)] + 1, G[Child(v, a, 1 - r)])
               /\ f[x] \subseteq f[a] /\ a \notin f[x]
    <3>1. a \in C /\ Child(t, a, r) = x /\ 1 - r \in Sides /\ Child(t, a, 1 - r) # x
      <4>1. 1 - r \in Sides
        BY <1>3 DEF Sides
      <4> QED
        BY <1>3, <2>6, <4>1 DEF IsSide, a
    <3>2. Level(v, H, a) /\ a \in Keys
      BY <1>2, <1>3, <1>7, <3>1
    <3>3. Fits(H[a], Tilt(v, a, r), H[x], H[Child(v, a, 1 - r)])
      BY <1>3, <1>5, <3>1, <3>2, LevelIs
    <3>4. Child(v, a, 1 - r) \in C \cup {NULL} /\ Child(v, a, 1 - r) # x /\ Child(v, a, r) = x
      BY <1>1, <1>5, <3>1 DEF Shape, Linked
    <3>5. G[a] = H[a] /\ G[Child(v, a, 1 - r)] = H[Child(v, a, 1 - r)] /\ G[x] + 1 = H[x]
      BY <1>1, <1>3, <2>1, <2>2, <3>1, <3>4
    <3>6. G[x] \in Nat
      BY <1>1, <2>2
    <3>7. f[x] \subseteq f[a] /\ a \notin f[x]
      BY <1>1, <1>3, <3>1, BelowSelf
    <3> QED
      BY <3>1, <3>3, <3>4, <3>5, <3>6, <3>7
  <2>7. Falling(v, C, f, G, a, r)
    BY <1>1, <1>2, <1>3, <1>5, <2>2, <2>5, <2>6 DEF Falling
  <2>8. Fell(t, [tree |-> v, node |-> a, is_left |-> o], C, f, x)
    BY <1>3, <1>8, <2>6, <2>7, HigherFalls DEF r
  <2> QED
    BY <1>9, <2>1, <2>8
\* x stays as high as it was.
<1>11. CASE Tilt(t, x, s) = 0
  <2>1. j = i + 1 /\ H[x] = i + 2 /\ Tilt(v, x, s) = -1
    BY <1>1, <1>6, <1>11 DEF Higher
  <2>2. Level(v, H, x)
    <3>1. Fits(H[x], -1, H[c], H[q])
      BY <1>1, <2>1 DEF Fits, Higher, i, j
    <3> QED
      BY <1>1, <1>2, <1>5, <2>1, <3>1, LevelIs DEF c, q
  <2>3. \A w \in C : Level(v, H, w)
    BY <1>7, <2>2
  <2>4. Fell(t, [tree |-> v, node |-> NULL, is_left |-> b], C, f, x)
    BY <1>1, <1>5, <1>8, <2>3, EndedFalls
  <2>5. v.balance[x] \in {1, -1}
    BY <1>6, <2>1
  <2> QED
    BY <1>9, <2>4, <2>5
\* x has to be rotated.
<1>12. CASE Tilt(t, x, s) = -1
  <2>1. j = i + 2 /\ H[x] = i + 3 /\ Tilt(v, x, s) = -2 /\ v.balance[x] \notin {0, 1, -1}
    BY <1>1, <1>6, <1>12 DEF Higher
  <2>2. q \in C /\ 1 - s \in Sides
    <3>1. q # NULL
      BY <1>1, <2>1 DEF j
    <3>2. 1 - s \in Sides
      BY <1>1 DEF Sides
    <3> QED
      BY <1>1, <3>1, <3>2 DEF Shape, Linked, q
  <2>3. Heavy(v, C, f, H, x, s, r, q)
    <3>1. q = Child(v, x, 1 - s) /\ H[Child(v, x, s)] = i /\ H[q] = i + 2
      BY <1>5, <2>1 DEF q, i, j, c
    <3> QED
      BY <1>1, <1>3, <1>5, <1>7, <2>2, <3>1 DEF Heavy
  <2>4. /\ Tilt(v, q, s) \in -1 .. 1 /\ x # q /\ q \in Keys /\ v.balance[q] \in Int
        /\ v.balance[q] = 0 <=> Tilt(v, q, s) = 0
    <3>1. Tilt(v, q, s) \in -1 .. 1 /\ x # q /\ q \in Keys
      BY <2>3, HeavyNodes
    <3>2. v.balance[q] \in Int
      BY <1>5, <3>1 DEF Trees
    <3> QED
      BY <3>1, <3>2 DEF Tilt
  <2>5. H[Child(v, x, s)] = i /\ v.parent[x] = a
    BY <1>5 DEF i, c, a
  <2>6. a # NULL => Level(v, H, a)
    BY <1>3, <1>7
  <2>7. CASE v.balance[q] = 0
    <3>1. /\ SameLinks(v, even) /\ even.balance[x] = (IF b THEN 1 ELSE -1)
          /\ even.balance[q] = (IF b THEN -1 ELSE 1)
          /\ \A w \in Keys : w # x /\ w # q => even.balance[w] = v.balance[w]
      <4> DEFINE k == IF b THEN 1 ELSE -1
                 l == IF b THEN -1 ELSE 1
      <4>1. k \in Int /\ l \in Int
        OBVIOUS
      <4> HIDE DEF k, l
      <4> QED
        BY <1>2, <1>5, <2>4, <4>1, SetTwoIs DEF even, k, l
    <3>2. Tilt(even, x, s) = 0 - 1 /\ Tilt(even, q, s) = 1 - 0 /\ Tilt(v, q, 1 - s) = 0
      <4>1. Tilt(v, q, 1 - s) = 0
        BY <2>7 DEF Tilt
      <4>2. CASE b
        <5>1. s = 0
          BY <4>2 DEF s, Side
        <5> QED
          <6>1. even.balance[x] = 1 /\ even.balance[q] = -1
            BY <3>1, <4>2
          <6> QED
            BY <4>1, <5>1, <6>1 DEF Tilt
      <4>3. CASE ~b
        <5>1. s = 1
          BY <4>3 DEF s, Side
        <5> QED
          <6>1. even.balance[x] = -1 /\ even.balance[q] = 1
            BY <3>1, <4>3
          <6> QED
            BY <4>1, <5>1, <6>1 DEF Tilt
      <4> QED
        BY <4>2, <4>3
    <3>3. Rises(v, Rotate(even, x, s), C, f, H, x, r, i + 3 - 0)
      BY <2>3, <2>5, <3>1, <3>2, SingleRises
    <3>4. i + 3 - 0 = H[x]
      BY <1>1, <2>1
    <3>5. PICK g, G, top : Risen(v, Rotate(even, x, s), C, f, H, x, r, H[x], g, G, top)
      BY <3>3, <3>4 DEF Rises
    <3>6. \A w \in C : Level(Rotate(even, x, s), G, w)
      BY <1>5, <2>5, <2>6, <3>5, RiseEnds
    <3>7. Shape(Rotate(even, x, s), C, g) /\ G[NULL] = 0 /\ Untouched(v, Rotate(even, x, s), C)
      BY <3>5 DEF Risen
    <3>8. Untouched(t, Rotate(even, x, s), C)
      BY <1>8, <3>7 DEF Untouched
    <3>9. Fell(t, [tree |-> Rotate(even, x, s), node |-> NULL, is_left |-> b], C, f, x)
      BY <3>6, <3>7, <3>8, EndedFalls
    <3> QED
      BY <1>9, <2>1, <2>7, <3>9
  <2>8. CASE v.balance[q] # 0
    <3>1. H[x] \in Nat \ {0} /\ i + 2 = H[x] - 1
      BY <1>1, <2>1
    <3>2. Rises(v, Rebalance(v, x), C, f, H, x, r, i + 2)
      BY <2>1, <2>3, <2>4, <2>5, <2>8, RebalanceRises
    <3>3. PICK g, G, top : Risen(v, Rebalance(v, x), C, f, H, x, r, H[x] - 1, g, G, top)
      BY <3>1, <3>2 DEF Rises
    <3>4. /\ Falling(Rebalance(v, x), C, g, G, a, r)
          /\ a # NULL => f[x] \subseteq g[a] /\ a \notin f[x]
      <4>1. v.parent[x] # NULL => Level(v, H, v.parent[x])
        BY <2>5, <2>6
      <4>2. /\ Falling(Rebalance(v, x), C, g, G, v.parent[x], r)
            /\ v.parent[x] # NULL => f[x] \subseteq g[v.parent[x]] /\ v.parent[x] \notin f[x]
        BY <1>3, <1>5, <3>1, <3>3, <4>1, RiseFalls
      <4> QED
        BY <2>5, <4>2
    <3>5. Untouched(v, Rebalance(v, x), C)
      BY <3>3 DEF Risen
    <3>6. Untouched(t, Rebalance(v, x), C)
      BY <1>8, <3>5 DEF Untouched
    <3>7. Fell(t, [tree |-> Rebalance(v, x), node |-> a, is_left |-> o], C, f, x)
      BY <1>3, <3>4, <3>6, HigherFalls DEF r
    <3> QED
      BY <1>9, <2>1, <2>8, <3>7
  <2> QED
    BY <2>7, <2>8
<1> QED
  BY <1>6, <1>10, <1>11, <1>12

-----------------------------------------------------------------------------
(***************************************************************************)
(* Loops.                                                                  *)
(***************************************************************************)
\* The turns of a loop, as Loop has them, are there.
Turns(step, start, m, f) == f = [i \in 0 .. m |-> IF i = 0 THEN start ELSE step[f[i - 1]]]

LEMMA TurnsExist ==
    ASSUME NEW step, NEW start, NEW m \in Nat
    PROVE  \E f : Turns(step, start, m, f)
<1> DEFINE Good == {k \in 0 .. m : \E f : Turns(step, start, k, f)}
<1>1. 0 \in Good
  <2> DEFINE f == [k \in 0 .. 0 |-> start]
  <2>1. Turns(step, start, 0, f)
    BY DEF Turns
  <2> QED
    BY <2>1
<1>2. ASSUME NEW k \in 0 .. m - 1, k \in Good PROVE k + 1 \in Good
  <2>1. PICK f : Turns(step, start, k, f)
    BY <1>2
  <2>2. \A j \in 0 .. k : f[j] = IF j = 0 THEN start ELSE step[f[j - 1]]
    BY <2>1, Zenon DEF Turns
  <2> DEFINE g == [j \in 0 .. k + 1 |-> IF j = k + 1 THEN step[f[k]] ELSE f[j]]
             h == [j \in 0 .. k + 1 |-> IF j = 0 THEN start ELSE step[g[j - 1]]]
  <2>3. ASSUME NEW j \in 0 .. k + 1 PROVE g[j] = h[j]
    <3>1. CASE j = k + 1
      <4>1. k \in 0 .. k + 1 /\ k # k + 1 /\ j - 1 = k /\ j # 0
        BY <3>1
      <4>2. g[k] = f[k] /\ g[j] = step[f[k]] /\ h[j] = step[g[j - 1]]
        BY <3>1, <4>1
      <4> HIDE DEF g, h
      <4> QED
        BY <4>1, <4>2
    <3>2. CASE j # k + 1 /\ j # 0
      <4>1. j \in 0 .. k /\ j - 1 \in 0 .. k + 1 /\ j - 1 # k + 1
        BY <3>2
      <4>2. g[j] = f[j] /\ g[j - 1] = f[j - 1] /\ h[j] = step[g[j - 1]]
        BY <3>2, <4>1
      <4> HIDE DEF g, h
      <4> QED
        BY <2>2, <3>2, <4>1, <4>2
    <3>3. CASE j = 0
      <4>1. j # k + 1 /\ j \in 0 .. k
        BY <3>3
      <4>2. g[j] = f[j] /\ h[j] = start
        BY <3>3, <4>1
      <4> HIDE DEF g, h
      <4> QED
        BY <2>2, <3>3, <4>1, <4>2
    <3> QED
      BY <3>1, <3>2, <3>3
  <2>4. g = h
    <3>1. DOMAIN g = 0 .. k + 1 /\ DOMAIN h = 0 .. k + 1
      OBVIOUS
    <3>2. g = [j \in 0 .. k + 1 |-> g[j]] /\ h = [j \in 0 .. k + 1 |-> h[j]]
      OBVIOUS
    <3> HIDE DEF g, h
    <3>3. [j \in 0 .. k + 1 |-> g[j]] = [j \in 0 .. k + 1 |-> h[j]]
      BY <2>3, Zenon
    <3> QED
      BY <3>2, <3>3, Zenon
  <2>5. Turns(step, start, k + 1, g)
    BY <2>4, Zenon DEF Turns
  <2>6. k + 1 \in 0 .. m
    OBVIOUS
  <2> HIDE DEF g
  <2> QED
    BY <2>5, <2>6
<1>3. 0 .. m \subseteq Good
  <2> HIDE DEF Good
  <2> QED
    BY <1>1, <1>2, NatSetInduction
<1> QED
  BY <1>3

LEMMA LoopIs ==
    ASSUME NEW step, NEW start, n \in Nat
    PROVE  \E f : /\ Loop(step, start) = f[n] /\ f[0] = start
                  /\ \A i \in 0 .. n - 1 : f[i + 1] = step[f[i]]
<1> DEFINE f == CHOOSE g : g = [i \in 0 .. n |-> IF i = 0 THEN start ELSE step[g[i - 1]]]
<1>1. Loop(step, start) = f[n]
  BY DEF Loop
<1>2. Turns(step, start, n, f)
  <2>1. \E g : Turns(step, start, n, g)
    BY TurnsExist, Zenon
  <2>2. \E g : g = [i \in 0 .. n |-> IF i = 0 THEN start ELSE step[g[i - 1]]]
    BY <2>1, Zenon DEF Turns
  <2> QED
    BY <2>2, Zenon DEF Turns
<1> HIDE DEF f
<1>3. \A i \in 0 .. n : f[i] = IF i = 0 THEN start ELSE step[f[i - 1]]
  BY <1>2, Zenon DEF Turns
<1>4. f[0] = start
  BY <1>3
<1>5. ASSUME NEW i \in 0 .. n - 1 PROVE f[i + 1] = step[f[i]]
  <2>1. i + 1 \in 0 .. n /\ i + 1 # 0 /\ (i + 1) - 1 = i
    OBVIOUS
  <2> QED
    BY <1>3, <2>1
<1> QED
  BY <1>1, <1>4, <1>5

LEMMA MoreBelow ==
    ASSUME NEW C, IsFiniteSet(C), NEW A, NEW B, A \subseteq B, B \subseteq C, NEW x \in B, x \notin A
    PROVE  /\ Cardinality(A) \in Nat /\ Cardinality(B) \in Nat /\ Cardinality(C) \in Nat
           /\ Cardinality(A) + 1 <= Cardinality(B) /\ Cardinality(B) <= Cardinality(C)
<1>1. IsFiniteSet(B) /\ IsFiniteSet(A) /\ Cardinality(A) <= Cardinality(B) /\ Cardinality(B) <= Cardinality(C)
      /\ (Cardinality(B) = Cardinality(A) => B = A)
  <2>1. IsFiniteSet(B) /\ Cardinality(B) <= Cardinality(C)
    BY FS_Subset
  <2> QED
    BY <2>1, FS_Subset
<1>2. Cardinality(A) \in Nat /\ Cardinality(B) \in Nat /\ Cardinality(C) \in Nat
  BY <1>1, FS_CardinalityType
<1> QED
  BY <1>1, <1>2

\* The walk up ends with a tree.
LEMMA LowerIs ==
    ASSUME NEW t, NEW C, NEW f, NEW H, NEW x, NEW b \in BOOLEAN, Falling(t, C, f, H, x, Side(b)),
           n \in Nat, Cardinality(C) <= n
    PROVE  /\ \E g, G : IsTree(Lower(t, x, b), C, g, G)
           /\ Untouched(t, Lower(t, x, b), C)
<1> DEFINE step == [w \in Walks |-> IF w.node = NULL THEN w ELSE LowerOnce(w.tree, w.node, w.is_left)]
           start == [tree |-> t, node |-> x, is_left |-> b]
<1>1. PICK r : /\ Loop(step, start) = r[n] /\ r[0] = start
               /\ \A i \in 0 .. n - 1 : r[i + 1] = step[r[i]]
  <2> HIDE DEF step, start
  <2>1. /\ \E r : /\ Loop(step, start) = r[n] /\ r[0] = start
                  /\ \A i \in 0 .. n - 1 : r[i + 1] = step[r[i]]
    BY LoopIs
  <2> QED
    BY <2>1
<1>2. Lower(t, x, b) = r[n].tree
  BY <1>1, Zenon DEF Lower
<1>3. Shape(t, C, f) /\ IsFiniteSet(C) /\ t \in Trees /\ x \in Keys \cup {NULL} /\ NULL \notin C
  BY KeysAssumption DEF Falling, Shape
<1> DEFINE At(w, i) == /\ w \in Walks /\ Untouched(t, w.tree, C)
                       /\ \E g, G : /\ Falling(w.tree, C, g, G, w.node, Side(w.is_left))
                                    /\ w.node # NULL => Cardinality(g[w.node]) >= i + 1
           Good == {i \in 0 .. n : At(r[i], i)}
<1>4. 0 \in Good
  <2>1. r[0] \in Walks /\ r[0].tree = t /\ r[0].node = x /\ r[0].is_left = b
    BY <1>1, <1>3 DEF Walks
  <2>2. Untouched(t, t, C)
    BY DEF Untouched
  <2>3. x # NULL => Cardinality(f[x]) >= 0 + 1
    <3>1. SUFFICES ASSUME x # NULL PROVE Cardinality(f[x]) >= 0 + 1
      OBVIOUS
    <3>2. x \in f[x] /\ f[x] \subseteq C
      BY <1>3, <3>1, BelowSelf DEF Falling
    <3>3. {} \subseteq f[x] /\ x \notin {} /\ Cardinality({}) = 0
      BY FS_EmptySet
    <3>4. Cardinality({}) + 1 <= Cardinality(f[x]) /\ Cardinality(f[x]) \in Nat
      BY <1>3, <3>2, <3>3, MoreBelow
    <3> QED
      BY <3>3, <3>4
  <2>4. At(r[0], 0)
    BY <2>1, <2>2, <2>3
  <2> QED
    BY <2>4
<1>5. ASSUME NEW i \in 0 .. n - 1, i \in Good PROVE i + 1 \in Good
  <2>1. At(r[i], i) /\ i \in Nat /\ i + 1 \in 0 .. n
    BY <1>5
  <2>2. r[i + 1] = IF r[i].node = NULL THEN r[i] ELSE LowerOnce(r[i].tree, r[i].node, r[i].is_left)
    BY <1>1, <2>1
  <2>3. CASE r[i].node = NULL
    BY <2>1, <2>2, <2>3
  <2>4. CASE r[i].node # NULL
    <3> DEFINE w == r[i]
               y == r[i + 1]
    <3>1. w \in Walks /\ w.is_left \in BOOLEAN /\ Untouched(t, w.tree, C)
      BY <2>1 DEF Walks
    <3>2. PICK g, G : /\ Falling(w.tree, C, g, G, w.node, Side(w.is_left))
                      /\ Cardinality(g[w.node]) >= i + 1
      BY <2>1, <2>4
    <3>3. Fell(w.tree, y, C, g, w.node)
      BY <2>2, <2>4, <3>1, <3>2, LowerKeeps
    <3> HIDE DEF w, y
    <3>4. y \in Walks /\ Untouched(t, y.tree, C)
      BY <3>1, <3>3 DEF Fell, Untouched
    <3>5. PICK e, E : /\ Falling(y.tree, C, e, E, y.node, Side(y.is_left))
                      /\ y.node # NULL => g[w.node] \subseteq e[y.node] /\ y.node \notin g[w.node]
      BY <3>3 DEF Fell
    <3>6. y.node # NULL => Cardinality(e[y.node]) >= (i + 1) + 1
      <4>1. SUFFICES ASSUME y.node # NULL PROVE Cardinality(e[y.node]) >= (i + 1) + 1
        OBVIOUS
      <4>2. y.node \in e[y.node] /\ e[y.node] \subseteq C
        BY <3>5, <4>1, BelowSelf DEF Falling
      <4>5. g[w.node] \subseteq e[y.node] /\ y.node \notin g[w.node] /\ IsFiniteSet(C)
        BY <1>3, <3>5, <4>1
      <4>3. /\ Cardinality(g[w.node]) \in Nat /\ Cardinality(e[y.node]) \in Nat
            /\ Cardinality(g[w.node]) + 1 <= Cardinality(e[y.node])
        BY <4>2, <4>5, MoreBelow
      <4> QED
        BY <2>1, <3>2, <4>3
    <3>7. At(y, i + 1)
      BY <3>4, <3>5, <3>6
    <3> QED
      BY <2>1, <3>7 DEF y
  <2> QED
    BY <2>3, <2>4
<1>6. n \in Good
  <2> HIDE DEF Good
  <2> QED
    BY <1>4, <1>5, NatSetInduction
<1>7. At(r[n], n)
  BY <1>6
<1>8. PICK g, G : /\ Falling(r[n].tree, C, g, G, r[n].node, Side(r[n].is_left))
                  /\ r[n].node # NULL => Cardinality(g[r[n].node]) >= n + 1
  BY <1>7
<1>9. r[n].node = NULL
  <2>1. SUFFICES ASSUME r[n].node # NULL PROVE FALSE
    OBVIOUS
  <2>2. r[n].node \in g[r[n].node] /\ g[r[n].node] \subseteq C
    BY <1>8, <2>1, BelowSelf DEF Falling
  <2> DEFINE B == g[r[n].node]
  <2>3. IsFiniteSet(C) /\ B \subseteq C
    BY <1>3, <2>2
  <2> HIDE DEF B
  <2>4. IsFiniteSet(B) /\ Cardinality(B) <= Cardinality(C)
    BY <2>3, FS_Subset
  <2>5. Cardinality(B) \in Nat /\ Cardinality(C) \in Nat
    BY <2>3, <2>4, FS_CardinalityType
  <2>6. Cardinality(B) >= n + 1
    BY <1>8, <2>1 DEF B
  <2> QED
    BY <2>4, <2>5, <2>6
<1>10. IsTree(r[n].tree, C, g, G)
  BY <1>3, <1>8, <1>9 DEF Falling, IsTree
<1> QED
  BY <1>2, <1>7, <1>10

-----------------------------------------------------------------------------
(***************************************************************************)
(* The lookup.                                                             *)
(***************************************************************************)
LEMMA BelowTop ==
    ASSUME NEW t, NEW C, NEW f, Shape(t, C, f), NEW w \in C, NEW x \in C, w \in f[x], x \in f[w]
    PROVE  w = x
<1> SUFFICES ASSUME w # x PROVE FALSE
  OBVIOUS
<1>1. PICK s \in Sides : w \in f[Child(t, x, s)]
  BY DEF Shape, Linked, Sides
<1>2. Child(t, x, s) \in C
  BY <1>1 DEF Shape, Linked
<1>3. f[w] \subseteq f[Child(t, x, s)]
  BY <1>1, <1>2, BelowTransitive
<1> QED
  BY <1>3, BelowSelf

\* The nodes above p are those that p is below of.  k belongs on the side of
\* each that leads to p.
Path(t, C, f, k, p) == \A w \in C, s \in Sides : p \in f[Child(t, w, s)] => Before(s, k, w)

\* u is the deepest node above p, p too, that has a balance, or the root.
Deepest(t, C, f, p, u) ==
    /\ u \in C /\ p \in f[u]
    /\ u = t.root \/ t.balance[u] # 0
    /\ \A w \in C : w # u /\ w \in f[u] /\ p \in f[w] => t.balance[w] = 0

\* Where a lookup may be.
At(t, C, f, k, at) ==
    /\ at \in Places /\ at.node \in C \cup {NULL}
    /\ k \in C => k \in f[at.node]
    /\ at.pparent = NULL => at.node = t.root
    /\ at.pparent = NULL /\ at.node # k => at.unbalanced = t.root
    /\ at.pparent # NULL =>
         /\ at.pparent \in C
         /\ at.node = Child(t, at.pparent, Side(at.is_left)) /\ Before(Side(at.is_left), k, at.pparent)
         /\ Path(t, C, f, k, at.pparent)
         /\ at.node # k => Deepest(t, C, f, at.pparent, at.unbalanced)

\* The descent from a node that is not the root adds one node to the path.
LEMMA PathGrows ==
    ASSUME NEW t, NEW C, NEW f, Shape(t, C, f), NEW p \in C, NEW s \in Sides, NEW x \in C, x = Child(t, p, s),
           NEW w \in C, x \in f[w], w # x
    PROVE  p \in f[w] /\ t.parent[x] = p
<1>1. t.parent[x] = p
  BY KeysAssumption DEF Shape, Linked
<1> QED
  BY <1>1, ParentBelow

LEMMA DescendPath ==
    ASSUME NEW t, NEW C, NEW f, Shape(t, C, f), NEW k \in Keys, NEW at, At(t, C, f, k, at),
           at.node # NULL, at.node # k
    PROVE  Path(t, C, f, k, at.node)
<1> DEFINE x == at.node
           p == at.pparent
           r == Side(at.is_left)
<1>1. x \in C /\ NULL \notin C /\ C \subseteq Keys
  BY KeysAssumption DEF At, Shape
<1> SUFFICES ASSUME NEW w \in C, NEW s \in Sides, x \in f[Child(t, w, s)] PROVE Before(s, k, w)
  BY DEF Path
<1> DEFINE c == Child(t, w, s)
<1>2. c \in C
  BY DEF Shape, Linked
<1>3. CASE p = NULL
  <2>1. f[x] = C
    BY <1>3 DEF At, Shape
  <2>2. f[x] \subseteq f[c]
    BY <1>2, BelowTransitive
  <2> QED
    BY <2>1, <2>2, BelowSelf
<1>4. CASE p # NULL
  <2>1. p \in C /\ x = Child(t, p, r) /\ Before(r, k, p) /\ Path(t, C, f, k, p)
    BY <1>4 DEF At
  <2>2. r \in Sides
    BY DEF Side, Sides
  <2> HIDE DEF r, x, p
  <2>3. CASE c = x
    BY <1>1, <2>1, <2>2, <2>3, OnlyChild
  <2>4. CASE c # x
    <3>1. p \in f[c]
      BY <1>1, <1>2, <2>1, <2>2, <2>4, PathGrows DEF x
    <3> QED
      BY <2>1, <3>1 DEF Path
  <2> QED
    BY <2>3, <2>4
<1> QED
  BY <1>3, <1>4

LEMMA DescendDeepest ==
    ASSUME NEW t, NEW C, NEW f, Shape(t, C, f), NEW k \in Keys, NEW at, At(t, C, f, k, at),
           at.node # NULL, at.node # k,
           NEW u, u = (IF t.balance[at.node] # 0 THEN at.node ELSE at.unbalanced)
    PROVE  Deepest(t, C, f, at.node, u)
<1> DEFINE x == at.node
           p == at.pparent
           r == Side(at.is_left)
<1>1. x \in C /\ NULL \notin C /\ C \subseteq Keys /\ x \in f[x]
  <2>1. x \in C /\ NULL \notin C /\ C \subseteq Keys
    BY KeysAssumption DEF At, Shape
  <2> QED
    BY <2>1, BelowSelf
<1>2. CASE u = x
  BY <1>1, <1>2, BelowTop DEF Deepest, At
<1>3. CASE u # x
  <2>1. t.balance[x] = 0 /\ u = at.unbalanced
    BY <1>3
  <2>2. p # NULL
    BY <1>1, <1>3, <2>1 DEF At
  <2>3. p \in C /\ x = Child(t, p, r) /\ Deepest(t, C, f, p, u)
    BY <2>1, <2>2 DEF At
  <2>4. r \in Sides
    BY DEF Side, Sides
  <2> HIDE DEF r, x, p
  <2>5. x \in f[u]
    <3>1. f[p] \subseteq f[u] /\ f[x] \subseteq f[p]
      BY <2>3, <2>4, BelowTransitive, BelowSelf DEF Deepest
    <3> QED
      BY <1>1, <3>1
  <2>6. ASSUME NEW w \in C, w # u, w \in f[u], x \in f[w] PROVE t.balance[w] = 0
    <3>1. CASE w = x
      BY <2>1, <3>1
    <3>2. CASE w # x
      <4>1. p \in f[w]
        BY <1>1, <2>3, <2>4, <2>6, <3>2, PathGrows
      <4> QED
        BY <2>3, <2>6, <4>1 DEF Deepest
    <3> QED
      BY <3>1, <3>2
  <2>7. u \in C /\ (u = t.root \/ t.balance[u] # 0)
    BY <2>3 DEF Deepest
  <2>8. Deepest(t, C, f, x, u)
    BY <2>5, <2>6, <2>7 DEF Deepest
  <2> QED
    BY <2>8 DEF x
<1> QED
  BY <1>2, <1>3

LEMMA DescendAt ==
    ASSUME NEW t, NEW C, NEW f, Shape(t, C, f), NEW k \in Keys, NEW at, At(t, C, f, k, at)
    PROVE  LET to == Descend(t, k, at)
           IN /\ At(t, C, f, k, to)
              /\ at.node \in {NULL, k} => to.node = at.node
              /\ at.node \notin {NULL, k} /\ to.node # NULL =>
                   /\ to.node \in C /\ f[to.node] \subseteq f[at.node]
                   /\ at.node \in f[at.node] /\ at.node \notin f[to.node]
<1> DEFINE x == at.node
           u == IF t.balance[x] # 0 THEN x ELSE at.unbalanced
           b == k < x
           c == IF b THEN t.left[x] ELSE t.right[x]
           to == Descend(t, k, at)
<1>1. at \in Places /\ x \in C \cup {NULL} /\ NULL \notin C /\ C \subseteq Keys /\ C \subseteq Int /\ k \in Int /\ k # NULL
  BY KeysAssumption DEF At, Shape
<1>2. CASE x = NULL
  <2>1. to = at
    BY <1>2 DEF Descend
  <2> QED
    BY <1>2, <2>1
<1>3. CASE x = k
  <2>1. to = [at EXCEPT !.unbalanced = u] /\ x # NULL
    BY <1>1, <1>3 DEF Descend
  <2>2. u \in Keys \cup {NULL}
    BY <1>1, <1>3 DEF Places
  <2> HIDE DEF u
  <2>3. to \in Places /\ to.node = k /\ to.pparent = at.pparent /\ to.is_left = at.is_left
    BY <1>1, <1>3, <2>1, <2>2 DEF Places
  <2> HIDE DEF to
  <2>4. At(t, C, f, k, to)
    BY <1>3, <2>3, Zenon DEF At
  <2> QED
    BY <1>3, <2>3, <2>4 DEF to
<1>4. CASE x # NULL /\ x # k
  <2> DEFINE s == Side(b)
  <2>1. to = [node |-> c, pparent |-> x, unbalanced |-> u, is_left |-> b]
    BY <1>4 DEF Descend
  <2>2. x \in C /\ x \in Keys /\ x \in Int /\ b \in BOOLEAN
    <3>1. x \in C /\ x \in Keys /\ x \in Int
      BY <1>1, <1>4
    <3> HIDE DEF x
    <3>2. (k < x) \in BOOLEAN
      BY <1>1, <3>1
    <3> QED
      BY <3>1, <3>2
  <2>3. s \in Sides /\ c = Child(t, x, s) /\ Before(s, k, x)
    BY <1>1, <1>4, <2>2 DEF Side, Sides, Child, Before
  <2>4. c \in C \cup {NULL} /\ f[c] \subseteq f[x] /\ x \in f[x] /\ x \notin f[c]
    BY <2>2, <2>3, BelowSelf DEF Shape, Linked
  <2>5. ASSUME k \in C PROVE k \in f[c]
    <3>1. k \in f[x]
      BY <2>5 DEF At
    <3>2. PICK o \in Sides : k \in f[Child(t, x, o)]
      BY <1>4, <2>2, <3>1 DEF Shape, Linked, Sides
    <3>3. Before(o, k, x)
      BY <2>2, <3>2 DEF Shape, Linked
    <3>4. o = s
      BY <1>1, <2>2, <2>3, <3>3 DEF Before, Sides
    <3> QED
      BY <2>3, <3>2, <3>4
  <2>6. Path(t, C, f, k, x) /\ Deepest(t, C, f, x, u)
    BY <1>4, DescendPath, DescendDeepest
  <2>7. u \in Keys \cup {NULL}
    BY <1>1, <2>2 DEF Places
  <2> HIDE DEF u, c, b, x, s
  <2>8. to \in Places /\ to.node = c /\ to.pparent = x /\ to.unbalanced = u /\ to.is_left = b
    BY <1>1, <2>1, <2>2, <2>4, <2>7 DEF Places
  <2> HIDE DEF to
  <2>9. Side(to.is_left) = s
    BY <2>8 DEF s
  <2>10. At(t, C, f, k, to)
    BY <1>4, <2>2, <2>3, <2>4, <2>5, <2>6, <2>8, <2>9, Zenon DEF At
  <2> QED
    BY <1>4, <2>2, <2>4, <2>8, <2>10 DEF to, x
<1> QED
  BY <1>2, <1>3, <1>4

\* A lookup ends at k or at the place where k belongs.
LEMMA LookupIs ==
    ASSUME NEW t, NEW C, NEW f, Shape(t, C, f), n \in Nat, Cardinality(C) <= n, NEW k \in Keys
    PROVE  LET at == avl_lookup_engine(t, k)
           IN At(t, C, f, k, at) /\ at.node = IF k \in C THEN k ELSE NULL
<1> DEFINE step == [at \in Places |-> Descend(t, k, at)]
           start == [node |-> t.root, pparent |-> NULL, unbalanced |-> t.root, is_left |-> FALSE]
           end == avl_lookup_engine(t, k)
<1>1. PICK r : /\ Loop(step, start) = r[n] /\ r[0] = start
               /\ \A i \in 0 .. n - 1 : r[i + 1] = step[r[i]]
  <2> HIDE DEF step, start
  <2>1. /\ \E r : /\ Loop(step, start) = r[n] /\ r[0] = start
                  /\ \A i \in 0 .. n - 1 : r[i + 1] = step[r[i]]
    BY LoopIs
  <2> QED
    BY <2>1
<1>2. end = r[n]
  BY <1>1, Zenon DEF avl_lookup_engine
<1>3. /\ IsFiniteSet(C) /\ t \in Trees /\ NULL \notin C /\ NULL \notin Keys /\ t.root \in Keys \cup {NULL}
      /\ t.root \in C \cup {NULL} /\ f[t.root] = C /\ f[NULL] = {}
  BY KeysAssumption DEF Shape
<1> DEFINE Near(at, i) == /\ At(t, C, f, k, at)
                          /\ at.node \notin {NULL, k} => Cardinality(f[at.node]) <= n - i
           Good == {i \in 0 .. n : Near(r[i], i)}
<1>4. 0 \in Good
  <2>1. start \in Places
    BY <1>3 DEF Places
  <2>2. At(t, C, f, k, start)
    BY <1>3, <2>1 DEF At
  <2>3. start.node = t.root
    OBVIOUS
  <2> HIDE DEF start
  <2>4. Cardinality(C) <= n - 0
    BY <1>3, FS_CardinalityType
  <2>5. start.node \notin {NULL, k} => Cardinality(f[start.node]) <= n - 0
    BY <1>3, <2>3, <2>4
  <2>6. Near(r[0], 0)
    BY <1>1, <2>2, <2>5
  <2> QED
    BY <2>6
<1>5. ASSUME NEW i \in 0 .. n - 1, i \in Good PROVE i + 1 \in Good
  <2> DEFINE at == r[i]
             to == r[i + 1]
  <2>1. Near(at, i) /\ i \in Nat /\ i + 1 \in 0 .. n
    BY <1>5
  <2>2. at \in Places
    BY <2>1 DEF At
  <2>3. to = Descend(t, k, at)
    BY <1>1, <2>1, <2>2
  <2> HIDE DEF at, to, step, start
  <2>4. /\ At(t, C, f, k, to)
        /\ at.node \in {NULL, k} => to.node = at.node
        /\ at.node \notin {NULL, k} /\ to.node # NULL =>
                   /\ to.node \in C /\ f[to.node] \subseteq f[at.node]
                   /\ at.node \in f[at.node] /\ at.node \notin f[to.node]
    BY <2>1, <2>3, DescendAt
  <2>5. to.node \notin {NULL, k} => Cardinality(f[to.node]) <= n - (i + 1)
    <3> SUFFICES ASSUME to.node \notin {NULL, k} PROVE Cardinality(f[to.node]) <= n - (i + 1)
      OBVIOUS
    <3>1. at.node \notin {NULL, k} /\ at.node \in C
      BY <2>1, <2>4 DEF At
    <3>2. f[at.node] \subseteq C /\ IsFiniteSet(C)
      BY <1>3, <3>1, BelowSelf
    <3>3. f[to.node] \subseteq f[at.node] /\ at.node \in f[at.node] /\ at.node \notin f[to.node]
      BY <2>4, <3>1
    <3>4. /\ Cardinality(f[to.node]) \in Nat /\ Cardinality(f[at.node]) \in Nat
          /\ Cardinality(f[to.node]) + 1 <= Cardinality(f[at.node])
      BY <3>2, <3>3, MoreBelow
    <3>5. Cardinality(f[at.node]) <= n - i
      BY <2>1, <3>1
    <3> QED
      BY <2>1, <3>4, <3>5
  <2>6. Near(to, i + 1)
    BY <2>4, <2>5
  <2> QED
    BY <2>1, <2>6 DEF to
<1>6. n \in Good
  <2> HIDE DEF Good
  <2> QED
    BY <1>4, <1>5, NatSetInduction
<1> HIDE DEF end
<1>7. Near(end, n)
  BY <1>2, <1>6
<1>8. end.node \in {NULL, k}
  <2> SUFFICES ASSUME end.node \notin {NULL, k} PROVE FALSE
    OBVIOUS
  <2> DEFINE B == f[end.node]
  <2>1. end.node \in C
    BY <1>7 DEF At
  <2>2. end.node \in B /\ B \subseteq C
    BY <2>1, BelowSelf
  <2>3. Cardinality(B) <= n - n
    BY <1>7
  <2> HIDE DEF B
  <2>4. IsFiniteSet(B)
    BY <1>3, <2>2, FS_Subset
  <2>5. Cardinality(B) \in Nat /\ Cardinality(B) # 0
    BY <2>2, <2>4, FS_CardinalityType, FS_EmptySet
  <2> QED
    BY <2>3, <2>5
<1>9. end.node = IF k \in C THEN k ELSE NULL
  BY <1>3, <1>7, <1>8 DEF At
<1> QED
  BY <1>7, <1>9 DEF end

-----------------------------------------------------------------------------
(***************************************************************************)
(* Leaning.                                                                *)
(***************************************************************************)
\* What leaning from k up to u adds to the balance of w.
Leaning(t, f, k, u, w) ==
    IF w \in f[u] /\ w # k /\ k \in f[w] THEN (IF k \in f[Child(t, w, 0)] THEN -1 ELSE 1) ELSE 0

\* The leaning goes up to the parent a of y.
LEMMA LeaningGrows ==
    ASSUME NEW t, NEW C, NEW f, Shape(t, C, f), NEW k \in C, NEW y \in C, k \in f[y],
           NEW a \in C, NEW s \in Sides, Child(t, a, s) = y, NEW w
    PROVE  /\ w # a => Leaning(t, f, k, a, w) = Leaning(t, f, k, y, w)
           /\ Leaning(t, f, k, y, a) = 0
           /\ Leaning(t, f, k, a, a) = IF t.left[a] = y THEN -1 ELSE 1
<1>1. a \in f[a] /\ f[y] \subseteq f[a] /\ a \notin f[y] /\ f[Child(t, a, 0)] \cap f[Child(t, a, 1)] = {}
      /\ y # NULL /\ f[a] \subseteq C
  BY BelowSelf
<1>2. Leaning(t, f, k, y, a) = 0
  BY <1>1 DEF Leaning
<1>3. Leaning(t, f, k, a, a) = IF t.left[a] = y THEN -1 ELSE 1
  <2>1. a # k /\ k \in f[a]
    BY <1>1
  <2>2. k \in f[Child(t, a, 0)] <=> t.left[a] = y
    BY <1>1 DEF Sides, Child
  <2> QED
    BY <1>1, <2>1, <2>2 DEF Leaning
<1>4. ASSUME w # a, w \in f[a], k \in f[w] PROVE w \in f[y]
  <2>1. PICK o \in Sides : w \in f[Child(t, a, o)]
    BY <1>4 DEF Shape, Linked, Sides
  <2>2. Child(t, a, o) \in C
    BY <2>1 DEF Shape, Linked
  <2>3. k \in f[Child(t, a, o)]
    BY <1>4, <2>1, <2>2, BelowTransitive
  <2>4. o = s
    BY <1>1, <2>3 DEF Sides
  <2> QED
    BY <2>1, <2>4
<1>5. w # a => Leaning(t, f, k, a, w) = Leaning(t, f, k, y, w)
  <2> SUFFICES ASSUME w # a PROVE Leaning(t, f, k, a, w) = Leaning(t, f, k, y, w)
    OBVIOUS
  <2>1. w \in f[a] /\ w # k /\ k \in f[w] <=> w \in f[y] /\ w # k /\ k \in f[w]
    BY <1>1, <1>4
  <2> QED
    BY <2>1 DEF Leaning
<1> QED
  BY <1>2, <1>3, <1>5

\* How far the leaning has come after i turns.
Lent(t, C, f, k, u, s, i) ==
    /\ s \in Leans /\ s.node \in C /\ s.node \in f[u] /\ k \in f[s.node]
    /\ \A w \in Keys : s.balance[w] = t.balance[w] + Leaning(t, f, k, s.node, w)
    /\ s.node # u => Cardinality(f[s.node]) >= i + 1

LEMMA LeanOnceIs ==
    ASSUME NEW t, NEW C, NEW f, Shape(t, C, f), NEW k \in C, NEW u \in C, NEW i \in Nat,
           NEW s, Lent(t, C, f, k, u, s, i)
    PROVE  Lent(t, C, f, k, u, LeanOnce(t, u, s), i + 1)
<1> DEFINE y == s.node
           a == t.parent[y]
           d == IF t.left[a] = y THEN -1 ELSE 1
           bal == [s.balance EXCEPT ![a] = @ + d]
           z == LeanOnce(t, u, s)
<1>1. CASE y = u
  <2>1. z = s
    BY <1>1 DEF LeanOnce
  <2> QED
    BY <1>1, <2>1 DEF Lent
<1>2. CASE y # u
  <2>1. y \in C /\ y \in f[u] /\ k \in f[y] /\ s \in Leans /\ C \subseteq Keys /\ IsFiniteSet(C)
    BY DEF Lent, Shape
  <2>2. a \in f[u] /\ a \in C /\ a \in Keys
    BY <1>2, <2>1, ParentBelow
  <2>3. PICK o \in Sides : Child(t, a, o) = y
    BY <1>2, <2>1, ParentBelow
  <2>4. f[y] \subseteq f[a] /\ a \in f[a] /\ a \notin f[y] /\ f[a] \subseteq C
    BY <2>2, <2>3, BelowSelf
  <2>5. z = [node |-> a, balance |-> bal]
    BY <1>2 DEF LeanOnce
  <2>6. d \in Int
    OBVIOUS
  <2>7. s.balance \in [Keys -> Int]
    BY <2>1 DEF Leans
  <2>8. bal \in [Keys -> Int] /\ bal[a] = s.balance[a] + d /\ \A w \in Keys : w # a => bal[w] = s.balance[w]
    <3> HIDE DEF d, a
    <3> QED
      BY <2>2, <2>6, <2>7
  <2>9. ASSUME NEW w \in Keys PROVE bal[w] = t.balance[w] + Leaning(t, f, k, a, w)
    <3> DEFINE L(x) == Leaning(t, f, k, x, w)
    <3>1. s.balance[w] = t.balance[w] + L(y)
      BY DEF Lent
    <3>2. t.balance[w] \in Int
      BY DEF Shape, Trees
    <3>3. CASE w = a
      <4>1. L(y) = 0 /\ L(a) = d
        BY <2>1, <2>2, <2>3, <3>3, LeaningGrows
      <4> HIDE DEF bal, a, y, d
      <4> QED
        BY <2>6, <2>8, <3>1, <3>2, <3>3, <4>1
    <3>4. CASE w # a
      <4>1. L(a) = L(y)
        BY <2>1, <2>2, <2>3, <3>4, LeaningGrows
      <4> HIDE DEF bal, a, y, d
      <4> QED
        BY <2>8, <3>1, <3>2, <3>4, <4>1
    <3> HIDE DEF bal, a, y, d
    <3> QED
      BY <3>3, <3>4
  <2>10. Cardinality(f[a]) >= (i + 1) + 1
    <3>1. /\ Cardinality(f[y]) \in Nat /\ Cardinality(f[a]) \in Nat
          /\ Cardinality(f[y]) + 1 <= Cardinality(f[a])
      BY <2>1, <2>4, MoreBelow
    <3>2. Cardinality(f[y]) >= i + 1
      BY <1>2 DEF Lent
    <3> QED
      BY <3>1, <3>2
  <2> HIDE DEF bal, a, y, d
  <2>11. z \in Leans /\ z.node = a /\ z.balance = bal
    BY <2>2, <2>5, <2>8 DEF Leans
  <2> HIDE DEF z
  <2>12. k \in f[a]
    BY <2>1, <2>4
  <2>13. Lent(t, C, f, k, u, z, i + 1)
    BY <2>2, <2>9, <2>10, <2>11, <2>12, Zenon DEF Lent
  <2> QED
    BY <2>13 DEF z
<1> QED
  BY <1>1, <1>2

LEMMA LeanIs ==
    ASSUME NEW t, NEW C, NEW f, Shape(t, C, f), NEW k \in C, NEW u \in C, k \in f[u],
           n \in Nat, Cardinality(C) <= n + 1
    PROVE  LET v == Lean(t, k, u)
           IN SameLinks(t, v) /\ \A w \in Keys : v.balance[w] = t.balance[w] + Leaning(t, f, k, u, w)
<1> DEFINE step == [s \in Leans |-> LeanOnce(t, u, s)]
           start == [node |-> k, balance |-> t.balance]
           bal == Loop(step, start).balance
<1>1. PICK r : /\ Loop(step, start) = r[n] /\ r[0] = start
               /\ \A i \in 0 .. n - 1 : r[i + 1] = step[r[i]]
  <2> HIDE DEF step, start
  <2>1. /\ \E r : /\ Loop(step, start) = r[n] /\ r[0] = start
                  /\ \A i \in 0 .. n - 1 : r[i + 1] = step[r[i]]
    BY LoopIs
  <2> QED
    BY <2>1
<1>2. t \in Trees /\ C \subseteq Keys /\ IsFiniteSet(C) /\ k \in f[k] /\ f[k] \subseteq C
  BY BelowSelf DEF Shape
<1>3. ASSUME NEW w \in Keys PROVE Leaning(t, f, k, k, w) = 0 /\ t.balance[w] \in Int
  <2>1. t.balance[w] \in Int
    BY <1>2 DEF Trees
  <2> QED
    BY <1>2, <2>1, BelowTop DEF Leaning
<1> DEFINE Good == {i \in 0 .. n : Lent(t, C, f, k, u, r[i], i)}
<1>4. 0 \in Good
  <2>1. start \in Leans /\ start.node = k /\ start.balance = t.balance
    BY <1>2 DEF Leans, Trees
  <2> HIDE DEF start
  <2>2. {} \subseteq f[k] /\ k \notin {} /\ Cardinality({}) = 0
    BY FS_EmptySet
  <2>3. Cardinality({}) + 1 <= Cardinality(f[k]) /\ Cardinality(f[k]) \in Nat
    BY <1>2, <2>2, MoreBelow
  <2>4. Cardinality(f[k]) >= 0 + 1
    BY <2>2, <2>3
  <2>5. Lent(t, C, f, k, u, start, 0)
    BY <1>2, <1>3, <2>1, <2>4 DEF Lent
  <2> QED
    BY <1>1, <2>5
<1>5. ASSUME NEW i \in 0 .. n - 1, i \in Good PROVE i + 1 \in Good
  <2>1. Lent(t, C, f, k, u, r[i], i) /\ i \in Nat /\ i + 1 \in 0 .. n
    BY <1>5
  <2>2. r[i] \in Leans
    BY <2>1 DEF Lent
  <2>3. r[i + 1] = LeanOnce(t, u, r[i])
    BY <1>1, <2>1, <2>2
  <2>4. Lent(t, C, f, k, u, r[i + 1], i + 1)
    BY <2>1, <2>3, LeanOnceIs
  <2> QED
    BY <2>1, <2>4
<1>6. n \in Good
  <2> HIDE DEF Good
  <2> QED
    BY <1>4, <1>5, NatSetInduction
<1>7. Lent(t, C, f, k, u, r[n], n)
  BY <1>6
<1> DEFINE y == r[n].node
<1>8. y = u
  <2> SUFFICES ASSUME y # u PROVE FALSE
    OBVIOUS
  <2>1. y \in C /\ y \in f[u] /\ Cardinality(f[y]) >= n + 1
    BY <1>7 DEF Lent
  <2> HIDE DEF y
  <2>2. f[y] \subseteq f[u] /\ f[u] \subseteq C /\ u \in f[u] /\ u \notin f[y]
    BY <2>1, BelowTransitive, BelowSelf, BelowTop
  <2>3. /\ Cardinality(f[y]) \in Nat /\ Cardinality(f[u]) \in Nat /\ Cardinality(C) \in Nat
        /\ Cardinality(f[y]) + 1 <= Cardinality(f[u]) /\ Cardinality(f[u]) <= Cardinality(C)
    BY <1>2, <2>2, MoreBelow
  <2> QED
    BY <2>1, <2>3
<1>9. bal = r[n].balance
  BY <1>1
<1>10. bal \in [Keys -> Int] /\ \A w \in Keys : bal[w] = t.balance[w] + Leaning(t, f, k, u, w)
  BY <1>7, <1>8, <1>9 DEF Lent, Leans
<1>11. Lean(t, k, u) = [t EXCEPT !.balance = bal]
  BY DEF Lean
<1> HIDE DEF bal
<1> QED
  BY <1>2, <1>10, <1>11 DEF SameLinks, Trees

-----------------------------------------------------------------------------
(***************************************************************************)
(* Insertion.                                                              *)
(***************************************************************************)
\* v is t with a new leaf k, on side r of p.
Added(t, v, k, p, r) ==
    /\ v \in Trees /\ v.root = t.root
    /\ \A w \in Keys : /\ v.parent[w] = IF w = k THEN p ELSE t.parent[w]
                       /\ v.balance[w] = IF w = k THEN 0 ELSE t.balance[w]
    /\ \A w \in Keys, o \in Sides :
         Child(v, w, o) = IF w = p /\ o = r THEN k ELSE IF w = k THEN NULL ELSE Child(t, w, o)

New(t, k, p) == [t EXCEPT !.left[k] = NULL, !.right[k] = NULL, !.parent[k] = p, !.balance[k] = 0]

LEMMA NewIs ==
    ASSUME NEW t, t \in Trees, NEW k \in Keys, NEW p \in Keys \cup {NULL}
    PROVE  LET v == New(t, k, p)
           IN /\ v \in Trees /\ v.root = t.root
              /\ v.left = [t.left EXCEPT ![k] = NULL] /\ v.right = [t.right EXCEPT ![k] = NULL]
              /\ v.parent = [t.parent EXCEPT ![k] = p] /\ v.balance = [t.balance EXCEPT ![k] = 0]
<1> DEFINE v == New(t, k, p)
<1>1. /\ t.left \in Pointers /\ t.right \in Pointers /\ t.parent \in Pointers
      /\ t.balance \in [Keys -> Int] /\ t.root \in Keys \cup {NULL}
      /\ DOMAIN t = {"root", "left", "right", "parent", "balance"}
  BY DEF Trees
<1>2. /\ v = [t EXCEPT !.left = [t.left EXCEPT ![k] = NULL], !.right = [t.right EXCEPT ![k] = NULL],
                       !.parent = [t.parent EXCEPT ![k] = p], !.balance = [t.balance EXCEPT ![k] = 0]]
  BY <1>1 DEF New
<1> HIDE DEF v
<1>3. /\ v.root = t.root
      /\ v.left = [t.left EXCEPT ![k] = NULL] /\ v.right = [t.right EXCEPT ![k] = NULL]
      /\ v.parent = [t.parent EXCEPT ![k] = p] /\ v.balance = [t.balance EXCEPT ![k] = 0]
  BY <1>1, <1>2
<1>4. /\ [t.left EXCEPT ![k] = NULL] \in Pointers /\ [t.right EXCEPT ![k] = NULL] \in Pointers
      /\ [t.parent EXCEPT ![k] = p] \in Pointers /\ [t.balance EXCEPT ![k] = 0] \in [Keys -> Int]
  BY <1>1 DEF Pointers
<1>5. v \in Trees
  BY <1>1, <1>2, <1>4 DEF Trees
<1> QED
  BY <1>3, <1>5 DEF v

LEMMA AddedIs ==
    ASSUME NEW t, t \in Trees, NEW k \in Keys, NEW p \in Keys, p # k, NEW b \in BOOLEAN
    PROVE  Added(t, SetChild(New(t, k, p), k, p, b), k, p, Side(b))
<1> DEFINE s == New(t, k, p)
           v == SetChild(s, k, p, b)
<1>1. /\ s \in Trees /\ s.root = t.root
      /\ s.left = [t.left EXCEPT ![k] = NULL] /\ s.right = [t.right EXCEPT ![k] = NULL]
      /\ s.parent = [t.parent EXCEPT ![k] = p] /\ s.balance = [t.balance EXCEPT ![k] = 0]
  BY NewIs
<1> HIDE DEF s
<1>2. /\ v \in Trees /\ v.root = s.root /\ v.parent = s.parent /\ v.balance = s.balance
      /\ v.left = (IF b THEN [s.left EXCEPT ![p] = k] ELSE s.left)
      /\ v.right = (IF b THEN s.right ELSE [s.right EXCEPT ![p] = k])
  BY <1>1 DEF SetChild, Trees, Pointers
<1> HIDE DEF v
<1>3. ASSUME NEW w \in Keys
      PROVE  /\ v.parent[w] = IF w = k THEN p ELSE t.parent[w]
             /\ v.balance[w] = IF w = k THEN 0 ELSE t.balance[w]
  BY <1>1, <1>2 DEF Trees, Pointers
<1>4. ASSUME NEW w \in Keys, NEW o \in Sides
      PROVE  Child(v, w, o) = IF w = p /\ o = Side(b) THEN k ELSE IF w = k THEN NULL ELSE Child(t, w, o)
  <2>1. /\ s.left[w] = IF w = k THEN NULL ELSE t.left[w]
        /\ s.right[w] = IF w = k THEN NULL ELSE t.right[w]
    BY <1>1 DEF Trees, Pointers
  <2>2. /\ v.left[w] = IF w = p /\ b THEN k ELSE s.left[w]
        /\ v.right[w] = IF w = p /\ ~b THEN k ELSE s.right[w]
    BY <1>1, <1>2 DEF Trees, Pointers
  <2>3. CASE o = 0
    BY <2>1, <2>2, <2>3 DEF Child, Side
  <2>4. CASE o = 1
    BY <2>1, <2>2, <2>4 DEF Child, Side
  <2> QED
    BY <2>3, <2>4 DEF Sides
<1> QED
  BY <1>1, <1>2, <1>3, <1>4, Zenon DEF Added, v, s

\* The nodes below each node then.
AddedBelow(f, k, p) ==
    [x \in Keys \cup {NULL} |-> IF x = k THEN {k} ELSE IF p \in f[x] THEN f[x] \cup {k} ELSE f[x]]

\* A key that is not in the tree belongs on side r of p, where no node is.
Vacant(t, C, f, k, p, r) ==
    /\ Shape(t, C, f) /\ k \in Keys /\ k \notin C /\ p \in C /\ r \in Sides
    /\ Child(t, p, r) = NULL /\ Before(r, k, p) /\ Path(t, C, f, k, p)

LEMMA AddedPath ==
    ASSUME NEW t, NEW C, NEW f, NEW k, NEW p, NEW r, Vacant(t, C, f, k, p, r), NEW v, Added(t, v, k, p, r)
    PROVE  LET g == AddedBelow(f, k, p)
           IN /\ g[k] = {k} /\ g[NULL] = {}
              /\ \A w \in C \cup {NULL} : g[w] = IF p \in f[w] THEN f[w] \cup {k} ELSE f[w]
              /\ \A w \in C \cup {NULL} : k \in g[w] <=> p \in f[w]
              /\ \A w \in C, s \in Sides :
                    k \in g[Child(v, w, s)] =>
                       /\ p \in f[w] /\ k \notin g[Child(v, w, 1 - s)] /\ Before(s, k, w)
                       /\ Child(v, w, 1 - s) = Child(t, w, 1 - s)
                       /\ w = p => Child(v, w, s) = k /\ Child(t, w, s) = NULL
                       /\ w # p => Child(v, w, s) = Child(t, w, s) /\ Child(t, w, s) \in C
              /\ \A w \in C : p \in f[w] => \E s \in Sides : k \in g[Child(v, w, s)]
              /\ \A w \in C, s \in Sides : w # p \/ s # r => Child(v, w, s) = Child(t, w, s)
<1> DEFINE g == AddedBelow(f, k, p)
<1>1. /\ C \subseteq Keys /\ NULL \notin Keys /\ f[NULL] = {} /\ p \in f[p] /\ k # NULL /\ k \in Keys /\ k \notin C
      /\ p \in C /\ r \in Sides /\ Shape(t, C, f)
  BY KeysAssumption, BelowSelf DEF Vacant, Shape
<1>2. /\ g[k] = {k} /\ g[NULL] = {}
      /\ \A w \in C \cup {NULL} : g[w] = IF p \in f[w] THEN f[w] \cup {k} ELSE f[w]
  BY <1>1 DEF AddedBelow
<1>3. \A w \in C \cup {NULL} : k \in g[w] <=> p \in f[w]
  <2>1. \A w \in C \cup {NULL} : k \notin f[w]
    BY <1>1, BelowSelf
  <2> QED
    BY <1>2, <2>1
<1> HIDE DEF g
<1>4. \A w \in C, s \in Sides : w # p \/ s # r => Child(v, w, s) = Child(t, w, s)
  BY <1>1 DEF Added
<1>5. ASSUME NEW w \in C, NEW s \in Sides
      PROVE  /\ 1 - s \in Sides /\ 1 - s # s
             /\ f[Child(t, w, s)] \subseteq f[w] /\ Child(t, w, s) \in C \cup {NULL}
             /\ f[Child(t, w, s)] \cap f[Child(t, w, 1 - s)] = {}
             /\ w \notin f[Child(t, w, s)]
  <2>1. 1 - s \in Sides /\ 1 - s # s
    BY DEF Sides
  <2>2. f[Child(t, w, s)] \subseteq f[w] /\ w \notin f[Child(t, w, s)]
        /\ f[Child(t, w, 0)] \cap f[Child(t, w, 1)] = {}
    BY <1>1, BelowSelf
  <2>3. Child(t, w, s) \in C \cup {NULL}
    BY <1>1 DEF Shape, Linked
  <2>4. f[Child(t, w, s)] \cap f[Child(t, w, 1 - s)] = {}
    BY <2>2 DEF Sides
  <2> QED
    BY <2>1, <2>2, <2>3, <2>4
<1>6. Child(v, p, r) = k /\ Child(t, p, r) = NULL
  BY <1>1 DEF Added, Vacant
<1>7. ASSUME NEW w \in C, NEW s \in Sides, k \in g[Child(v, w, s)]
      PROVE  /\ p \in f[w] /\ k \notin g[Child(v, w, 1 - s)] /\ Before(s, k, w)
             /\ Child(v, w, 1 - s) = Child(t, w, 1 - s)
             /\ w = p => Child(v, w, s) = k /\ Child(t, w, s) = NULL
             /\ w # p => Child(v, w, s) = Child(t, w, s) /\ Child(t, w, s) \in C
  <2>1. CASE w = p
    <3>1. s = r
      <4>1. SUFFICES ASSUME s # r PROVE FALSE
        OBVIOUS
      <4>2. Child(v, w, s) = Child(t, w, s)
        BY <1>4, <4>1
      <4> QED
        BY <1>3, <1>5, <1>7, <2>1, <4>2
    <3>2. Child(v, w, 1 - s) = Child(t, w, 1 - s)
      BY <1>4, <1>5, <3>1
    <3>3. k \notin g[Child(v, w, 1 - s)]
      BY <1>3, <1>5, <2>1, <3>2
    <3>4. Before(s, k, w)
      BY <2>1, <3>1 DEF Vacant
    <3> QED
      BY <1>1, <1>6, <2>1, <3>1, <3>2, <3>3, <3>4
  <2>2. CASE w # p
    <3>1. Child(v, w, s) = Child(t, w, s) /\ Child(v, w, 1 - s) = Child(t, w, 1 - s)
      BY <1>4, <1>5, <2>2
    <3>2. p \in f[Child(t, w, s)]
      BY <1>3, <1>5, <1>7, <3>1
    <3>3. p \notin f[Child(t, w, 1 - s)]
      BY <1>5, <3>2
    <3>4. k \notin g[Child(v, w, 1 - s)]
      BY <1>3, <1>5, <3>1, <3>3
    <3>5. Before(s, k, w)
      BY <3>2 DEF Vacant, Path
    <3>6. Child(t, w, s) \in C
      BY <1>1, <1>5, <3>2
    <3> QED
      BY <1>5, <2>2, <3>1, <3>2, <3>4, <3>5, <3>6
  <2> QED
    BY <2>1, <2>2
<1>8. ASSUME NEW w \in C, p \in f[w] PROVE \E s \in Sides : k \in g[Child(v, w, s)]
  <2>1. CASE w = p
    BY <1>1, <1>2, <1>6, <2>1
  <2>2. CASE w # p
    <3>1. PICK s \in Sides : p \in f[Child(t, w, s)]
      BY <1>1, <1>8, <2>2 DEF Shape, Linked, Sides
    <3> QED
      BY <1>3, <1>4, <1>5, <2>2, <3>1
  <2> QED
    BY <2>1, <2>2
<1> QED
  BY <1>2, <1>3, <1>4, <1>7, <1>8 DEF g

LEMMA AddedShape ==
    ASSUME NEW t, NEW C, NEW f, NEW k, NEW p, NEW r, Vacant(t, C, f, k, p, r), NEW v, Added(t, v, k, p, r)
    PROVE  Shape(v, C \cup {k}, AddedBelow(f, k, p))
<1> DEFINE D == C \cup {k}
           g == AddedBelow(f, k, p)
<1>1. /\ C \subseteq Keys /\ NULL \notin Keys /\ f[NULL] = {} /\ p \in f[p] /\ k # NULL /\ k \in Keys /\ k \notin C
      /\ p \in C /\ r \in Sides /\ Shape(t, C, f) /\ NULL \notin C
  <2>1. Shape(t, C, f) /\ p \in C
    BY DEF Vacant
  <2>2. p \in f[p]
    BY <2>1, BelowSelf
  <2> QED
    BY <2>1, <2>2, KeysAssumption DEF Vacant, Shape
<1>2. /\ g[k] = {k} /\ g[NULL] = {}
      /\ \A w \in C \cup {NULL} : g[w] = IF p \in f[w] THEN f[w] \cup {k} ELSE f[w]
  BY AddedPath
<1>3. \A w \in C, s \in Sides : w # p \/ s # r => Child(v, w, s) = Child(t, w, s)
  BY AddedPath
<1>4. ASSUME NEW w \in C, NEW s \in Sides
      PROVE  k \in g[Child(v, w, s)] =>
                       /\ p \in f[w] /\ k \notin g[Child(v, w, 1 - s)] /\ Before(s, k, w)
                       /\ Child(v, w, 1 - s) = Child(t, w, 1 - s)
                       /\ w = p => Child(v, w, s) = k /\ Child(t, w, s) = NULL
                       /\ w # p => Child(v, w, s) = Child(t, w, s) /\ Child(t, w, s) \in C
  BY AddedPath
<1>5. \A w \in C : p \in f[w] => \E s \in Sides : k \in g[Child(v, w, s)]
  BY AddedPath
<1>6. Child(v, p, r) = k /\ Child(t, p, r) = NULL
  BY <1>1 DEF Added, Vacant
<1>7. IsFiniteSet(D) /\ D \subseteq Keys
  BY <1>1, FS_AddElement DEF Shape
<1>8. v.root = t.root /\ t.root \in C /\ f[t.root] = C /\ t.parent[t.root] = NULL /\ v \in Trees
  BY <1>1 DEF Shape, Added
<1>9. g[v.root] = D
  BY <1>1, <1>2, <1>8
<1>10. v.parent[v.root] = NULL
  BY <1>1, <1>8 DEF Added
<1> HIDE DEF g
<1>11. ASSUME NEW x \in C, NEW s \in Sides
       PROVE  /\ Child(v, x, s) \in D \cup {NULL}
              /\ Child(v, x, s) # NULL => v.parent[Child(v, x, s)] = x
              /\ \A y \in g[Child(v, x, s)] : Before(s, y, x)
  <2>1. /\ Child(t, x, s) \in C \cup {NULL}
        /\ Child(t, x, s) # NULL => t.parent[Child(t, x, s)] = x
        /\ \A y \in f[Child(t, x, s)] : Before(s, y, x)
    BY <1>1 DEF Shape, Linked
  <2>2. CASE x = p /\ s = r
    <3>1. Child(v, x, s) = k
      BY <1>6, <2>2
    <3>2. v.parent[k] = p
      BY <1>1 DEF Added
    <3>3. Before(r, k, p)
      BY DEF Vacant
    <3> QED
      BY <1>2, <2>2, <3>1, <3>2, <3>3
  <2>3. CASE ~(x = p /\ s = r)
    <3>1. Child(v, x, s) = Child(t, x, s)
      BY <1>3, <2>3
    <3>2. Child(t, x, s) # NULL => v.parent[Child(t, x, s)] = x
      BY <1>1, <2>1 DEF Added
    <3>3. ASSUME NEW y \in g[Child(v, x, s)] PROVE Before(s, y, x)
      <4>1. CASE y = k
        BY <1>4, <3>3, <4>1
      <4>2. CASE y # k
        BY <1>2, <2>1, <3>1, <3>3, <4>2
      <4> QED
        BY <4>1, <4>2
    <3> QED
      BY <2>1, <3>1, <3>2, <3>3
  <2> QED
    BY <2>2, <2>3
<1>12. ASSUME NEW x \in C
       PROVE  g[x] \subseteq D /\ g[x] = {x} \cup g[Child(v, x, 0)] \cup g[Child(v, x, 1)]
  <2>1. /\ f[x] \subseteq C /\ f[x] = {x} \cup f[Child(t, x, 0)] \cup f[Child(t, x, 1)]
        /\ Child(t, x, 0) \in C \cup {NULL} /\ Child(t, x, 1) \in C \cup {NULL}
    BY <1>1 DEF Shape, Linked, Sides
  <2>2. g[x] \subseteq D
    BY <1>2, <2>1
  <2>3. ASSUME NEW y, y # k, NEW s \in Sides PROVE y \in g[Child(v, x, s)] <=> y \in f[Child(t, x, s)]
    <3>1. CASE x = p /\ s = r
      BY <1>1, <1>2, <1>6, <2>3, <3>1
    <3>2. CASE ~(x = p /\ s = r)
      <4>1. Child(v, x, s) = Child(t, x, s)
        BY <1>3, <3>2
      <4>2. Child(t, x, s) \in C \cup {NULL}
        BY <2>1 DEF Sides
      <4> QED
        BY <1>2, <2>3, <4>1, <4>2
    <3> QED
      BY <3>1, <3>2
  <2>4. k \in g[x] <=> k \in g[Child(v, x, 0)] \cup g[Child(v, x, 1)]
    <3>1. k \in g[x] <=> p \in f[x]
      BY <1>1, <1>2, <2>1
    <3> QED
      BY <1>4, <1>5, <3>1 DEF Sides
  <2>5. ASSUME NEW y, y # k PROVE y \in g[x] <=> y \in f[x]
    BY <1>2, <2>5
  <2>6. k # x
    BY <1>1
  <2>7. \A y : y \in g[x] <=> y \in {x} \cup g[Child(v, x, 0)] \cup g[Child(v, x, 1)]
    <3> SUFFICES ASSUME NEW y PROVE y \in g[x] <=> y \in {x} \cup g[Child(v, x, 0)] \cup g[Child(v, x, 1)]
      OBVIOUS
    <3>1. CASE y = k
      BY <2>4, <2>6, <3>1
    <3>2. CASE y # k
      BY <2>1, <2>3, <2>5, <3>2 DEF Sides
    <3> QED
      BY <3>1, <3>2
  <2> QED
    BY <2>2, <2>7
<1>13. ASSUME NEW x \in C PROVE Linked(v, D, g, x)
  BY <1>11, <1>12 DEF Linked
<1>14. Linked(v, D, g, k)
  <2>1. Child(v, k, 0) = NULL /\ Child(v, k, 1) = NULL
    BY <1>1 DEF Added, Sides
  <2> QED
    BY <1>2, <2>1 DEF Linked, Sides
<1> QED
  BY <1>2, <1>7, <1>8, <1>9, <1>10, <1>13, <1>14 DEF Shape, g

\* v is t with the leaf k, leant on from k up to u; a is it before that.
Leant(t, C, f, H, k, p, r, u, a, v) ==
    /\ IsTree(t, C, f, H) /\ Vacant(t, C, f, k, p, r) /\ Deepest(t, C, f, p, u)
    /\ Added(t, a, k, p, r) /\ SameLinks(a, v)
    /\ \A w \in Keys : v.balance[w] = a.balance[w] + Leaning(a, AddedBelow(f, k, p), k, u, w)

\* The heights then; that of u as it is after the rotation, if there is one.
LeantHeight(t, f, H, k, p, u) ==
    [w \in Keys \cup {NULL} |->
        IF w = k THEN 1
        ELSE IF p \in f[w] /\ w \in f[u] /\ (w # u \/ t.balance[u] = 0) THEN H[w] + 1
        ELSE H[w]]

\* The tree before, and the nodes after.
LeantNodes(t, C, f, H, k, p, u, v) ==
    /\ Shape(t, C, f) /\ H[NULL] = 0 /\ (\A w \in C : Level(t, H, w)) /\ t \in Trees
    /\ C \subseteq Keys /\ NULL \notin Keys /\ k \in Keys /\ k \notin C /\ p \in C /\ u \in C
    /\ Shape(v, C \cup {k}, AddedBelow(f, k, p)) /\ v \in Trees
    /\ k \in AddedBelow(f, k, p)[u]

LEMMA LeantIs ==
    ASSUME NEW t, NEW C, NEW f, NEW H, NEW k, NEW p, NEW r, NEW u, NEW a, NEW v,
           Leant(t, C, f, H, k, p, r, u, a, v)
    PROVE  LeantNodes(t, C, f, H, k, p, u, v)
<1>1. /\ Shape(t, C, f) /\ H[NULL] = 0 /\ (\A w \in C : Level(t, H, w)) /\ t \in Trees
      /\ C \subseteq Keys /\ NULL \notin Keys /\ k \in Keys /\ k \notin C /\ p \in C /\ u \in C /\ p \in f[u]
      /\ Vacant(t, C, f, k, p, r) /\ Added(t, a, k, p, r) /\ SameLinks(a, v)
  BY KeysAssumption DEF Leant, IsTree, Shape, Vacant, Deepest
<1> DEFINE g == AddedBelow(f, k, p)
<1>2. Shape(a, C \cup {k}, g) /\ k \in g[u]
  BY <1>1, AddedShape, AddedPath
<1>3. Shape(v, C \cup {k}, g) /\ v \in Trees
  BY <1>1, <1>2, SameShape DEF SameLinks
<1> QED
  BY <1>1, <1>2, <1>3 DEF LeantNodes

LEMMA LeantAway ==
    ASSUME NEW t, NEW C, NEW f, NEW H, NEW k, NEW p, NEW r, NEW u, NEW a, NEW v,
           Leant(t, C, f, H, k, p, r, u, a, v), NEW w \in Keys \ (C \cup {k})
    PROVE  v.left[w] = t.left[w] /\ v.right[w] = t.right[w] /\ v.balance[w] = t.balance[w]
<1> DEFINE g == AddedBelow(f, k, p)
<1>1. /\ Shape(a, C \cup {k}, g) /\ k \in g[u] /\ p \in C /\ u \in C /\ k \in Keys /\ t \in Trees
      /\ Added(t, a, k, p, r) /\ SameLinks(a, v)
  <2>1. Vacant(t, C, f, k, p, r) /\ Added(t, a, k, p, r) /\ SameLinks(a, v) /\ u \in C /\ p \in f[u]
    BY DEF Leant, Deepest
  <2>2. Shape(a, C \cup {k}, g) /\ k \in g[u]
    BY <2>1, AddedShape, AddedPath
  <2> QED
    BY <2>1, <2>2 DEF Vacant, Shape
<1>2. w # p /\ w # k /\ w \in Keys
  BY <1>1
<1>3. Child(a, w, 0) = Child(t, w, 0) /\ Child(a, w, 1) = Child(t, w, 1) /\ a.balance[w] = t.balance[w]
      /\ a \in Trees
  BY <1>1, <1>2 DEF Added, Sides
<1>4. g[u] \subseteq C \cup {k}
  BY <1>1, BelowSelf
<1>5. Leaning(a, g, k, u, w) = 0
  BY <1>4 DEF Leaning
<1>6. v.balance[w] = a.balance[w] + Leaning(a, g, k, u, w)
  BY <1>2 DEF Leant
<1>7. t.balance[w] \in Int
  BY <1>1, <1>2 DEF Trees
<1> QED
  BY <1>1, <1>2, <1>3, <1>5, <1>6, <1>7 DEF SameLinks, Child

\* Off the path, and on it above u, all is level as it was.
LEMMA LeantOff ==
    ASSUME NEW t, NEW C, NEW f, NEW H, NEW k, NEW p, NEW r, NEW u, NEW a, NEW v,
           Leant(t, C, f, H, k, p, r, u, a, v), NEW w \in C, p \notin f[w] \/ w \notin f[u]
    PROVE  Level(v, LeantHeight(t, f, H, k, p, u), w)
<1> DEFINE g == AddedBelow(f, k, p)
           G == LeantHeight(t, f, H, k, p, u)
<1>1. /\ Shape(t, C, f) /\ H[NULL] = 0 /\ Level(t, H, w) /\ t \in Trees
      /\ C \subseteq Keys /\ NULL \notin Keys /\ k \in Keys /\ k \notin C /\ p \in C /\ u \in C
      /\ Shape(v, C \cup {k}, g) /\ v \in Trees
      /\ \A x \in Keys, s \in Sides : Child(v, x, s) = Child(a, x, s)
      /\ w \in Keys /\ w # k /\ f[NULL] = {}
  <2>7. LeantNodes(t, C, f, H, k, p, u, v)
    BY LeantIs
  <2>4. \A x \in C : Level(t, H, x)
    BY <2>7 DEF LeantNodes
  <2>5. /\ Shape(t, C, f) /\ H[NULL] = 0 /\ t \in Trees
        /\ C \subseteq Keys /\ NULL \notin Keys /\ k \in Keys /\ k \notin C /\ p \in C /\ u \in C
    BY <2>7 DEF LeantNodes
  <2>6. Shape(v, C \cup {k}, g) /\ v \in Trees
    BY <2>7 DEF LeantNodes
  <2> HIDE DEF g
  <2>1. /\ Shape(t, C, f) /\ H[NULL] = 0 /\ Level(t, H, w) /\ t \in Trees
        /\ C \subseteq Keys /\ NULL \notin Keys /\ k \in Keys /\ k \notin C /\ p \in C /\ u \in C
        /\ Shape(v, C \cup {k}, g) /\ v \in Trees
    BY <2>4, <2>5, <2>6
  <2>3. \A x \in Keys, s \in Sides : Child(v, x, s) = Child(a, x, s)
    BY DEF Leant, SameLinks, Child
  <2>2. f[NULL] = {}
    BY <2>1 DEF Shape
  <2> HIDE DEF g
  <2> QED
    BY <2>1, <2>2, <2>3
<1>2. p \in f[p] /\ p \in f[u] /\ w # p
  BY <1>1, BelowSelf DEF Leant, Deepest
<1>3. \A s \in Sides : Child(v, w, s) = Child(t, w, s) /\ Child(t, w, s) \in C \cup {NULL}
  <2>1. \A s \in Sides : Child(a, w, s) = Child(t, w, s)
    BY <1>1, <1>2 DEF Leant, Added
  <2> QED
    BY <1>1, <2>1 DEF Shape, Linked
<1>4. v.balance[w] = t.balance[w]
  <2>1. k \in g[w] <=> p \in f[w]
    BY AddedPath DEF Leant
  <2>2. w \in g[u] <=> w \in f[u]
    BY <1>1 DEF AddedBelow
  <2>3. Leaning(a, g, k, u, w) = 0
    BY <2>1, <2>2 DEF Leaning
  <2>4. a.balance[w] = t.balance[w] /\ t.balance[w] \in Int
    BY <1>1 DEF Leant, Added, Trees
  <2>5. v.balance[w] = a.balance[w] + Leaning(a, g, k, u, w)
    BY <1>1 DEF Leant
  <2> QED
    BY <2>3, <2>4, <2>5
<1>5. ASSUME NEW s \in Sides PROVE G[Child(t, w, s)] = H[Child(t, w, s)]
  <2> DEFINE c == Child(t, w, s)
  <2>1. c \in C \cup {NULL} /\ c # k
    BY <1>1, <1>3
  <2>2. CASE p \notin f[c] \/ c \notin f[u]
    BY <1>1, <2>1, <2>2 DEF LeantHeight
  <2>3. CASE p \in f[c] /\ c \in f[u]
    <3>1. c \in C /\ p \in f[w] /\ w \notin f[u]
      BY <1>1, <2>1, <2>3, BelowSelf
    <3>2. t.parent[c] = w
      BY <1>1, <3>1 DEF Shape, Linked
    <3>3. c = u
      BY <1>1, <2>3, <3>1, <3>2, ParentBelow
    <3>4. u # t.root
      BY <1>1, <3>2, <3>3 DEF Shape
    <3>5. t.balance[u] # 0
      BY <3>4 DEF Leant, Deepest
    <3> QED
      BY <1>1, <2>1, <3>3, <3>5 DEF LeantHeight
  <2> QED
    BY <2>2, <2>3
<1>6. G[w] = H[w]
  BY <1>1 DEF LeantHeight
<1> HIDE DEF G, g
<1>7. Level(v, G, w)
  BY <1>1, <1>3, <1>4, <1>5, <1>6, LevelStays
<1> QED
  BY <1>7 DEF G

\* From u down to p each node leans towards k, and that side is one higher.
LEMMA LeantAt ==
    ASSUME NEW t, NEW C, NEW f, NEW H, NEW k, NEW p, NEW r, NEW u, NEW a, NEW v,
           Leant(t, C, f, H, k, p, r, u, a, v), NEW w \in C, p \in f[w], w \in f[u]
    PROVE  \E s \in Sides :
              /\ Tilt(v, w, s) = Tilt(t, w, s) + 1
              /\ Fits(H[w], Tilt(t, w, s), H[Child(t, w, s)], H[Child(t, w, 1 - s)])
              /\ LeantHeight(t, f, H, k, p, u)[Child(v, w, s)] = H[Child(t, w, s)] + 1
              /\ LeantHeight(t, f, H, k, p, u)[Child(v, w, 1 - s)] = H[Child(t, w, 1 - s)]
              /\ Child(v, w, s) = k => Child(t, w, s) = NULL
              /\ Child(v, w, s) # k => /\ Child(v, w, s) \in C /\ Child(v, w, s) # u
                                       /\ p \in f[Child(v, w, s)] /\ Child(v, w, s) \in f[u]
<1> DEFINE g == AddedBelow(f, k, p)
           G == LeantHeight(t, f, H, k, p, u)
<1>1. /\ Shape(t, C, f) /\ H[NULL] = 0 /\ Level(t, H, w) /\ t \in Trees
      /\ C \subseteq Keys /\ NULL \notin Keys /\ k \in Keys /\ k \notin C /\ p \in C /\ u \in C
      /\ Shape(v, C \cup {k}, g) /\ v \in Trees
      /\ \A x \in Keys, s \in Sides : Child(v, x, s) = Child(a, x, s)
      /\ w \in Keys /\ w # k /\ f[NULL] = {}
  <2>4. LeantNodes(t, C, f, H, k, p, u, v)
    BY LeantIs
  <2>1. /\ Shape(t, C, f) /\ H[NULL] = 0 /\ (\A x \in C : Level(t, H, x)) /\ t \in Trees
        /\ C \subseteq Keys /\ NULL \notin Keys /\ k \in Keys /\ k \notin C /\ p \in C /\ u \in C
        /\ Shape(v, C \cup {k}, g) /\ v \in Trees
    BY <2>4 DEF LeantNodes
  <2>3. \A x \in Keys, s \in Sides : Child(v, x, s) = Child(a, x, s)
    BY DEF Leant, SameLinks, Child
  <2>2. f[NULL] = {}
    BY <2>1 DEF Shape
  <2> HIDE DEF g
  <2> QED
    BY <2>1, <2>2, <2>3
<1>2. PICK s \in Sides : k \in g[Child(a, w, s)]
  BY AddedPath DEF Leant
<1>3. /\ k \notin g[Child(a, w, 1 - s)] /\ Child(a, w, 1 - s) = Child(t, w, 1 - s)
      /\ w = p => Child(a, w, s) = k /\ Child(t, w, s) = NULL
      /\ w # p => Child(a, w, s) = Child(t, w, s) /\ Child(t, w, s) \in C
  BY <1>2, AddedPath DEF Leant
<1>4. 1 - s \in Sides /\ Child(t, w, 1 - s) \in C \cup {NULL} /\ Child(t, w, 1 - s) # k
  <2>1. 1 - s \in Sides
    BY DEF Sides
  <2> QED
    BY <1>1, <2>1 DEF Shape, Linked
<1>5. \A x \in C \cup {NULL} : k \in g[x] <=> p \in f[x]
  BY AddedPath DEF Leant
<1>6. Tilt(v, w, s) = Tilt(t, w, s) + 1
  <2>1. w \in g[u] /\ k \in g[w]
    BY <1>1, <1>5 DEF AddedBelow
  <2>2. Leaning(a, g, k, u, w) = IF s = 0 THEN -1 ELSE 1
    BY <1>1, <1>2, <1>3, <2>1 DEF Leaning, Sides
  <2>3. a.balance[w] = t.balance[w] /\ t.balance[w] \in Int
    BY <1>1 DEF Leant, Added, Trees
  <2>4. v.balance[w] = a.balance[w] + Leaning(a, g, k, u, w)
    BY <1>1 DEF Leant
  <2> QED
    BY <2>2, <2>3, <2>4 DEF Tilt, Sides
<1>7. Fits(H[w], Tilt(t, w, s), H[Child(t, w, s)], H[Child(t, w, 1 - s)])
  BY <1>1, LevelIs
<1>8. G[Child(v, w, 1 - s)] = H[Child(t, w, 1 - s)]
  <2>1. p \notin f[Child(t, w, 1 - s)]
    BY <1>3, <1>4, <1>5
  <2> QED
    BY <1>1, <1>3, <1>4, <2>1 DEF LeantHeight
<1>9. CASE w = p
  <2>1. Child(v, w, s) = k /\ Child(t, w, s) = NULL
    BY <1>1, <1>3, <1>9
  <2>2. G[k] = 1
    BY <1>1 DEF LeantHeight
  <2> HIDE DEF G
  <2>3. G[Child(v, w, s)] = H[Child(t, w, s)] + 1
    BY <1>1, <2>1, <2>2
  <2> QED
    BY <1>6, <1>7, <1>8, <2>1, <2>3 DEF G
<1>10. CASE w # p
  <2> DEFINE c == Child(t, w, s)
  <2>1. Child(v, w, s) = c /\ c \in C /\ c # k
    BY <1>1, <1>3, <1>10
  <2>2. p \in f[c]
    BY <1>2, <1>3, <1>5, <1>10
  <2>3. c \in f[u]
    <3>1. c \in f[c] /\ f[c] \subseteq f[w] /\ f[w] \subseteq f[u]
      BY <1>1, <2>1, BelowSelf, BelowTransitive
    <3> QED
      BY <3>1
  <2>4. c # u
    <3>1. ASSUME c = u PROVE FALSE
      <4>1. w \notin f[c]
        BY <1>1, BelowSelf
      <4> QED
        BY <3>1, <4>1
    <3> QED
      BY <3>1
  <2>5. G[c] = H[c] + 1
    BY <1>1, <2>1, <2>2, <2>3, <2>4 DEF LeantHeight
  <2> HIDE DEF G
  <2>6. G[Child(v, w, s)] = H[Child(t, w, s)] + 1
    BY <2>1, <2>5
  <2> QED
    BY <1>6, <1>7, <1>8, <2>1, <2>2, <2>3, <2>4, <2>6 DEF G
<1> QED
  BY <1>9, <1>10

\* All but u is level then.
LEMMA LeantBut ==
    ASSUME NEW t, NEW C, NEW f, NEW H, NEW k, NEW p, NEW r, NEW u, NEW a, NEW v,
           Leant(t, C, f, H, k, p, r, u, a, v), NEW w \in C \cup {k}, w # u
    PROVE  /\ Level(v, LeantHeight(t, f, H, k, p, u), w)
           /\ w \in C /\ p \in f[w] /\ w \in f[u] => \E s \in Sides : Tilt(v, w, s) = 1
<1> DEFINE G == LeantHeight(t, f, H, k, p, u)
<1>1. /\ C \subseteq Keys /\ k \in Keys /\ NULL \notin Keys /\ k \notin C /\ v \in Trees /\ t \in Trees /\ H[NULL] = 0
      /\ p \in C
      /\ \A x \in Keys, s \in Sides : Child(v, x, s) = Child(a, x, s)
  <2>1. \A x \in Keys, s \in Sides : Child(v, x, s) = Child(a, x, s)
    BY DEF Leant, SameLinks, Child
  <2>2. LeantNodes(t, C, f, H, k, p, u, v)
    BY LeantIs
  <2> QED
    BY <2>1, <2>2 DEF LeantNodes
<1>2. CASE w = k
  <2>1. Child(a, k, 0) = NULL /\ Child(a, k, 1) = NULL /\ a.balance[k] = 0
    BY <1>1 DEF Leant, Added, Vacant, Sides
  <2>2. Leaning(a, AddedBelow(f, k, p), k, u, k) = 0
    BY DEF Leaning
  <2>3. v.balance[k] = 0
    BY <1>1, <2>1, <2>2 DEF Leant
  <2>4. G[k] = 1 /\ G[NULL] = 0
    <3>1. f[NULL] = {}
      BY DEF Leant, IsTree, Shape
    <3> QED
      BY <1>1, <3>1 DEF LeantHeight
  <2> HIDE DEF G
  <2>5. Child(v, k, 0) = NULL /\ Child(v, k, 1 - 0) = NULL /\ Tilt(v, k, 0) = 0 /\ 0 \in Sides
    BY <1>1, <2>1, <2>3 DEF Tilt, Sides
  <2>6. Fits(G[k], Tilt(v, k, 0), G[Child(v, k, 0)], G[Child(v, k, 1 - 0)])
    BY <2>4, <2>5 DEF Fits, Higher
  <2>7. Level(v, G, k)
    BY <1>1, <2>5, <2>6, LevelIs
  <2> QED
    BY <1>1, <1>2, <2>7 DEF G
<1>3. CASE w \in C /\ p \in f[w] /\ w \in f[u]
  <2>1. PICK s \in Sides : /\ Tilt(v, w, s) = Tilt(t, w, s) + 1
                           /\ Fits(H[w], Tilt(t, w, s), H[Child(t, w, s)], H[Child(t, w, 1 - s)])
                           /\ G[Child(v, w, s)] = H[Child(t, w, s)] + 1
                           /\ G[Child(v, w, 1 - s)] = H[Child(t, w, 1 - s)]
    BY <1>3, LeantAt
  <2>2. Tilt(t, w, s) = 0
    BY <1>3 DEF Leant, Deepest, Tilt
  <2>3. G[w] = H[w] + 1 /\ w \in Keys
    BY <1>1, <1>3 DEF LeantHeight
  <2> HIDE DEF G
  <2>4. Fits(G[w], Tilt(v, w, s), G[Child(v, w, s)], G[Child(v, w, 1 - s)])
    BY <2>1, <2>2, <2>3 DEF Fits, Higher
  <2>5. Level(v, G, w)
    BY <1>1, <2>3, <2>4, LevelIs
  <2> QED
    BY <2>1, <2>2, <2>5 DEF G
<1>4. CASE w \in C /\ ~(p \in f[w] /\ w \in f[u])
  BY <1>4, LeantOff
<1> QED
  BY <1>2, <1>3, <1>4

\* With the rotation, if u needs one, it is a tree.
LEMMA LeantTree ==
    ASSUME NEW t, NEW C, NEW f, NEW H, NEW k, NEW p, NEW r, NEW u, NEW a, NEW v,
           Leant(t, C, f, H, k, p, r, u, a, v)
    PROVE  /\ \E g, G : IsTree(Rebalance(v, u), C \cup {k}, g, G)
           /\ Untouched(v, Rebalance(v, u), C \cup {k})
<1> DEFINE D == C \cup {k}
           g == AddedBelow(f, k, p)
           G == LeantHeight(t, f, H, k, p, u)
<1>1. /\ C \subseteq Keys /\ NULL \notin Keys /\ k \in Keys /\ k \notin C /\ p \in C /\ u \in C /\ t \in Trees
      /\ H[NULL] = 0
  <2>1. LeantNodes(t, C, f, H, k, p, u, v)
    BY LeantIs
  <2> QED
    BY <2>1 DEF LeantNodes
<1>2. Shape(v, D, g) /\ v \in Trees
  <2>1. LeantNodes(t, C, f, H, k, p, u, v)
    BY LeantIs
  <2> QED
    BY <2>1 DEF LeantNodes
<1>3. p \in f[u] /\ u \in f[u] /\ f[NULL] = {} /\ Shape(t, C, f)
  <2>1. Shape(t, C, f) /\ p \in f[u]
    BY DEF Leant, IsTree, Deepest
  <2>2. u \in f[u]
    BY <1>1, <2>1, BelowSelf
  <2>3. f[NULL] = {}
    BY <2>1 DEF Shape
  <2> QED
    BY <2>1, <2>2, <2>3
<1>4. G[NULL] = 0
  BY <1>1, <1>3 DEF LeantHeight
<1>5. G[u] = IF t.balance[u] = 0 THEN H[u] + 1 ELSE H[u]
  BY <1>1, <1>3 DEF LeantHeight
<1>6. PICK s \in Sides :
         /\ Tilt(v, u, s) = Tilt(t, u, s) + 1
         /\ Fits(H[u], Tilt(t, u, s), H[Child(t, u, s)], H[Child(t, u, 1 - s)])
         /\ G[Child(v, u, s)] = H[Child(t, u, s)] + 1
         /\ G[Child(v, u, 1 - s)] = H[Child(t, u, 1 - s)]
         /\ Child(v, u, s) = k => Child(t, u, s) = NULL
         /\ Child(v, u, s) # k => /\ Child(v, u, s) \in C /\ Child(v, u, s) # u
                                  /\ p \in f[Child(v, u, s)] /\ Child(v, u, s) \in f[u]
  <2>1. \E s \in Sides :
         /\ Tilt(v, u, s) = Tilt(t, u, s) + 1
         /\ Fits(H[u], Tilt(t, u, s), H[Child(t, u, s)], H[Child(t, u, 1 - s)])
         /\ G[Child(v, u, s)] = H[Child(t, u, s)] + 1
         /\ G[Child(v, u, 1 - s)] = H[Child(t, u, 1 - s)]
         /\ Child(v, u, s) = k => Child(t, u, s) = NULL
         /\ Child(v, u, s) # k => /\ Child(v, u, s) \in C /\ Child(v, u, s) # u
                                  /\ p \in f[Child(v, u, s)] /\ Child(v, u, s) \in f[u]
    BY <1>1, <1>3, LeantAt
  <2> QED
    BY <2>1
<1>7. ASSUME NEW w \in D, w # u
      PROVE  /\ Level(v, G, w)
             /\ w \in C /\ p \in f[w] /\ w \in f[u] => \E o \in Sides : Tilt(v, w, o) = 1
  BY <1>7, LeantBut
<1> DEFINE q == Child(v, u, s)
           d == Child(v, u, 1 - s)
           b == Tilt(t, u, s)
<1>8. /\ t.balance[u] \in Int /\ v.balance[u] \in Int /\ u \in Keys /\ u \in D /\ 1 - s \in Sides /\ 1 - (1 - s) = s
      /\ b \in -1 .. 1 /\ (b = 0 <=> t.balance[u] = 0)
  <2>1. t.balance[u] \in Int /\ v.balance[u] \in Int /\ u \in Keys /\ u \in D
    BY <1>1, <1>2 DEF Trees
  <2>2. 1 - s \in Sides /\ 1 - (1 - s) = s
    BY DEF Sides
  <2>3. b \in -1 .. 1
    BY <1>6 DEF Fits
  <2>4. b = 0 <=> t.balance[u] = 0
    BY <2>1 DEF Tilt
  <2> QED
    BY <2>1, <2>2, <2>3, <2>4
<1> HIDE DEF G, g
<1>9. CASE b \in {-1, 0}
  <2>1. Fits(G[u], Tilt(v, u, s), G[q], G[d])
    BY <1>5, <1>6, <1>8, <1>9 DEF Fits, Higher
  <2>2. Level(v, G, u)
    BY <1>2, <1>8, <2>1, LevelIs
  <2>3. Rebalance(v, u) = v
    <3>1. v.balance[u] # 2 /\ v.balance[u] # -2
      <4>1. Tilt(v, u, s) \in {0, 1}
        BY <1>6, <1>9
      <4> QED
        BY <1>8, <4>1 DEF Tilt
    <3> QED
      BY <3>1 DEF Rebalance
  <2>4. IsTree(v, D, g, G)
    BY <1>2, <1>4, <1>7, <2>2 DEF IsTree
  <2> QED
    BY <2>3, <2>4 DEF Untouched
<1>10. CASE b = 1
  <2>1. PICK o : IsSide(v, u, o)
    BY <1>2, <1>8, SideOf
  <2>2. Tilt(v, u, 1 - s) = -2
    <3>1. Tilt(v, u, s) = 2
      BY <1>6, <1>10
    <3> QED
      BY <1>8, <3>1 DEF Tilt, Sides
  <2>3. G[d] \in Nat /\ G[q] = G[d] + 2 /\ G[u] = G[d] + 2 /\ q # k
    BY <1>1, <1>5, <1>6, <1>8, <1>10 DEF Fits, Higher
  <2>4. q \in C /\ q # u /\ p \in f[q] /\ q \in f[u]
    BY <1>6, <2>3
  <2>5. Tilt(v, q, 1 - s) # 0
    <3>1. PICK e \in Sides : Tilt(v, q, e) = 1
      BY <1>7, <2>4
    <3>2. v.balance[q] \in Int
      BY <1>1, <1>2, <2>4 DEF Trees
    <3> QED
      BY <3>1, <3>2 DEF Tilt
  <2>6. Heavy(v, D, g, G, u, 1 - s, o, q)
    BY <1>2, <1>4, <1>7, <1>8, <2>1, <2>3, <2>4 DEF Heavy
  <2>7. Rises(v, Rebalance(v, u), D, g, G, u, o, G[d] + 2)
    BY <2>2, <2>5, <2>6, RebalanceRises
  <2>8. PICK e, E, top : Risen(v, Rebalance(v, u), D, g, G, u, o, G[u], e, E, top)
    BY <2>3, <2>7 DEF Rises
  <2>9. v.parent[u] # NULL => Level(v, G, v.parent[u])
    <3>1. v.parent[u] # NULL => v.parent[u] \in D /\ v.parent[u] # u
      BY <1>2, <1>8, SideOf, BelowSelf
    <3> QED
      BY <1>7, <3>1
  <2>10. \A w \in D : Level(Rebalance(v, u), E, w)
    BY <1>2, <2>8, <2>9, RiseEnds, ZenonT(40)
  <2>11. Shape(Rebalance(v, u), D, e) /\ E[NULL] = 0 /\ Untouched(v, Rebalance(v, u), D)
    BY <2>8 DEF Risen
  <2>12. IsTree(Rebalance(v, u), D, e, E)
    BY <2>10, <2>11 DEF IsTree
  <2> QED
    BY <2>11, <2>12
<1> QED
  <2>1. b \in {-1, 0} \/ b = 1
    <3>1. b \in -1 .. 1
      BY <1>8
    <3> HIDE DEF b
    <3> QED
      BY <3>1
  <2> QED
    BY <1>9, <1>10, <2>1

\* The node added to an empty tree.
LEMMA FirstNode ==
    ASSUME NEW t, t \in Trees, NEW k \in Keys
    PROVE  LET v == [New(t, k, NULL) EXCEPT !.root = k]
           IN /\ \E g, G : IsTree(v, {k}, g, G)
              /\ \A w \in Keys \ {k} :
                   v.left[w] = t.left[w] /\ v.right[w] = t.right[w] /\ v.balance[w] = t.balance[w]
<1> DEFINE s == New(t, k, NULL)
           v == [s EXCEPT !.root = k]
           g == [x \in Keys \cup {NULL} |-> IF x = k THEN {k} ELSE {}]
           G == [x \in Keys \cup {NULL} |-> IF x = k THEN 1 ELSE 0]
<1>1. /\ s \in Trees
      /\ s.left = [t.left EXCEPT ![k] = NULL] /\ s.right = [t.right EXCEPT ![k] = NULL]
      /\ s.parent = [t.parent EXCEPT ![k] = NULL] /\ s.balance = [t.balance EXCEPT ![k] = 0]
  BY NewIs
<1> HIDE DEF s
<1>2. /\ v \in Trees /\ v.root = k /\ v.left = s.left /\ v.right = s.right
      /\ v.parent = s.parent /\ v.balance = s.balance
  BY <1>1 DEF Trees
<1> HIDE DEF v
<1>3. v.left[k] = NULL /\ v.right[k] = NULL /\ v.parent[k] = NULL /\ v.balance[k] = 0
  BY <1>1, <1>2 DEF Trees, Pointers
<1>4. ASSUME NEW w \in Keys \ {k}
      PROVE  v.left[w] = t.left[w] /\ v.right[w] = t.right[w] /\ v.balance[w] = t.balance[w]
  BY <1>1, <1>2 DEF Trees, Pointers
<1>5. g[k] = {k} /\ g[NULL] = {} /\ G[k] = 1 /\ G[NULL] = 0 /\ k # NULL
  BY KeysAssumption
<1> HIDE DEF g, G
<1>6. Linked(v, {k}, g, k)
  BY <1>3, <1>5 DEF Linked, Child, Sides
<1>7. Shape(v, {k}, g)
  BY <1>2, <1>3, <1>5, <1>6, FS_Singleton DEF Shape
<1>8. Level(v, G, k)
  BY <1>3, <1>5 DEF Level, Higher
<1>9. IsTree(v, {k}, g, G)
  BY <1>5, <1>7, <1>8 DEF IsTree
<1> QED
  BY <1>4, <1>9 DEF v, s

\* The state after a step that leaves a tree of C.
LEMMA TreeAfter ==
    ASSUME NEW C, NEW f, NEW H, IsTree(tree', C, f, H), Whole(tree', C), n' = Cardinality(C)
    PROVE  TreeInv' /\ Contents' = C
<1>1. BelowIn(tree')[tree'.root] = C /\ IsTree(tree', C, BelowIn(tree'), HeightIn(tree'))
  BY TreeIs
<1>2. Contents' = C
  BY <1>1 DEF Contents, Below
<1> QED
  BY <1>1, <1>2 DEF TreeInv

LEMMA TreeNow ==
    ASSUME TreeInv
    PROVE  /\ IsTree(tree, Contents, BelowIn(tree), HeightIn(tree)) /\ Shape(tree, Contents, BelowIn(tree))
           /\ tree \in Trees /\ Contents \subseteq Keys /\ IsFiniteSet(Contents)
           /\ Whole(tree, Contents) /\ n = Cardinality(Contents) /\ n \in Nat
BY FS_CardinalityType DEF TreeInv, IsTree, Shape

LEMMA InsertKeeps ==
    ASSUME TreeInv, NEW k \in Keys, avl_tree_insert(k)
    PROVE  TreeInv' /\ Contents' = Contents \cup {k} /\ k \notin Contents
<1> DEFINE t == tree
           C == Contents
           f == BelowIn(tree)
           H == HeightIn(tree)
           at == avl_lookup_engine(t, k)
           new == New(t, k, at.pparent)
           p == at.pparent
           b == at.is_left
           u == at.unbalanced
           D == C \cup {k}
<1>1. /\ IsTree(t, C, f, H) /\ Shape(t, C, f) /\ t \in Trees /\ C \subseteq Keys /\ IsFiniteSet(C)
      /\ Whole(t, C) /\ n = Cardinality(C) /\ n \in Nat /\ NULL \notin Keys
  BY TreeNow, KeysAssumption
<1>2. /\ at.node = NULL /\ n' = n + 1
      /\ tree' = IF p = NULL THEN [new EXCEPT !.root = k]
                 ELSE Rebalance(Lean(SetChild(new, k, p, b), k, u), u)
  BY Zenon DEF avl_tree_insert, Found, New
<1> HIDE DEF C, f, H, at
<1>3. Cardinality(C) <= n
  BY <1>1
<1>4. At(t, C, f, k, at) /\ at.node = IF k \in C THEN k ELSE NULL
  BY <1>1, <1>3, LookupIs DEF at
<1>5. k \notin C /\ at \in Places /\ k # NULL
  BY <1>1, <1>2, <1>4 DEF At
<1>6. n' = Cardinality(D)
  BY <1>1, <1>2, <1>5, FS_AddElement
<1>7. (\E g, G : IsTree(tree', D, g, G)) /\ Whole(tree', D)
  <2>1. CASE p = NULL
    <3>1. C = {}
      BY <1>1, <1>2, <1>4, <2>1 DEF At, Shape
    <3> DEFINE v == [New(t, k, NULL) EXCEPT !.root = k]
    <3>2. tree' = v
      BY <1>2, <2>1
    <3>3. /\ \E g, G : IsTree(v, {k}, g, G)
          /\ \A w \in Keys \ {k} :
                   v.left[w] = t.left[w] /\ v.right[w] = t.right[w] /\ v.balance[w] = t.balance[w]
      BY <1>1, FirstNode
    <3> HIDE DEF v
    <3>4. D = {k}
      BY <3>1
    <3>5. Whole(v, D)
      BY <1>1, <3>1, <3>3, <3>4 DEF Whole
    <3> QED
      BY <3>2, <3>3, <3>4, <3>5
  <2>2. CASE p # NULL
    <3> DEFINE a == SetChild(new, k, p, b)
               v == Lean(a, k, u)
               r == Side(b)
               g == AddedBelow(f, k, p)
    <3>1. p \in C /\ NULL = Child(t, p, r) /\ Before(r, k, p) /\ Path(t, C, f, k, p) /\ Deepest(t, C, f, p, u)
          /\ b \in BOOLEAN /\ p \in Keys /\ p # k
      BY <1>1, <1>2, <1>4, <1>5, <2>2 DEF At, Places
    <3>2. Added(t, a, k, p, r)
      BY <1>1, <3>1, AddedIs
    <3>3. r \in Sides
      BY DEF Side, Sides
    <3> HIDE DEF new, a, p, u, b, r, g
    <3>4. Vacant(t, C, f, k, p, r)
      BY <1>1, <1>5, <3>1, <3>3 DEF Vacant
    <3>5. Shape(a, D, g)
      BY <3>2, <3>4, AddedShape DEF g
    <3>6. u \in D /\ k \in g[u] /\ k \in D
      <4>1. u \in C /\ p \in f[u]
        BY <3>1 DEF Deepest
      <4> QED
        BY <3>2, <3>4, <4>1, AddedPath DEF g
    <3>7. Cardinality(D) <= n + 1
      BY <1>1, <1>2, <1>6
    <3>8. SameLinks(a, v) /\ \A w \in Keys : v.balance[w] = a.balance[w] + Leaning(a, g, k, u, w)
      BY <1>1, <3>5, <3>6, <3>7, LeanIs
    <3> HIDE DEF v
    <3>9. Leant(t, C, f, H, k, p, r, u, a, v)
      BY <1>1, <3>1, <3>2, <3>4, <3>8 DEF Leant, g
    <3>10. (\E e, E : IsTree(Rebalance(v, u), D, e, E)) /\ Untouched(v, Rebalance(v, u), D)
      BY <3>9, LeantTree, ZenonT(40)
    <3>11. tree' = Rebalance(v, u)
      BY <1>2, <2>2 DEF v, a, new, p, u, b
    <3>12. ASSUME NEW w \in Keys \ D
           PROVE  v.left[w] = t.left[w] /\ v.right[w] = t.right[w] /\ v.balance[w] = t.balance[w]
      BY <3>9, LeantAway
    <3>13. Whole(Rebalance(v, u), D)
      BY <1>1, <3>10, <3>12 DEF Whole, Untouched
    <3> QED
      BY <3>10, <3>11, <3>13
  <2> QED
    BY <2>1, <2>2
<1>8. PICK g, G : IsTree(tree', D, g, G)
  BY <1>7
<1>9. TreeInv' /\ Contents' = D
  BY <1>6, <1>7, <1>8, TreeAfter
<1> QED
  BY <1>5, <1>9 DEF C

-----------------------------------------------------------------------------
(***************************************************************************)
(* Removal.                                                                *)
(***************************************************************************)
\* A tree stays one if only fields of other nodes change.
LEMMA SameOn ==
    ASSUME NEW t, NEW C, NEW f, NEW H, IsTree(t, C, f, H), NEW u, u \in Trees, u.root = t.root,
           \A w \in C : /\ u.left[w] = t.left[w] /\ u.right[w] = t.right[w]
                        /\ u.parent[w] = t.parent[w] /\ u.balance[w] = t.balance[w]
    PROVE  IsTree(u, C, f, H)
<1>1. Shape(t, C, f) /\ H[NULL] = 0 /\ \A w \in C : Level(t, H, w)
  BY DEF IsTree
<1>2. ASSUME NEW w \in C PROVE Level(u, H, w)
  <2>1. Level(t, H, w)
    BY <1>1
  <2> QED
    BY <2>1 DEF Level
<1>3. ASSUME NEW w \in C PROVE Linked(u, C, f, w)
  <2>1. Linked(t, C, f, w)
    BY <1>1 DEF Shape
  <2>2. \A s \in Sides : Child(u, w, s) = Child(t, w, s)
    BY DEF Child, Sides
  <2>3. ASSUME NEW s \in Sides
        PROVE  /\ Child(u, w, s) \in C \cup {NULL}
               /\ Child(u, w, s) # NULL => u.parent[Child(u, w, s)] = w
               /\ \A y \in f[Child(u, w, s)] : Before(s, y, w)
    <3>1. /\ Child(t, w, s) \in C \cup {NULL}
          /\ Child(t, w, s) # NULL => t.parent[Child(t, w, s)] = w
          /\ \A y \in f[Child(t, w, s)] : Before(s, y, w)
      BY <2>1 DEF Linked
    <3> QED
      BY <2>2, <3>1
  <2>4. f[w] \subseteq C /\ f[w] = {w} \cup f[Child(u, w, 0)] \cup f[Child(u, w, 1)]
    BY <2>1, <2>2 DEF Linked, Sides
  <2> QED
    BY <2>3, <2>4 DEF Linked
<1>4. Shape(u, C, f)
  BY <1>1, <1>3 DEF Shape
<1> QED
  BY <1>1, <1>2, <1>4 DEF IsTree

LEMMA ClearedIs ==
    ASSUME NEW t, t \in Trees, NEW k \in Keys
    PROVE  LET v == Cleared(t, k)
           IN /\ v \in Trees /\ v.root = t.root
              /\ v.left[k] = NULL /\ v.right[k] = NULL /\ v.balance[k] = 0
              /\ \A w \in Keys : w # k => /\ v.left[w] = t.left[w] /\ v.right[w] = t.right[w]
                                          /\ v.parent[w] = t.parent[w] /\ v.balance[w] = t.balance[w]
<1> DEFINE v == New(t, k, NULL)
<1>1. /\ v \in Trees /\ v.root = t.root
      /\ v.left = [t.left EXCEPT ![k] = NULL] /\ v.right = [t.right EXCEPT ![k] = NULL]
      /\ v.parent = [t.parent EXCEPT ![k] = NULL] /\ v.balance = [t.balance EXCEPT ![k] = 0]
  BY NewIs
<1>2. Cleared(t, k) = v
  BY Zenon DEF Cleared, New
<1> HIDE DEF v
<1> QED
  BY <1>1, <1>2 DEF Trees, Pointers

\* The node x, a child on side r, is out and m, its only child if it has one,
\* is in its place.
Spliced(t, u, x, m, r) ==
    LET a == t.parent[x]
    IN /\ u \in Trees /\ u.balance = t.balance
       /\ u.root = (IF a = NULL THEN m ELSE t.root)
       /\ \A w \in Keys : u.parent[w] = IF w = m THEN a ELSE t.parent[w]
       /\ \A w \in Keys, o \in Sides : Child(u, w, o) = IF w = a /\ o = r THEN m ELSE Child(t, w, o)

LEMMA SplicedIs ==
    ASSUME NEW t, t \in Trees, NEW x \in Keys, NEW m \in Keys \cup {NULL}, NEW r, IsSide(t, x, r)
    PROVE  Spliced(t, SetParent(Relink(t, x, m), m, t.parent[x]), x, m, r)
<1> DEFINE v == Relink(t, x, m)
           a == t.parent[x]
           u == SetParent(v, m, a)
<1>1. /\ v \in Trees /\ v.parent = t.parent /\ v.balance = t.balance
      /\ v.root = IF a = NULL THEN m ELSE t.root
      /\ \A w \in Keys, o \in Sides : Child(v, w, o) = IF w = a /\ o = r THEN m ELSE Child(t, w, o)
  BY RelinkIs
<1>2. a \in Keys \cup {NULL} /\ NULL \notin Keys /\ t.parent \in Pointers
  BY KeysAssumption, ChildIs DEF Trees
<1> HIDE DEF v, a
<1>3. /\ u \in Trees /\ u.balance = v.balance /\ u.root = v.root /\ u.left = v.left /\ u.right = v.right
      /\ \A w \in Keys : u.parent[w] = IF w = m THEN a ELSE v.parent[w]
  <2>1. CASE m = NULL
    BY <1>1, <1>2, <2>1 DEF SetParent
  <2>2. CASE m # NULL
    BY <1>1, <1>2, <2>2 DEF SetParent, Trees, Pointers
  <2> QED
    BY <2>1, <2>2
<1> HIDE DEF u
<1>4. \A w \in Keys, o \in Sides : Child(u, w, o) = Child(v, w, o)
  BY <1>3 DEF Child
<1>5. Spliced(t, u, x, m, r)
  BY <1>1, <1>3, <1>4 DEF Spliced, a
<1> QED
  BY <1>5 DEF u, v, a

\* x has at most the one child m.
Lone(t, C, f, H, x, m, s, r) ==
    /\ IsTree(t, C, f, H) /\ x \in C /\ s \in Sides /\ Child(t, x, s) = NULL /\ m = Child(t, x, 1 - s)
    /\ IsSide(t, x, r) /\ r \in Sides

\* The nodes below each node then.
WithoutBelow(f, x) == [w \in Keys \cup {NULL} |-> f[w] \ {x}]

LEMMA SplicedShape ==
    ASSUME NEW t, NEW C, NEW f, NEW H, NEW x, NEW m, NEW s, NEW r, Lone(t, C, f, H, x, m, s, r),
           NEW u, Spliced(t, u, x, m, r)
    PROVE  Shape(u, C \ {x}, WithoutBelow(f, x))
<1> DEFINE D == C \ {x}
           g == WithoutBelow(f, x)
           a == t.parent[x]
<1>1. /\ Shape(t, C, f) /\ x \in C /\ C \subseteq Keys /\ NULL \notin Keys /\ NULL \notin C /\ t \in Trees
      /\ IsFiniteSet(C) /\ f[NULL] = {} /\ r \in Sides /\ IsSide(t, x, r) /\ s \in Sides
      /\ t.root \in C /\ f[t.root] = C /\ t.parent[t.root] = NULL
  BY KeysAssumption DEF Lone, IsTree, Shape
<1>2. /\ g[NULL] = {} /\ \A w \in C \cup {NULL} : g[w] = f[w] \ {x}
  BY <1>1 DEF WithoutBelow
<1>3. /\ f[x] = {x} \cup f[m] /\ x \notin f[m] /\ m \in C \cup {NULL} /\ m # x
      /\ m # NULL => t.parent[m] = x
      /\ f[m] \subseteq f[x] /\ \A o \in Sides : Child(t, x, o) \in {m, NULL}
  <2>1. 1 - s \in Sides
    BY <1>1 DEF Sides
  <2>2. Child(t, x, s) = NULL /\ m = Child(t, x, 1 - s)
    BY DEF Lone
  <2>3. f[x] = {x} \cup f[Child(t, x, s)] \cup f[Child(t, x, 1 - s)]
    BY <1>1 DEF Shape, Linked, Sides
  <2>4. x \notin f[m] /\ m # x /\ f[m] \subseteq f[x]
    BY <1>1, <2>1, <2>2, BelowSelf
  <2>5. m \in C \cup {NULL} /\ (m # NULL => t.parent[m] = x)
    BY <1>1, <2>1, <2>2 DEF Shape, Linked
  <2>6. \A o \in Sides : Child(t, x, o) \in {m, NULL}
    BY <1>1, <2>2 DEF Sides
  <2> QED
    BY <1>1, <2>2, <2>3, <2>4, <2>5, <2>6
<1>4. /\ a # NULL => a \in C /\ a # x /\ Child(t, a, r) = x /\ a \notin f[x]
      /\ a = NULL <=> x = t.root
  <2>1. /\ a = NULL <=> x = t.root
        /\ a # NULL => a \in C /\ a \notin f[x]
    BY <1>1, SideOf
  <2>2. x \in f[x]
    BY <1>1, BelowSelf
  <2> QED
    BY <1>1, <2>1, <2>2 DEF IsSide
<1>5. /\ u \in Trees /\ u.root = (IF a = NULL THEN m ELSE t.root)
      /\ \A w \in Keys : u.parent[w] = IF w = m THEN a ELSE t.parent[w]
      /\ \A w \in Keys, o \in Sides : Child(u, w, o) = IF w = a /\ o = r THEN m ELSE Child(t, w, o)
  BY DEF Spliced
<1> HIDE DEF g, a
<1>6. ASSUME NEW w \in D, NEW o \in Sides
      PROVE  /\ Child(u, w, o) \in D \cup {NULL}
             /\ Child(u, w, o) # NULL => u.parent[Child(u, w, o)] = w
             /\ g[Child(u, w, o)] = f[Child(t, w, o)] \ {x}
  <2>1. /\ Child(t, w, o) \in C \cup {NULL} /\ w \in Keys
        /\ Child(t, w, o) # NULL => t.parent[Child(t, w, o)] = w
    BY <1>1 DEF Shape, Linked
  <2>2. CASE w = a /\ o = r
    <3>1. Child(u, w, o) = m /\ Child(t, w, o) = x
      BY <1>1, <1>4, <1>5, <2>1, <2>2
    <3>2. m # NULL => u.parent[m] = w
      BY <1>1, <1>3, <1>5, <2>2
    <3> QED
      BY <1>2, <1>3, <3>1, <3>2
  <2>3. CASE ~(w = a /\ o = r)
    <3>1. Child(u, w, o) = Child(t, w, o)
      BY <1>5, <2>1, <2>3
    <3>2. Child(t, w, o) # x
      <4>1. SUFFICES ASSUME Child(t, w, o) = x PROVE FALSE
        OBVIOUS
      <4>2. w = a
        BY <1>1, <2>1, <4>1 DEF a
      <4>3. Child(t, a, r) = x /\ a \in C
        BY <1>1, <1>4, <2>1, <4>2
      <4> QED
        BY <1>1, <2>3, <4>1, <4>2, <4>3, OnlyChild
    <3>3. Child(t, w, o) # NULL => u.parent[Child(t, w, o)] = w
      <4>1. SUFFICES ASSUME Child(t, w, o) # NULL PROVE u.parent[Child(t, w, o)] = w
        OBVIOUS
      <4>2. Child(t, w, o) # m
        BY <1>3, <2>1, <4>1
      <4> QED
        BY <1>1, <1>5, <2>1, <4>1, <4>2
    <3> QED
      BY <1>2, <2>1, <3>1, <3>2, <3>3
  <2> QED
    BY <2>2, <2>3
<1>7. ASSUME NEW w \in D PROVE Linked(u, D, g, w)
  <2>1. /\ f[w] \subseteq C /\ f[w] = {w} \cup f[Child(t, w, 0)] \cup f[Child(t, w, 1)]
        /\ \A o \in Sides : \A y \in f[Child(t, w, o)] : Before(o, y, w)
    BY <1>1 DEF Shape, Linked
  <2>2. g[Child(u, w, 0)] = f[Child(t, w, 0)] \ {x} /\ g[Child(u, w, 1)] = f[Child(t, w, 1)] \ {x}
    BY <1>6 DEF Sides
  <2>3. g[w] = f[w] \ {x}
    BY <1>2
  <2>4. g[w] \subseteq D /\ g[w] = {w} \cup g[Child(u, w, 0)] \cup g[Child(u, w, 1)]
    BY <2>1, <2>2, <2>3
  <2>5. ASSUME NEW o \in Sides, NEW y \in g[Child(u, w, o)] PROVE Before(o, y, w)
    BY <1>6, <2>1, <2>5
  <2> QED
    BY <1>6, <2>4, <2>5 DEF Linked
<1>8. u.root \in D \cup {NULL} /\ g[u.root] = D /\ (u.root # NULL => u.parent[u.root] = NULL)
  <2>1. CASE a = NULL
    <3>1. f[x] = C /\ u.root = m
      BY <1>1, <1>4, <1>5, <2>1
    <3>2. m # NULL => u.parent[m] = NULL
      BY <1>1, <1>3, <1>5, <2>1
    <3> QED
      BY <1>2, <1>3, <3>1, <3>2
  <2>2. CASE a # NULL
    <3>1. u.root = t.root /\ t.root # x
      BY <1>4, <1>5, <2>2
    <3>2. t.root # m
      BY <1>1, <1>3
    <3> QED
      BY <1>1, <1>2, <1>5, <3>1, <3>2
  <2> QED
    BY <2>1, <2>2
<1>9. IsFiniteSet(D) /\ D \subseteq Keys
  BY <1>1, FS_Subset
<1>10. Shape(u, D, g)
  BY <1>2, <1>5, <1>7, <1>8, <1>9 DEF Shape
<1> QED
  BY <1>10 DEF g

\* The subtree that x was in gets lower by one.
LEMMA SplicedFalls ==
    ASSUME NEW t, NEW C, NEW f, NEW H, NEW x, NEW m, NEW s, NEW r, Lone(t, C, f, H, x, m, s, r),
           NEW u, Spliced(t, u, x, m, r)
    PROVE  Falling(u, C \ {x}, WithoutBelow(f, x), H, t.parent[x], r)
<1> DEFINE D == C \ {x}
           g == WithoutBelow(f, x)
           a == t.parent[x]
<1>1. /\ Shape(t, C, f) /\ x \in C /\ C \subseteq Keys /\ t \in Trees /\ NULL \notin C
      /\ r \in Sides /\ s \in Sides /\ H[NULL] = 0
      /\ \A w \in C : Level(t, H, w)
  BY KeysAssumption DEF Lone, IsTree, Shape
<1>2. /\ Shape(u, D, g)
      /\ \A w \in D, o \in Sides : w # a \/ o # r => Child(u, w, o) = Child(t, w, o)
      /\ a # NULL => a \in D /\ Child(u, a, r) = m /\ Child(t, a, r) = x
  <2>1. Shape(u, D, g)
    BY SplicedShape
  <2>2. ASSUME NEW w \in D, NEW o \in Sides, w # a \/ o # r PROVE Child(u, w, o) = Child(t, w, o)
    BY <1>1, <2>2 DEF Spliced
  <2>3. ASSUME a # NULL PROVE a \in D /\ Child(u, a, r) = m /\ Child(t, a, r) = x
    <3>1. IsSide(t, x, r)
      BY DEF Lone
    <3>2. a \in C /\ a \notin f[x] /\ x \in f[x]
      BY <1>1, <2>3, SideOf, BelowSelf
    <3>3. Child(t, a, r) = x
      BY <2>3, <3>1 DEF IsSide
    <3>4. Child(u, a, r) = m
      BY <1>1, <3>2 DEF Spliced
    <3> QED
      BY <3>2, <3>3, <3>4
  <2> HIDE DEF a, g
  <2> QED
    BY <2>1, <2>2, <2>3
<1>3. u \in Trees /\ u.balance = t.balance
  BY DEF Spliced
<1>4. 1 - s \in Sides /\ 1 - r \in Sides /\ 1 - r # r
  BY <1>1 DEF Sides
<1>5. H[m] \in Nat /\ H[x] = H[m] + 1
  <2>1. Child(t, x, s) = NULL /\ m = Child(t, x, 1 - s) /\ x \in Keys
    BY <1>1 DEF Lone
  <2>2. Fits(H[x], Tilt(t, x, s), H[Child(t, x, s)], H[Child(t, x, 1 - s)])
    BY <1>1, <2>1, LevelIs
  <2> QED
    BY <1>1, <2>1, <2>2 DEF Fits, Higher
<1>6. ASSUME NEW w \in D, w # a PROVE Level(u, H, w)
  <2>1. \A o \in Sides : Child(u, w, o) = Child(t, w, o)
    BY <1>2, <1>6
  <2> QED
    BY <1>1, <1>3, <2>1, LevelStays
<1>7. ASSUME a # NULL
      PROVE  /\ H[Child(u, a, r)] \in Nat
             /\ Fits(H[a], Tilt(u, a, r), H[Child(u, a, r)] + 1, H[Child(u, a, 1 - r)])
  <2>1. a \in D /\ a \in Keys /\ Child(u, a, r) = m /\ Child(t, a, r) = x /\ Child(u, a, 1 - r) = Child(t, a, 1 - r)
    BY <1>1, <1>2, <1>4, <1>7
  <2>2. Fits(H[a], Tilt(t, a, r), H[Child(t, a, r)], H[Child(t, a, 1 - r)])
    BY <1>1, <2>1, LevelIs
  <2>3. Tilt(u, a, r) = Tilt(t, a, r)
    BY <1>3 DEF Tilt
  <2> QED
    BY <1>5, <2>1, <2>2, <2>3
<1>8. a \in D \cup {NULL}
  BY <1>2
<1> HIDE DEF a, g
<1>9. Falling(u, D, g, H, a, r)
  BY <1>1, <1>2, <1>6, <1>7, <1>8 DEF Falling
<1> QED
  BY <1>9 DEF a, g

\* A node takes the place of x: z instead of x.
Instead(x, z, w) == IF w = x THEN z ELSE w
InsteadOf(x, z, S) == {y \in Keys : (y = z /\ x \in S) \/ (y # z /\ y # x /\ y \in S)}

\* z, a key on the same side of all other nodes, gets the links and the
\* balance of x, which is a child on side r.
Replaced(t, u, x, z, r) ==
    LET a == t.parent[x]
    IN /\ u \in Trees
       /\ u.root = (IF a = NULL THEN z ELSE t.root)
       /\ \A w \in Keys \ {x} :
            /\ u.parent[w] = IF w = z THEN a
                             ELSE IF w = Child(t, x, 0) \/ w = Child(t, x, 1) THEN z ELSE t.parent[w]
            /\ u.balance[w] = IF w = z THEN t.balance[x] ELSE t.balance[w]
       /\ \A w \in Keys \ {x}, o \in Sides :
            Child(u, w, o) = IF w = z THEN Child(t, x, o) ELSE IF w = a /\ o = r THEN z ELSE Child(t, w, o)

Replaces(t, C, f, x, z, r) ==
    /\ Shape(t, C, f) /\ x \in C /\ z \in Keys /\ z \notin C /\ r \in Sides /\ IsSide(t, x, r)
    /\ \A w \in C, o \in Sides : w # x => (Before(o, w, x) <=> Before(o, w, z))

InsteadBelow(f, x, z) == [w \in Keys \cup {NULL} |-> InsteadOf(x, z, f[Instead(z, x, w)])]

LEMMA InsteadIs ==
    ASSUME NEW x \in Keys, NEW z \in Keys, x # z
    PROVE  /\ Instead(x, z, x) = z /\ Instead(z, x, z) = x
           /\ \A w : w # x => Instead(x, z, w) = w
           /\ \A w : w # z => Instead(z, x, w) = w
           /\ InsteadOf(x, z, {}) = {}
           /\ \A S, T : InsteadOf(x, z, S \cup T) = InsteadOf(x, z, S) \cup InsteadOf(x, z, T)
           /\ \A w \in Keys : w # z => InsteadOf(x, z, {w}) = {Instead(x, z, w)}
           /\ \A S, y : y \in InsteadOf(x, z, S) => \E v \in S : y = Instead(x, z, v)
           /\ \A S : S \subseteq Keys /\ z \notin S /\ x \in S => InsteadOf(x, z, S) = (S \ {x}) \cup {z}
<1>1. \A S, T : InsteadOf(x, z, S \cup T) = InsteadOf(x, z, S) \cup InsteadOf(x, z, T)
  BY DEF InsteadOf
<1>2. \A w \in Keys : w # z => InsteadOf(x, z, {w}) = {Instead(x, z, w)}
  BY DEF InsteadOf, Instead
<1>3. \A S, y : y \in InsteadOf(x, z, S) => \E v \in S : y = Instead(x, z, v)
  BY DEF InsteadOf, Instead
<1>4. \A S : S \subseteq Keys /\ z \notin S /\ x \in S => InsteadOf(x, z, S) = (S \ {x}) \cup {z}
  BY DEF InsteadOf
<1>5. InsteadOf(x, z, {}) = {}
  BY DEF InsteadOf
<1> QED
  BY <1>1, <1>2, <1>3, <1>4, <1>5 DEF Instead

\* Each node has the links of the node it stands for.
LEMMA ReplacedLinks ==
    ASSUME NEW t, NEW C, NEW f, NEW x, NEW z, NEW r, Replaces(t, C, f, x, z, r),
           NEW u, Replaced(t, u, x, z, r), NEW v \in C, NEW o \in Sides
    PROVE  /\ Child(u, Instead(x, z, v), o) = Instead(x, z, Child(t, v, o))
           /\ Child(t, v, o) # NULL => u.parent[Instead(x, z, Child(t, v, o))] = Instead(x, z, v)
           /\ u.balance[Instead(x, z, v)] = t.balance[v]
<1> DEFINE a == t.parent[x]
           c == Child(t, v, o)
           I(w) == Instead(x, z, w)
<1>1. /\ Shape(t, C, f) /\ x \in C /\ z \in Keys /\ z \notin C /\ r \in Sides /\ IsSide(t, x, r)
      /\ C \subseteq Keys /\ NULL \notin Keys /\ x # z
  BY KeysAssumption DEF Replaces, Shape
<1>2. /\ c \in C \cup {NULL} /\ (c # NULL => t.parent[c] = v) /\ c # v /\ c # z
  <2>1. c \in C \cup {NULL} /\ (c # NULL => t.parent[c] = v)
    BY <1>1 DEF Shape, Linked
  <2>2. c # v
    BY <1>1, BelowSelf
  <2> QED
    BY <1>1, <2>1, <2>2
<1>3. a # NULL => a \in C /\ Child(t, a, r) = x
  BY <1>1, SideOf DEF IsSide
<1>4. /\ \A w \in Keys \ {x} :
            /\ u.parent[w] = IF w = z THEN a
                             ELSE IF w = Child(t, x, 0) \/ w = Child(t, x, 1) THEN z ELSE t.parent[w]
            /\ u.balance[w] = IF w = z THEN t.balance[x] ELSE t.balance[w]
      /\ \A w \in Keys \ {x}, e \in Sides :
            Child(u, w, e) = IF w = z THEN Child(t, x, e) ELSE IF w = a /\ e = r THEN z ELSE Child(t, w, e)
  BY DEF Replaced
<1>5. I(x) = z /\ (\A w : w # x => I(w) = w) /\ v \in Keys
  BY <1>1 DEF Instead
<1>6. u.balance[I(v)] = t.balance[v]
  BY <1>1, <1>4, <1>5
<1>7. c = x <=> v = a /\ o = r
  <2>1. ASSUME c = x PROVE v = a /\ o = r
    <3>1. v = a
      BY <1>1, <1>2, <2>1
    <3>2. Child(t, a, r) = x /\ a \in C
      BY <1>1, <1>3, <3>1
    <3> QED
      BY <1>1, <2>1, <3>1, <3>2, OnlyChild
  <2>2. ASSUME v = a, o = r PROVE c = x
    BY <1>1, <1>3, <2>2
  <2> QED
    BY <2>1, <2>2
<1>8. Child(u, I(v), o) = I(c)
  <2>1. CASE v = x
    BY <1>1, <1>2, <1>4, <1>5, <2>1
  <2>2. CASE v # x /\ c = x
    BY <1>1, <1>4, <1>5, <1>7, <2>2
  <2>3. CASE v # x /\ c # x
    BY <1>1, <1>4, <1>5, <1>7, <2>3
  <2> QED
    BY <2>1, <2>2, <2>3
<1>9. ASSUME c # NULL PROVE u.parent[I(c)] = I(v)
  <2>1. CASE c = x
    <3>1. v # x /\ v = a
      BY <1>2, <1>7, <2>1
    <3> QED
      BY <1>1, <1>4, <1>5, <2>1, <3>1
  <2>2. CASE c # x /\ v = x
    <3>1. c \in Keys \ {x} /\ I(c) = c /\ I(v) = z
      BY <1>1, <1>2, <1>5, <1>9, <2>2
    <3>2. c = Child(t, x, 0) \/ c = Child(t, x, 1)
      BY <2>2 DEF Sides
    <3> QED
      BY <1>2, <1>4, <3>1, <3>2
  <2>3. CASE c # x /\ v # x
    <3>1. c \in Keys \ {x} /\ I(c) = c /\ I(v) = v /\ t.parent[c] = v
      BY <1>1, <1>2, <1>5, <1>9, <2>3
    <3>2. \A e \in Sides : Child(t, x, e) # c
      BY <1>1, <1>2, <1>9, <2>3, <3>1, OnlyChild
    <3> QED
      BY <1>2, <1>4, <3>1, <3>2 DEF Sides
  <2> QED
    BY <2>1, <2>2, <2>3
<1> QED
  BY <1>6, <1>8, <1>9

LEMMA ReplacedShape ==
    ASSUME NEW t, NEW C, NEW f, NEW x, NEW z, NEW r, Replaces(t, C, f, x, z, r),
           NEW u, Replaced(t, u, x, z, r)
    PROVE  Shape(u, (C \ {x}) \cup {z}, InsteadBelow(f, x, z))
<1> DEFINE D == (C \ {x}) \cup {z}
           g == InsteadBelow(f, x, z)
           I(w) == Instead(x, z, w)
           J(S) == InsteadOf(x, z, S)
           a == t.parent[x]
<1>1. /\ Shape(t, C, f) /\ x \in C /\ z \in Keys /\ z \notin C /\ r \in Sides /\ IsSide(t, x, r)
      /\ C \subseteq Keys /\ Keys \subseteq Int /\ NULL \notin Keys /\ x # z /\ x \in Keys /\ NULL \notin C
      /\ IsFiniteSet(C) /\ f[NULL] = {} /\ t.root \in C /\ f[t.root] = C /\ t.parent[t.root] = NULL
  BY KeysAssumption DEF Replaces, Shape
<1>2. I(x) = z /\ (\A w : w # x => I(w) = w)
  BY DEF Instead
<1>3. \A v \in C \cup {NULL} : g[I(v)] = J(f[v])
  <2>1. ASSUME NEW v \in C \cup {NULL} PROVE g[I(v)] = J(f[v])
    <3>1. v # z /\ I(v) \in Keys \cup {NULL}
      BY <1>1, <1>2
    <3>2. Instead(z, x, I(v)) = v
      BY <1>1, <1>2, <3>1 DEF Instead
    <3>3. g[I(v)] = J(f[Instead(z, x, I(v))])
      BY <3>1 DEF InsteadBelow
    <3> QED
      BY <3>2, <3>3
  <2> QED
    BY <2>1
<1>4. \A w \in D : \E v \in C : w = I(v)
  BY <1>1, <1>2
<1>5. /\ J({}) = {} /\ (\A S, T : J(S \cup T) = J(S) \cup J(T))
      /\ \A w \in C : J({w}) = {I(w)}
      /\ \A S, y : y \in J(S) => \E v \in S : y = I(v)
  <2>1. J({}) = {} /\ (\A S, T : J(S \cup T) = J(S) \cup J(T))
    BY DEF InsteadOf
  <2>2. \A w \in C : J({w}) = {I(w)}
    BY <1>1 DEF InsteadOf, Instead
  <2>3. \A S, y : y \in J(S) => \E v \in S : y = I(v)
    BY DEF InsteadOf, Instead
  <2> HIDE DEF I, J
  <2> QED
    BY <2>1, <2>2, <2>3
<1>6. J(C) = D
  BY <1>1 DEF InsteadOf
<1> HIDE DEF g
<1>7. ASSUME NEW v \in C PROVE Linked(u, D, g, I(v))
  <2> DEFINE w == I(v)
  <2>1. /\ f[v] \subseteq C /\ f[v] = {v} \cup f[Child(t, v, 0)] \cup f[Child(t, v, 1)]
        /\ \A o \in Sides : Child(t, v, o) \in C \cup {NULL}
        /\ \A o \in Sides : \A y \in f[Child(t, v, o)] : Before(o, y, v)
    BY <1>1 DEF Shape, Linked
  <2>2. ASSUME NEW o \in Sides
        PROVE  /\ Child(u, w, o) = I(Child(t, v, o))
               /\ Child(t, v, o) # NULL => u.parent[I(Child(t, v, o))] = w
    BY ReplacedLinks
  <2>3. \A o \in Sides : g[Child(u, w, o)] = J(f[Child(t, v, o)])
    BY <1>3, <2>1, <2>2
  <2>4. g[w] = {w} \cup g[Child(u, w, 0)] \cup g[Child(u, w, 1)]
    <3>1. g[w] = J(f[v]) /\ J({v}) = {w}
      BY <1>3, <1>5
    <3>2. J(f[v]) = J({v}) \cup J(f[Child(t, v, 0)]) \cup J(f[Child(t, v, 1)])
      <4>1. J(({v} \cup f[Child(t, v, 0)]) \cup f[Child(t, v, 1)])
            = J({v} \cup f[Child(t, v, 0)]) \cup J(f[Child(t, v, 1)])
        BY <1>5
      <4>2. J({v} \cup f[Child(t, v, 0)]) = J({v}) \cup J(f[Child(t, v, 0)])
        BY <1>5
      <4> HIDE DEF J
      <4> QED
        BY <2>1, <4>1, <4>2
    <3>3. 0 \in Sides /\ 1 \in Sides
      BY DEF Sides
    <3> QED
      BY <2>3, <3>1, <3>2, <3>3
  <2>5. g[w] \subseteq D
    <3> SUFFICES ASSUME NEW y \in g[w] PROVE y \in D
      OBVIOUS
    <3>1. PICK e \in f[v] : y = I(e)
      BY <1>3, <1>5
    <3>2. e \in C
      BY <2>1
    <3> QED
      BY <1>1, <1>2, <3>1, <3>2
  <2>6. ASSUME NEW o \in Sides
        PROVE  /\ Child(u, w, o) \in D \cup {NULL}
               /\ Child(u, w, o) # NULL => u.parent[Child(u, w, o)] = w
    <3>1. Child(t, v, o) \in C \cup {NULL}
      BY <2>1
    <3> QED
      BY <1>1, <1>2, <2>2, <3>1
  <2>7. ASSUME NEW o \in Sides, NEW y \in g[Child(u, w, o)] PROVE Before(o, y, w)
    <3>1. PICK e \in f[Child(t, v, o)] : y = I(e)
      BY <1>5, <2>3, <2>7
    <3>2. Before(o, e, v) /\ e \in C /\ e # v
      <4>1. Before(o, e, v) /\ e \in C
        BY <2>1, <3>1 DEF Sides
      <4>2. e # v
        BY <1>1, <3>1, BelowSelf
      <4> QED
        BY <4>1, <4>2
    <3>3. CASE e # x /\ v # x
      BY <1>2, <3>1, <3>2, <3>3
    <3>4. CASE v = x
      <4>1. Before(o, e, z)
        BY <3>2, <3>4 DEF Replaces
      <4> QED
        BY <1>2, <3>1, <3>2, <3>4, <4>1
    <3>5. CASE e = x
      <4>1. 1 - o \in Sides /\ Before(1 - o, v, x)
        BY <1>1, <3>2, <3>5 DEF Before, Sides
      <4>2. Before(1 - o, v, z)
        BY <3>2, <3>5, <4>1 DEF Replaces
      <4>3. Before(o, z, v)
        BY <1>1, <4>2 DEF Before, Sides
      <4> QED
        BY <1>2, <3>1, <3>2, <3>5, <4>3
    <3> QED
      BY <3>3, <3>4, <3>5
  <2> QED
    BY <2>4, <2>5, <2>6, <2>7 DEF Linked
<1>8. u.root = I(t.root) /\ u \in Trees
  <2>1. a = NULL <=> x = t.root
    BY <1>1, SideOf
  <2> QED
    BY <1>2, <2>1 DEF Replaced
<1>9. g[u.root] = D /\ u.root \in D
  BY <1>1, <1>2, <1>3, <1>6, <1>8
<1>10. u.parent[u.root] = NULL
  <2>1. CASE t.root = x
    <3>1. u.root = z /\ z \in Keys \ {x}
      BY <1>1, <1>2, <1>8, <2>1
    <3>2. u.parent[z] = t.parent[x]
      BY <3>1 DEF Replaced
    <3> QED
      BY <1>1, <2>1, <3>1, <3>2
  <2>2. CASE t.root # x
    <3>1. u.root = t.root /\ t.root \in Keys \ {x} /\ t.root # z
      BY <1>1, <1>2, <1>8, <2>2
    <3>2. \A o \in Sides : Child(t, x, o) # t.root
      BY <1>1 DEF Shape, Linked
    <3>3. u.parent[t.root] = t.parent[t.root]
      BY <3>1, <3>2 DEF Replaced, Sides
    <3> QED
      BY <1>1, <3>1, <3>3
  <2> QED
    BY <2>1, <2>2
<1>11. IsFiniteSet(D) /\ D \subseteq Keys
  BY <1>1, FS_Subset, FS_AddElement
<1>12. g[NULL] = {}
  <2>1. I(NULL) = NULL
    BY <1>1, <1>2
  <2> QED
    BY <1>1, <1>3, <1>5, <2>1
<1>13. \A w \in D : Linked(u, D, g, w)
  BY <1>4, <1>7
<1>14. Shape(u, D, g)
  BY <1>8, <1>9, <1>10, <1>11, <1>12, <1>13 DEF Shape
<1> QED
  BY <1>14 DEF g

\* The heights then.
InsteadHeight(H, x, z) == [w \in Keys \cup {NULL} |-> H[Instead(z, x, w)]]

LEMMA ReplacedFalls ==
    ASSUME NEW t, NEW C, NEW f, NEW x, NEW z, NEW r, Replaces(t, C, f, x, z, r),
           NEW u, Replaced(t, u, x, z, r), NEW H, NEW y \in C, NEW s, Falling(t, C, f, H, y, s)
    PROVE  Falling(u, (C \ {x}) \cup {z}, InsteadBelow(f, x, z), InsteadHeight(H, x, z), Instead(x, z, y), s)
<1> DEFINE D == (C \ {x}) \cup {z}
           g == InsteadBelow(f, x, z)
           G == InsteadHeight(H, x, z)
           I(w) == Instead(x, z, w)
<1>1. /\ Shape(t, C, f) /\ x \in C /\ z \in Keys /\ z \notin C
      /\ C \subseteq Keys /\ NULL \notin Keys /\ t \in Trees
  BY KeysAssumption DEF Replaces, Shape
<1>2. Shape(u, D, g) /\ u \in Trees
  <2>1. Shape(u, D, g)
    BY ReplacedShape
  <2> QED
    BY <2>1 DEF Shape
<1>3. I(x) = z /\ (\A w : w # x => I(w) = w)
  BY DEF Instead
<1>4. ASSUME NEW v \in C \cup {NULL} PROVE G[I(v)] = H[v]
  <2>1. v # z /\ I(v) \in Keys \cup {NULL}
    BY <1>1, <1>3
  <2>2. Instead(z, x, I(v)) = v
    BY <1>1, <1>3, <2>1 DEF Instead
  <2>3. G[I(v)] = H[Instead(z, x, I(v))]
    BY <2>1 DEF InsteadHeight
  <2> QED
    BY <2>2, <2>3
<1>5. /\ H[NULL] = 0 /\ s \in Sides /\ 1 - s \in Sides
      /\ H[Child(t, y, s)] \in Nat
      /\ Fits(H[y], Tilt(t, y, s), H[Child(t, y, s)] + 1, H[Child(t, y, 1 - s)])
  BY <1>1 DEF Falling, Sides
<1> HIDE DEF g, G
<1>6. ASSUME NEW v \in C
      PROVE  /\ I(v) \in Keys /\ I(v) \in D /\ G[I(v)] = H[v]
             /\ \A o \in Sides : G[Child(u, I(v), o)] = H[Child(t, v, o)] /\ Tilt(u, I(v), o) = Tilt(t, v, o)
  <2>1. I(v) \in Keys /\ I(v) \in D
    BY <1>1, <1>3
  <2>2. ASSUME NEW o \in Sides
        PROVE  G[Child(u, I(v), o)] = H[Child(t, v, o)] /\ Tilt(u, I(v), o) = Tilt(t, v, o)
    <3>1. Child(u, I(v), o) = I(Child(t, v, o)) /\ u.balance[I(v)] = t.balance[v]
      BY ReplacedLinks
    <3>2. Child(t, v, o) \in C \cup {NULL}
      BY <1>1 DEF Shape, Linked
    <3>3. G[I(Child(t, v, o))] = H[Child(t, v, o)]
      BY <1>4, <3>2
    <3>4. Tilt(u, I(v), o) = Tilt(t, v, o)
      BY <3>1 DEF Tilt
    <3> QED
      BY <3>1, <3>3, <3>4
  <2> QED
    BY <1>4, <2>1, <2>2
<1>7. ASSUME NEW w \in D, w # I(y) PROVE Level(u, G, w)
  <2>1. PICK v \in C : w = I(v)
    BY <1>1, <1>3
  <2>2. v # y /\ v \in Keys
    BY <1>1, <1>7, <2>1
  <2>3. Level(t, H, v)
    BY <2>2 DEF Falling
  <2>4. Fits(H[v], Tilt(t, v, s), H[Child(t, v, s)], H[Child(t, v, 1 - s)])
    BY <1>1, <1>5, <2>2, <2>3, LevelIs
  <2> HIDE DEF I
  <2>5. Fits(G[I(v)], Tilt(u, I(v), s), G[Child(u, I(v), s)], G[Child(u, I(v), 1 - s)])
    BY <1>5, <1>6, <2>4
  <2>6. I(v) \in Keys
    BY <1>6
  <2> QED
    BY <1>2, <1>5, <2>1, <2>5, <2>6, LevelIs
<1>8. /\ G[Child(u, I(y), s)] \in Nat
      /\ Fits(G[I(y)], Tilt(u, I(y), s), G[Child(u, I(y), s)] + 1, G[Child(u, I(y), 1 - s)])
  BY <1>5, <1>6
<1>9. G[NULL] = 0
  <2>1. I(NULL) = NULL
    BY <1>1, <1>3
  <2> QED
    BY <1>4, <1>5, <2>1
<1>10. I(y) \in D
  BY <1>6
<1> HIDE DEF I
<1>11. Falling(u, D, g, G, I(y), s)
  BY <1>2, <1>5, <1>7, <1>8, <1>9, <1>10 DEF Falling
<1> QED
  BY <1>11 DEF g, G, I

\* A node that is not below x is on one side of all that are.
LEMMA Convex ==
    ASSUME NEW t, NEW C, NEW f, Shape(t, C, f), NEW x \in C, NEW w \in C, w \notin f[x]
    PROVE  \E o \in Sides : \A y \in f[x] : Before(o, w, y)
<1> DEFINE Split(e) == \E o \in Sides : \A y \in f[x] : Before(o, e, y)
           S == {v \in C : x \in f[v] /\ \E e \in f[v] : e \notin f[x] /\ ~Split(e)}
<1>1. C \subseteq Int
  BY KeysAssumption DEF Shape
<1>2. S = {}
  <2>1. SUFFICES ASSUME S # {} PROVE FALSE
    OBVIOUS
  <2>2. PICK v \in S : \A s \in Sides : Child(t, v, s) \notin S
    <3> HIDE DEF S
    <3>1. S \subseteq C
      BY DEF S
    <3> QED
      BY <2>1, <3>1, Lowest
  <2>3. PICK e \in f[v] : e \notin f[x] /\ ~Split(e)
    BY <2>2
  <2>4. v \in C /\ x \in f[v] /\ x # v
    BY <2>2, <2>3
  <2>5. PICK o \in Sides : x \in f[Child(t, v, o)]
    BY <2>4 DEF Shape, Linked, Sides
  <2> DEFINE c == Child(t, v, o)
  <2>6. c \in C /\ c \notin S
    BY <2>2, <2>5 DEF Shape, Linked
  <2>7. f[x] \subseteq f[c]
    BY <2>5, <2>6, BelowTransitive
  <2>8. /\ \A y \in f[c] : Before(o, y, v)
        /\ \A y \in f[Child(t, v, 1 - o)] : Before(1 - o, y, v)
        /\ f[v] = {v} \cup f[c] \cup f[Child(t, v, 1 - o)]
        /\ f[c] \subseteq C /\ f[v] \subseteq C
    <3>1. /\ \A s \in Sides : \A y \in f[Child(t, v, s)] : Before(s, y, v)
          /\ f[v] = {v} \cup f[Child(t, v, 0)] \cup f[Child(t, v, 1)]
          /\ f[v] \subseteq C
      BY <2>4 DEF Shape, Linked
    <3>2. 1 - o \in Sides
      BY DEF Sides
    <3>3. f[v] = {v} \cup f[c] \cup f[Child(t, v, 1 - o)]
      BY <3>1 DEF Sides
    <3> QED
      BY <2>5, <3>1, <3>2, <3>3
  <2>9. e \notin f[c]
    <3> HIDE DEF Split
    <3> QED
      BY <2>3, <2>5, <2>6
  <2>10. ASSUME NEW y \in f[x] PROVE Before(1 - o, e, y)
    <3>1. y \in Int /\ v \in Int /\ e \in Int /\ Before(o, y, v)
      BY <1>1, <2>4, <2>3, <2>7, <2>8, <2>10
    <3>2. e = v \/ Before(1 - o, e, v)
      BY <2>3, <2>8, <2>9
    <3> QED
      BY <3>1, <3>2 DEF Before, Sides
  <2>11. 1 - o \in Sides
    BY DEF Sides
  <2> QED
    BY <2>3, <2>10, <2>11
<1>3. t.root \in C /\ f[t.root] = C
  BY DEF Shape
<1>4. Split(w)
  <2> HIDE DEF Split
  <2> QED
    BY <1>2, <1>3
<1> QED
  BY <1>4

\* get_first finds the first of the nodes below y.
LEMMA FirstIs ==
    ASSUME NEW t, NEW C, NEW f, Shape(t, C, f), n \in Nat, Cardinality(C) <= n, NEW y \in C
    PROVE  LET z == get_first(t, y)
           IN z \in f[y] /\ z \in C /\ t.left[z] = NULL /\ \A w \in f[y] : w # z => z < w
<1> DEFINE step == [e \in Keys |-> IF t.left[e] = NULL THEN e ELSE t.left[e]]
           z == get_first(t, y)
<1>1. PICK r : /\ Loop(step, y) = r[n] /\ r[0] = y
               /\ \A i \in 0 .. n - 1 : r[i + 1] = step[r[i]]
  <2> HIDE DEF step
  <2>1. /\ \E r : /\ Loop(step, y) = r[n] /\ r[0] = y
                  /\ \A i \in 0 .. n - 1 : r[i + 1] = step[r[i]]
    BY LoopIs
  <2> QED
    BY <2>1
<1>2. z = r[n]
  BY <1>1, Zenon DEF get_first
<1>3. C \subseteq Keys /\ C \subseteq Int /\ IsFiniteSet(C) /\ NULL \notin C /\ f[y] \subseteq C /\ y \in f[y]
  <2>1. C \subseteq Keys /\ C \subseteq Int /\ IsFiniteSet(C) /\ NULL \notin C
    BY KeysAssumption DEF Shape
  <2> QED
    BY <2>1, BelowSelf
<1> DEFINE Near(e, i) == /\ e \in f[y]
                         /\ \A w \in f[y] : w \in f[e] \/ \A v \in f[e] : v < w
                         /\ t.left[e] = NULL \/ Cardinality(f[e]) <= n - i
           Good == {i \in 0 .. n : Near(r[i], i)}
<1>4. 0 \in Good
  <2>1. Cardinality(f[y]) <= n - 0
    <3>1. Cardinality(f[y]) <= Cardinality(C) /\ IsFiniteSet(f[y])
      BY <1>3, FS_Subset
    <3>2. Cardinality(f[y]) \in Nat /\ Cardinality(C) \in Nat
      BY <1>3, <3>1, FS_CardinalityType
    <3> QED
      BY <3>1, <3>2
  <2>2. Near(y, 0)
    BY <1>3, <2>1
  <2> QED
    BY <1>1, <2>2
<1>5. ASSUME NEW i \in 0 .. n - 1, i \in Good PROVE i + 1 \in Good
  <2> DEFINE e == r[i]
             c == r[i + 1]
  <2>1. Near(e, i) /\ i \in Nat /\ i + 1 \in 0 .. n
    BY <1>5
  <2>2. e \in C /\ e \in Keys
    BY <1>3, <2>1
  <2>3. c = IF t.left[e] = NULL THEN e ELSE t.left[e]
    BY <1>1, <2>1, <2>2
  <2>4. CASE t.left[e] = NULL
    BY <2>1, <2>3, <2>4
  <2>5. CASE t.left[e] # NULL
    <3> HIDE DEF e, c
    <3>1. c = Child(t, e, 0)
      BY <2>3, <2>5 DEF Child
    <3>2. /\ c \in C /\ f[c] \subseteq f[e] /\ c \in f[c] /\ e \in f[e] /\ e \notin f[c] /\ f[e] \subseteq f[y]
          /\ f[e] = {e} \cup f[c] \cup f[Child(t, e, 1)]
          /\ (\A w \in f[c] : w < e) /\ \A w \in f[Child(t, e, 1)] : e < w
      <4>1. c # NULL
        BY <2>3, <2>5
      <4>2. /\ c \in C /\ f[e] = {e} \cup f[c] \cup f[Child(t, e, 1)]
            /\ (\A w \in f[c] : w < e) /\ \A w \in f[Child(t, e, 1)] : e < w
        BY <2>2, <3>1, <4>1 DEF Shape, Linked, Sides, Before
      <4>3. f[c] \subseteq f[e] /\ c \in f[c] /\ e \in f[e] /\ e \notin f[c]
        BY <2>2, <3>1, <4>2, BelowSelf DEF Sides
      <4>4. f[e] \subseteq f[y]
        BY <2>1, BelowTransitive
      <4> QED
        BY <4>2, <4>3, <4>4
    <3>3. ASSUME NEW w \in f[y], w \notin f[c], NEW v \in f[c] PROVE v < w
      <4>1. v \in Int /\ w \in Int /\ e \in Int
        BY <1>3, <2>2, <3>2, <3>3
      <4>2. CASE w \in f[e]
        BY <3>2, <3>3, <4>1, <4>2
      <4>3. CASE w \notin f[e]
        BY <2>1, <3>2, <3>3, <4>3
      <4> QED
        BY <4>2, <4>3
    <3>4. Cardinality(f[c]) <= n - (i + 1)
      <4>1. f[c] \subseteq f[e] /\ f[e] \subseteq C /\ e \in f[e] /\ e \notin f[c]
        BY <1>3, <3>2
      <4>2. Cardinality(f[c]) \in Nat /\ Cardinality(f[e]) \in Nat /\ Cardinality(f[c]) + 1 <= Cardinality(f[e])
        BY <1>3, <4>1, MoreBelow
      <4>3. Cardinality(f[e]) <= n - i
        BY <2>1, <2>5
      <4> QED
        BY <2>1, <4>2, <4>3
    <3>5. Near(c, i + 1)
      BY <3>2, <3>3, <3>4
    <3> QED
      BY <2>1, <3>5 DEF c
  <2> QED
    BY <2>4, <2>5
<1>6. n \in Good
  <2> HIDE DEF Good
  <2> QED
    BY <1>4, <1>5, NatSetInduction
<1> HIDE DEF z
<1>7. Near(z, n)
  BY <1>2, <1>6
<1>8. z \in C /\ z \in f[z]
  <2>1. z \in C
    BY <1>3, <1>7
  <2> QED
    BY <2>1, BelowSelf
<1>9. t.left[z] = NULL
  <2> SUFFICES ASSUME t.left[z] # NULL PROVE FALSE
    OBVIOUS
  <2> DEFINE B == f[z]
  <2>1. z \in B /\ B \subseteq C
    BY <1>8, BelowSelf
  <2>2. Cardinality(B) <= n - n
    BY <1>7
  <2> HIDE DEF B
  <2>3. IsFiniteSet(B)
    BY <1>3, <2>1, FS_Subset
  <2>4. Cardinality(B) \in Nat /\ Cardinality(B) # 0
    BY <2>1, <2>3, FS_CardinalityType, FS_EmptySet
  <2> QED
    BY <2>2, <2>4
<1>10. ASSUME NEW w \in f[y], w # z PROVE z < w
  <2>1. CASE w \in f[z]
    <3>1. Child(t, z, 0) = NULL /\ f[NULL] = {}
      BY <1>9 DEF Child, Shape
    <3>2. f[z] = {z} \cup f[Child(t, z, 0)] \cup f[Child(t, z, 1)] /\ \A v \in f[Child(t, z, 1)] : z < v
      BY <1>8 DEF Shape, Linked, Sides, Before
    <3> QED
      BY <1>10, <2>1, <3>1, <3>2
  <2>2. CASE w \notin f[z]
    BY <1>7, <1>8, <2>2
  <2> QED
    BY <2>1, <2>2
<1> QED
  BY <1>7, <1>8, <1>9, <1>10 DEF z

\* Taking out a node that has at most one child.
LEMMA UnlinkedOne ==
    ASSUME NEW t, NEW x, t.left[x] = NULL \/ t.right[x] = NULL
    PROVE  LET m == IF t.left[x] = NULL THEN t.right[x] ELSE t.left[x]
           IN Unlinked(t, x) = [tree |-> SetParent(Relink(t, x, m), m, t.parent[x]),
                                parent |-> t.parent[x], is_left |-> IsLeft(t, x)]
<1>1. CASE t.left[x] = NULL
  BY <1>1 DEF Unlinked, IsLeft
<1>2. CASE t.left[x] # NULL /\ t.right[x] = NULL
  BY <1>2 DEF Unlinked, IsLeft
<1> QED
  BY <1>1, <1>2

\* x and z exchange places in the code's steps.
Placed(t, x, z) ==
    SetParent([Relink(t, x, z) EXCEPT !.left[z] = t.left[x], !.balance[z] = t.balance[x]], t.left[x], z)
PlacedNear(t, x, z) == [Placed(t, x, z) EXCEPT !.parent[z] = t.parent[x]]
PlacedFar(t, x, z) ==
    SetParent([Placed(t, x, z) EXCEPT !.parent[z] = t.parent[x], !.left[t.parent[z]] = t.right[z],
                                      !.right[z] = t.right[x], !.parent[t.right[x]] = z],
              t.right[z], t.parent[z])

LEMMA UnlinkedTwo ==
    ASSUME NEW t, NEW x, t.left[x] # NULL, t.right[x] # NULL, NEW z, z = get_first(t, t.right[x])
    PROVE  Unlinked(t, x) = IF z = t.right[x]
                            THEN [tree |-> PlacedNear(t, x, z), parent |-> z, is_left |-> FALSE]
                            ELSE [tree |-> PlacedFar(t, x, z), parent |-> t.parent[z], is_left |-> TRUE]
<1> HIDE DEF Placed
<1>1. Unlinked(t, x) = IF z = t.right[x]
                       THEN [tree |-> [Placed(t, x, z) EXCEPT !.parent[z] = t.parent[x]],
                             parent |-> z, is_left |-> FALSE]
                       ELSE [tree |-> PlacedFar(t, x, z), parent |-> t.parent[z], is_left |-> TRUE]
  BY Zenon DEF Unlinked, Placed, PlacedFar
<1> QED
  BY <1>1 DEF PlacedNear

Put(f, x, y) == [f EXCEPT ![x] = y]

\* The fields of t with x in the place of z, but for the links of z's
\* neighbours below.
LEMMA PlacedFields ==
    ASSUME NEW t, t \in Trees, NEW x \in Keys, NEW z \in Keys, x # z, t.left[x] \in Keys
    PROVE  LET v == Relink(t, x, z)
               u == Placed(t, x, z)
           IN /\ u \in Trees /\ u.root = v.root /\ u.right = v.right
              /\ u.left = Put(v.left, z, t.left[x])
              /\ u.parent = Put(t.parent, t.left[x], z)
              /\ u.balance = Put(t.balance, z, t.balance[x])
<1> DEFINE v == Relink(t, x, z)
           l == t.left[x]
           s == [v EXCEPT !.left[z] = l, !.balance[z] = t.balance[x]]
           u == Placed(t, x, z)
<1>1. v \in Trees /\ v.parent = t.parent /\ v.balance = t.balance /\ t.balance[x] \in Int
      /\ l \in Keys /\ NULL \notin Keys
  BY RelinkKeeps, ChildIs, KeysAssumption
<1>2. u = [s EXCEPT !.parent[l] = z]
  BY <1>1 DEF Placed, SetParent
<1> HIDE DEF v, l
<1>3. /\ s \in Trees /\ s.root = v.root /\ s.right = v.right /\ s.parent = t.parent
      /\ s.left = Put(v.left, z, l) /\ s.balance = Put(t.balance, z, t.balance[x])
  BY <1>1 DEF Trees, Pointers, Put
<1> HIDE DEF s, u
<1>4. /\ u \in Trees /\ u.root = s.root /\ u.right = s.right /\ u.left = s.left /\ u.balance = s.balance
      /\ u.parent = Put(s.parent, l, z)
  BY <1>1, <1>2, <1>3 DEF Trees, Pointers, Put
<1> QED
  BY <1>3, <1>4 DEF v, l, u

LEMMA PlacedNearFields ==
    ASSUME NEW t, t \in Trees, NEW x \in Keys, NEW z \in Keys, x # z, t.left[x] \in Keys
    PROVE  LET v == Relink(t, x, z)
               u == PlacedNear(t, x, z)
           IN /\ u \in Trees /\ u.root = v.root /\ u.right = v.right
              /\ u.left = Put(v.left, z, t.left[x])
              /\ u.parent = Put(Put(t.parent, t.left[x], z), z, t.parent[x])
              /\ u.balance = Put(t.balance, z, t.balance[x])
<1> DEFINE v == Relink(t, x, z)
           l == t.left[x]
           a == t.parent[x]
           s == Placed(t, x, z)
           u == PlacedNear(t, x, z)
<1>1. /\ s \in Trees /\ s.root = v.root /\ s.right = v.right
      /\ s.left = Put(v.left, z, l)
      /\ s.parent = Put(t.parent, l, z)
      /\ s.balance = Put(t.balance, z, t.balance[x])
  BY PlacedFields
<1>2. a \in Keys \cup {NULL}
  BY ChildIs
<1>3. u = [s EXCEPT !.parent[z] = a]
  BY DEF PlacedNear
<1> HIDE DEF v, l, a, s, u
<1>4. /\ u \in Trees /\ u.root = s.root /\ u.right = s.right /\ u.left = s.left /\ u.balance = s.balance
      /\ u.parent = Put(s.parent, z, a)
  BY <1>1, <1>2, <1>3 DEF Trees, Pointers, Put
<1> QED
  BY <1>1, <1>4 DEF v, l, a, u

LEMMA PlacedFarFields ==
    ASSUME NEW t, t \in Trees, NEW x \in Keys, NEW z \in Keys, x # z, t.left[x] \in Keys,
           t.right[x] \in Keys, t.parent[z] \in Keys
    PROVE  LET v == Relink(t, x, z)
               u == PlacedFar(t, x, z)
               m == t.right[z]
               p == t.parent[z]
               up == Put(Put(Put(t.parent, t.left[x], z), z, t.parent[x]), t.right[x], z)
           IN /\ u \in Trees /\ u.root = v.root
              /\ u.left = Put(Put(v.left, z, t.left[x]), p, m)
              /\ u.right = Put(v.right, z, t.right[x])
              /\ u.parent = (IF m = NULL THEN up ELSE Put(up, m, p))
              /\ u.balance = Put(t.balance, z, t.balance[x])
<1> DEFINE v == Relink(t, x, z)
           l == t.left[x]
           a == t.parent[x]
           e == t.right[x]
           m == t.right[z]
           p == t.parent[z]
           s == Placed(t, x, z)
           w == [s EXCEPT !.parent[z] = a, !.left[p] = m, !.right[z] = e, !.parent[e] = z]
           u == PlacedFar(t, x, z)
<1>1. /\ s \in Trees /\ s.root = v.root /\ s.right = v.right
      /\ s.left = Put(v.left, z, l)
      /\ s.parent = Put(t.parent, l, z)
      /\ s.balance = Put(t.balance, z, t.balance[x])
  BY PlacedFields
<1>2. a \in Keys \cup {NULL} /\ m \in Keys \cup {NULL} /\ e \in Keys /\ p \in Keys
  BY ChildIs DEF Trees, Pointers, Put
<1>3. u = SetParent(w, m, p)
  BY DEF PlacedFar
<1> HIDE DEF v, l, a, e, m, p, s, u
<1>4. /\ w \in Trees /\ w.root = s.root /\ w.balance = s.balance
      /\ w.left = Put(s.left, p, m) /\ w.right = Put(s.right, z, e)
      /\ w.parent = Put(Put(s.parent, z, a), e, z)
  BY <1>1, <1>2 DEF Trees, Pointers, Put
<1> HIDE DEF w
<1>5. /\ u \in Trees /\ u.root = w.root /\ u.right = w.right /\ u.left = w.left /\ u.balance = w.balance
      /\ u.parent = IF m = NULL THEN w.parent ELSE Put(w.parent, m, p)
  BY <1>2, <1>3, <1>4 DEF Trees, Pointers, Put, SetParent
<1> QED
  BY <1>1, <1>4, <1>5 DEF v, l, a, e, m, p, u

\* The nodes around x, which has the children l and y, and around z, which is
\* below y, has no left child, and has the parent p on its side q.
Neighbours(t, x, z, l, y, m, p, a, r, q) ==
    /\ t \in Trees /\ x \in Keys /\ z \in Keys /\ l \in Keys /\ y \in Keys /\ p \in Keys
    /\ m \in Keys \cup {NULL} /\ a \in Keys \cup {NULL} /\ NULL \notin Keys
    /\ l = t.left[x] /\ y = t.right[x] /\ m = t.right[z] /\ p = t.parent[z] /\ a = t.parent[x]
    /\ t.left[z] = NULL /\ Child(t, p, q) = z /\ q \in Sides
    /\ z # x /\ l # x /\ y # x /\ l # z /\ l # y /\ m # z /\ m # x /\ m # l /\ p # z /\ p # l /\ p # m
    /\ a # x /\ a # z /\ a # y /\ a # l /\ a # p
    /\ t.parent[l] = x /\ t.parent[y] = x /\ (m # NULL => t.parent[m] = z)
    /\ IsSide(t, x, r) /\ r \in Sides

\* The children, in v = Relink(t, x, z), and in s, which is t without z.
LEMMA NeighbourLinks ==
    ASSUME NEW t, NEW x, NEW z, NEW l, NEW y, NEW m, NEW p, NEW a, NEW r, NEW q,
           Neighbours(t, x, z, l, y, m, p, a, r, q), NEW s, Spliced(t, s, z, m, q)
    PROVE  LET v == Relink(t, x, z)
           IN /\ v \in Trees /\ v.root = (IF a = NULL THEN z ELSE t.root)
              /\ \A w \in Keys, o \in Sides : Child(v, w, o) = IF w = a /\ o = r THEN z ELSE Child(t, w, o)
              /\ s.root = t.root /\ s.balance = t.balance
              /\ \A w \in Keys : s.parent[w] = IF w = m THEN p ELSE t.parent[w]
              /\ \A w \in Keys, o \in Sides : Child(s, w, o) = IF w = p /\ o = q THEN m ELSE Child(t, w, o)
              /\ s.parent[x] = a
<1>1. t \in Trees /\ x \in Keys /\ z \in Keys /\ IsSide(t, x, r) /\ a = t.parent[x]
  BY DEF Neighbours
<1>2. /\ Relink(t, x, z) \in Trees /\ Relink(t, x, z).root = (IF a = NULL THEN z ELSE t.root)
      /\ \A w \in Keys, o \in Sides :
            Child(Relink(t, x, z), w, o) = IF w = a /\ o = r THEN z ELSE Child(t, w, o)
  BY <1>1, RelinkIs
<1>3. /\ s.root = t.root /\ s.balance = t.balance
      /\ \A w \in Keys : s.parent[w] = IF w = m THEN p ELSE t.parent[w]
      /\ \A w \in Keys, o \in Sides : Child(s, w, o) = IF w = p /\ o = q THEN m ELSE Child(t, w, o)
  BY DEF Neighbours, Spliced
<1>4. s.parent[x] = a
  BY <1>1, <1>3 DEF Neighbours
<1> QED
  BY <1>2, <1>3, <1>4

LEMMA ReplacedNear ==
    ASSUME NEW t, NEW x, NEW z, NEW l, NEW y, NEW m, NEW p, NEW a, NEW r,
           Neighbours(t, x, z, l, y, m, p, a, r, 1), NEW s, Spliced(t, s, z, m, 1), z = y, p = x
    PROVE  Replaced(s, PlacedNear(t, x, z), x, z, r)
<1> DEFINE v == Relink(t, x, z)
           u == PlacedNear(t, x, z)
<1>1. /\ v \in Trees /\ v.root = (IF a = NULL THEN z ELSE t.root)
      /\ \A w \in Keys, o \in Sides : Child(v, w, o) = IF w = a /\ o = r THEN z ELSE Child(t, w, o)
      /\ s.root = t.root /\ s.balance = t.balance
      /\ \A w \in Keys : s.parent[w] = IF w = m THEN p ELSE t.parent[w]
      /\ \A w \in Keys, o \in Sides : Child(s, w, o) = IF w = p /\ o = 1 THEN m ELSE Child(t, w, o)
      /\ s.parent[x] = a
  BY NeighbourLinks
<1>2. /\ t \in Trees /\ x \in Keys /\ z \in Keys /\ x # z /\ l = t.left[x] /\ l \in Keys /\ a = t.parent[x]
      /\ t.right[z] = m /\ y = t.right[x] /\ t.left[z] = NULL
  BY DEF Neighbours
<1>3. /\ u \in Trees /\ u.root = v.root /\ u.right = v.right
      /\ u.left = Put(v.left, z, l)
      /\ u.parent = Put(Put(t.parent, l, z), z, a)
      /\ u.balance = Put(t.balance, z, t.balance[x])
  BY <1>2, PlacedNearFields
<1> HIDE DEF v, u
<1>4. ASSUME NEW w \in Keys \ {x}
      PROVE  /\ u.parent[w] = IF w = z THEN a ELSE IF w = Child(s, x, 0) \/ w = Child(s, x, 1) THEN z
                              ELSE s.parent[w]
             /\ u.balance[w] = IF w = z THEN s.balance[x] ELSE s.balance[w]
  <2>1. Child(s, x, 0) = l /\ Child(s, x, 1) = m
    BY <1>1, <1>2 DEF Sides, Child
  <2>2. u.parent[w] = IF w = z THEN a ELSE IF w = l THEN z ELSE t.parent[w]
    BY <1>2, <1>3 DEF Put, Trees, Pointers
  <2>3. w = m => t.parent[w] = z
    BY DEF Neighbours
  <2>4. u.balance[w] = IF w = z THEN t.balance[x] ELSE t.balance[w]
    BY <1>2, <1>3 DEF Put, Trees
  <2> QED
    BY <1>1, <2>1, <2>2, <2>3, <2>4
<1>5. ASSUME NEW w \in Keys \ {x}, NEW o \in Sides
      PROVE  Child(u, w, o) = IF w = z THEN Child(s, x, o) ELSE IF w = a /\ o = r THEN z ELSE Child(s, w, o)
  <2>1. Child(u, w, o) = IF w = z /\ o = 0 THEN l ELSE Child(v, w, o)
    BY <1>1, <1>3 DEF Put, Child, Trees, Pointers
  <2>2. Child(s, x, 0) = l /\ Child(s, x, 1) = m /\ z # a
    BY <1>1, <1>2 DEF Sides, Child, Neighbours
  <2>3. Child(t, z, 1) = m
    BY <1>2 DEF Child
  <2> QED
    BY <1>1, <2>1, <2>2, <2>3 DEF Sides
<1>6. u.root = IF a = NULL THEN z ELSE s.root
  BY <1>1, <1>3
<1>7. Replaced(s, u, x, z, r)
  BY <1>1, <1>3, <1>4, <1>5, <1>6 DEF Replaced
<1> QED
  BY <1>7 DEF u

LEMMA ReplacedFar ==
    ASSUME NEW t, NEW x, NEW z, NEW l, NEW y, NEW m, NEW p, NEW a, NEW r,
           Neighbours(t, x, z, l, y, m, p, a, r, 0), NEW s, Spliced(t, s, z, m, 0), z # y, p # x, m # y
    PROVE  Replaced(s, PlacedFar(t, x, z), x, z, r)
<1> DEFINE v == Relink(t, x, z)
           u == PlacedFar(t, x, z)
<1>1. /\ v \in Trees /\ v.root = (IF a = NULL THEN z ELSE t.root)
      /\ \A w \in Keys, o \in Sides : Child(v, w, o) = IF w = a /\ o = r THEN z ELSE Child(t, w, o)
      /\ s.root = t.root /\ s.balance = t.balance
      /\ \A w \in Keys : s.parent[w] = IF w = m THEN p ELSE t.parent[w]
      /\ \A w \in Keys, o \in Sides : Child(s, w, o) = IF w = p /\ o = 0 THEN m ELSE Child(t, w, o)
      /\ s.parent[x] = a
  BY NeighbourLinks
<1>2. /\ t \in Trees /\ x \in Keys /\ z \in Keys /\ x # z /\ l = t.left[x] /\ l \in Keys /\ a = t.parent[x]
      /\ t.right[z] = m /\ y = t.right[x] /\ y \in Keys /\ t.left[z] = NULL /\ p = t.parent[z] /\ p \in Keys
      /\ l # z /\ l # y /\ m # z /\ m # x /\ m # l /\ p # z /\ p # l /\ p # m /\ a # z /\ a # p /\ NULL \notin Keys
  BY DEF Neighbours
<1> DEFINE up == Put(Put(Put(t.parent, l, z), z, a), y, z)
<1>3. /\ u \in Trees /\ u.root = v.root
      /\ u.left = Put(Put(v.left, z, l), p, m)
      /\ u.right = Put(v.right, z, y)
      /\ u.parent = (IF m = NULL THEN up ELSE Put(up, m, p))
      /\ u.balance = Put(t.balance, z, t.balance[x])
  BY <1>2, PlacedFarFields
<1> HIDE DEF v, u, up
<1>4. ASSUME NEW w \in Keys \ {x}
      PROVE  /\ u.parent[w] = IF w = z THEN a ELSE IF w = Child(s, x, 0) \/ w = Child(s, x, 1) THEN z
                              ELSE s.parent[w]
             /\ u.balance[w] = IF w = z THEN s.balance[x] ELSE s.balance[w]
  <2>1. Child(s, x, 0) = l /\ Child(s, x, 1) = y
    BY <1>1, <1>2 DEF Sides, Child
  <2>2. up[w] = (IF w = y THEN z ELSE IF w = z THEN a ELSE IF w = l THEN z ELSE t.parent[w])
        /\ DOMAIN up = Keys
    BY <1>2 DEF up, Put, Trees, Pointers
  <2>3. u.parent[w] = IF w = m THEN p ELSE up[w]
    BY <1>2, <1>3, <2>2 DEF Put
  <2>4. u.balance[w] = IF w = z THEN t.balance[x] ELSE t.balance[w]
    BY <1>2, <1>3 DEF Put, Trees
  <2> QED
    BY <1>1, <1>2, <2>1, <2>2, <2>3, <2>4
<1>5. ASSUME NEW w \in Keys \ {x}, NEW o \in Sides
      PROVE  Child(u, w, o) = IF w = z THEN Child(s, x, o) ELSE IF w = a /\ o = r THEN z ELSE Child(s, w, o)
  <2>1. Child(u, w, o) = IF w = p /\ o = 0 THEN m ELSE IF w = z THEN (IF o = 0 THEN l ELSE y) ELSE Child(v, w, o)
    <3>1. u.left[w] = IF w = p THEN m ELSE IF w = z THEN l ELSE v.left[w]
      BY <1>1, <1>3 DEF Put, Trees, Pointers
    <3>2. u.right[w] = IF w = z THEN y ELSE v.right[w]
      BY <1>1, <1>3 DEF Put, Trees, Pointers
    <3> QED
      BY <1>2, <3>1, <3>2 DEF Child, Sides
  <2>2. Child(s, x, 0) = l /\ Child(s, x, 1) = y
    BY <1>1, <1>2 DEF Sides, Child
  <2> QED
    BY <1>1, <1>2, <2>1, <2>2 DEF Sides
<1>6. u.root = IF a = NULL THEN z ELSE s.root
  BY <1>1, <1>3
<1>7. Replaced(s, u, x, z, r)
  BY <1>1, <1>3, <1>4, <1>5, <1>6 DEF Replaced
<1> QED
  BY <1>7 DEF u

\* What Unlinked gives for x.
Unlinks(t, C, x, out) ==
    /\ out.tree \in Trees /\ out.is_left \in BOOLEAN
    /\ \E g, G : Falling(out.tree, C \ {x}, g, G, out.parent, Side(out.is_left))
    /\ \A w \in Keys \ C : /\ out.tree.left[w] = t.left[w] /\ out.tree.right[w] = t.right[w]
                           /\ out.tree.balance[w] = t.balance[w]

LEMMA UnlinksOne ==
    ASSUME NEW t, NEW C, NEW f, NEW H, IsTree(t, C, f, H), NEW x \in C, t.left[x] = NULL \/ t.right[x] = NULL
    PROVE  Unlinks(t, C, x, Unlinked(t, x))
<1> DEFINE m == IF t.left[x] = NULL THEN t.right[x] ELSE t.left[x]
           s == IF t.left[x] = NULL THEN 0 ELSE 1
           a == t.parent[x]
           b == IsLeft(t, x)
           u == SetParent(Relink(t, x, m), m, a)
           out == Unlinked(t, x)
<1>1. Shape(t, C, f) /\ x \in Keys /\ t \in Trees /\ C \subseteq Keys
  BY DEF IsTree, Shape
<1>2. IsSide(t, x, Side(b)) /\ b \in BOOLEAN /\ Side(b) \in Sides
  <2>1. Side(b) \in Sides
    BY DEF Side, Sides
  <2> QED
    BY <1>1, <2>1, SideIs
<1>3. out = [tree |-> u, parent |-> a, is_left |-> b]
  BY UnlinkedOne
<1>4. m \in Keys \cup {NULL} /\ s \in Sides /\ Child(t, x, s) = NULL /\ m = Child(t, x, 1 - s)
  <2>1. t.left[x] \in Keys \cup {NULL} /\ t.right[x] \in Keys \cup {NULL}
    BY <1>1 DEF Trees, Pointers
  <2>2. CASE t.left[x] = NULL
    BY <2>1, <2>2 DEF Child, Sides
  <2>3. CASE t.left[x] # NULL
    BY <2>1, <2>3 DEF Child, Sides
  <2> QED
    BY <2>2, <2>3
<1>5. Spliced(t, u, x, m, Side(b))
  <2> HIDE DEF m, b
  <2> QED
    BY <1>1, <1>2, <1>4, SplicedIs
<1> HIDE DEF m, s, b, u, out, a
<1>6. Lone(t, C, f, H, x, m, s, Side(b))
  BY <1>2, <1>4 DEF Lone
<1>7. Falling(u, C \ {x}, WithoutBelow(f, x), H, a, Side(b))
  BY <1>5, <1>6, SplicedFalls DEF a
<1>8. a \in C \cup {NULL} /\ NULL \notin C
  <2>1. NULL \notin C
    BY <1>1, KeysAssumption
  <2> QED
    BY <1>1, <2>1, SideOf DEF a
<1>9. ASSUME NEW w \in Keys \ C
      PROVE  u.left[w] = t.left[w] /\ u.right[w] = t.right[w] /\ u.balance[w] = t.balance[w]
  <2>1. w # a
    BY <1>1, <1>8, KeysAssumption
  <2>2. u.balance = t.balance /\ \A o \in Sides : Child(u, w, o) = Child(t, w, o)
    BY <1>5, <2>1 DEF Spliced, a
  <2> QED
    BY <2>2 DEF Child, Sides
<1>10. u \in Trees
  BY <1>5 DEF Spliced
<1>11. out.tree = u /\ out.parent = a /\ out.is_left = b
  BY <1>3
<1>12. Unlinks(t, C, x, out)
  BY <1>2, <1>7, <1>9, <1>10, <1>11 DEF Unlinks
<1> QED
  BY <1>12 DEF out

\* The successor of x in the order of the keys.
LEMMA SuccessorIs ==
    ASSUME NEW t, NEW C, NEW f, Shape(t, C, f), n \in Nat, Cardinality(C) <= n,
           NEW x \in C, t.left[x] # NULL, t.right[x] # NULL,
           NEW z, z = get_first(t, t.right[x])
    PROVE  LET y == t.right[x]
               p == t.parent[z]
           IN /\ z \in C /\ z \in f[y] /\ y \in C /\ t.left[x] \in C /\ t.left[z] = NULL
              /\ p \in C /\ z # t.root
              /\ z = y => p = x /\ Child(t, p, 1) = z
              /\ z # y => p \in f[y] /\ Child(t, p, 0) = z
              /\ \A w \in C, o \in Sides : w # x /\ w # z => (Before(o, w, x) <=> Before(o, w, z))
<1> DEFINE y == t.right[x]
           l == t.left[x]
           p == t.parent[z]
<1>1. /\ C \subseteq Keys /\ C \subseteq Int /\ NULL \notin C /\ l = Child(t, x, 0) /\ y = Child(t, x, 1)
  <2>1. C \subseteq Keys /\ C \subseteq Int /\ NULL \notin C
    BY KeysAssumption DEF Shape
  <2>2. l = Child(t, x, 0) /\ y = Child(t, x, 1)
    BY DEF Child
  <2> QED
    BY <2>1, <2>2
<1>2. /\ l \in C /\ y \in C /\ t.parent[y] = x /\ f[x] = {x} \cup f[l] \cup f[y]
      /\ (\A w \in f[l] : w < x) /\ \A w \in f[y] : x < w
  BY <1>1 DEF Shape, Linked, Sides, Before
<1>3. z \in f[y] /\ z \in C /\ t.left[z] = NULL /\ \A w \in f[y] : w # z => z < w
  BY <1>2, FirstIs
<1>4. f[y] \subseteq C /\ f[l] \subseteq C /\ x \in f[x] /\ z \in f[x] /\ x < z
  BY <1>2, <1>3, BelowSelf
<1>5. z = y => p = x /\ Child(t, p, 1) = z
  BY <1>1, <1>2
<1>6. ASSUME z # y PROVE p \in f[y] /\ p \in C /\ Child(t, p, 0) = z
  <2>1. p \in f[y] /\ p \in C
    BY <1>2, <1>3, <1>6, ParentBelow
  <2>2. PICK o \in Sides : Child(t, p, o) = z
    BY <1>2, <1>3, <1>6, ParentBelow
  <2>3. Before(o, z, p) /\ p # z
    <3>1. z \in f[z]
      BY <1>3, BelowSelf
    <3> QED
      BY <2>1, <2>2, <3>1, BelowSelf DEF Shape, Linked
  <2>4. z < p /\ z \in Int /\ p \in Int
    BY <1>1, <1>3, <2>1, <2>3
  <2> QED
    BY <2>1, <2>2, <2>3, <2>4 DEF Before, Sides
<1>7. ASSUME NEW w \in C, NEW o \in Sides, w # x, w # z PROVE Before(o, w, x) <=> Before(o, w, z)
  <2>1. w \in Int /\ x \in Int /\ z \in Int
    BY <1>1, <1>3
  <2>2. CASE w \in f[x]
    BY <1>2, <1>3, <1>4, <1>7, <2>1, <2>2 DEF Before, Sides
  <2>3. CASE w \notin f[x]
    <3>1. PICK e \in Sides : \A v \in f[x] : Before(e, w, v)
      BY <2>3, Convex
    <3>2. Before(e, w, x) /\ Before(e, w, z)
      BY <1>4, <3>1
    <3> QED
      BY <2>1, <3>2 DEF Before, Sides
  <2> QED
    BY <2>2, <2>3
<1>8. z # t.root
  <2>1. t.root = z => t.parent[z] = NULL
    BY <1>1, <1>3 DEF Shape
  <2> QED
    BY <1>1, <1>5, <1>6, <2>1
<1>9. p \in C
  BY <1>5, <1>6
<1> QED
  BY <1>2, <1>3, <1>5, <1>6, <1>7, <1>8, <1>9

LEMMA UnlinksTwo ==
    ASSUME NEW t, NEW C, NEW f, NEW H, IsTree(t, C, f, H), n \in Nat, Cardinality(C) <= n,
           NEW x \in C, t.left[x] # NULL, t.right[x] # NULL
    PROVE  Unlinks(t, C, x, Unlinked(t, x))
<1> DEFINE z == get_first(t, t.right[x])
           l == t.left[x]
           y == t.right[x]
           m == t.right[z]
           p == t.parent[z]
           a == t.parent[x]
           r == Side(IsLeft(t, x))
           q == IF z = y THEN 1 ELSE 0
           s == SetParent(Relink(t, z, m), m, p)
           u == IF z = y THEN PlacedNear(t, x, z) ELSE PlacedFar(t, x, z)
           out == Unlinked(t, x)
           E == C \ {z}
           D == C \ {x}
           e == WithoutBelow(f, z)
<1>1. /\ Shape(t, C, f) /\ C \subseteq Keys /\ NULL \notin Keys /\ t \in Trees /\ NULL \notin C /\ C \subseteq Int
      /\ f[NULL] = {}
  BY KeysAssumption DEF IsTree, Shape
<1>2. out = [tree |-> u, parent |-> IF z = y THEN z ELSE p, is_left |-> z # y]
  BY UnlinkedTwo
<1>3. IsSide(t, x, r) /\ r \in Sides
  <2>1. r \in Sides
    BY DEF Side, Sides
  <2> QED
    BY <1>1, <2>1, SideIs
<1> HIDE DEF z, r, out
<1>4. /\ z \in C /\ z \in f[y] /\ y \in C /\ l \in C /\ t.left[z] = NULL
      /\ p \in C /\ z # t.root
      /\ z = y => p = x /\ Child(t, p, 1) = z
      /\ z # y => p \in f[y] /\ Child(t, p, 0) = z
  BY <1>1, SuccessorIs DEF z
<1>5. ASSUME NEW w \in C, NEW o \in Sides, w # x, w # z PROVE Before(o, w, x) <=> Before(o, w, z)
  BY <1>1, <1>5, SuccessorIs DEF z
<1>6. /\ l = Child(t, x, 0) /\ y = Child(t, x, 1) /\ m = Child(t, z, 1 - 0) /\ m = Child(t, z, 1)
      /\ Child(t, z, 0) = NULL
  BY <1>4 DEF Child
<1>7. q \in Sides /\ Child(t, p, q) = z
  BY <1>4 DEF Sides
<1>8. IsSide(t, z, q)
  <2>1. Child(t, p, 1 - q) # z /\ 1 - q \in Sides
    <3>1. 1 - q \in Sides /\ 1 - q # q
      BY <1>7 DEF Sides
    <3> HIDE DEF q
    <3>2. z # NULL
      BY <1>1, <1>4
    <3> QED
      BY <1>1, <1>4, <1>7, <3>1, <3>2, OnlyChild
  <2> QED
    BY <1>7, <2>1 DEF IsSide
<1>9. /\ f[x] = {x} \cup f[l] \cup f[y] /\ x \in f[x] /\ x \notin f[l] /\ x \notin f[y] /\ f[l] \cap f[y] = {}
      /\ t.parent[l] = x /\ t.parent[y] = x /\ l \in f[l] /\ y \in f[y]
  <2>1. Linked(t, C, f, x)
    BY <1>1 DEF Shape
  <2>2. f[x] = {x} \cup f[l] \cup f[y] /\ t.parent[l] = x /\ t.parent[y] = x
    BY <1>1, <1>4, <1>6, <2>1 DEF Linked, Sides
  <2>3. x \in f[x] /\ x \notin f[l] /\ x \notin f[y] /\ f[l] \cap f[y] = {}
    BY <1>1, <1>6, BelowSelf DEF Sides
  <2>4. l \in f[l] /\ y \in f[y]
    BY <1>1, <1>4, BelowSelf
  <2> QED
    BY <2>2, <2>3, <2>4
<1>10. /\ m \in C \cup {NULL} /\ m # z /\ (m # NULL => t.parent[m] = z /\ m \in f[y] /\ m # y)
  <2>1. m \in C \cup {NULL} /\ (m # NULL => t.parent[m] = z)
    BY <1>1, <1>4, <1>6 DEF Shape, Linked, Sides
  <2>2. f[m] \subseteq f[z] /\ z \notin f[m] /\ f[z] \subseteq f[y] /\ z \in f[z] /\ m # z
    <3>1. f[m] \subseteq f[z] /\ z \notin f[m] /\ z \in f[z] /\ m # z
      BY <1>1, <1>4, <1>6, BelowSelf DEF Sides
    <3>2. f[z] \subseteq f[y]
      BY <1>1, <1>4, BelowTransitive
    <3> QED
      BY <3>1, <3>2
  <2>3. ASSUME m # NULL PROVE m \in f[y] /\ m # y
    <3>1. m \in f[m]
      BY <1>1, <2>1, <2>3, BelowSelf
    <3>2. m # y
      BY <1>4, <2>2
    <3> QED
      BY <2>2, <3>1, <3>2
  <2> QED
    BY <2>1, <2>2, <2>3
<1>11. a \in C \cup {NULL} /\ (a # NULL => a \notin f[x])
  BY <1>1, SideOf
<1>12. p # z /\ (m # NULL => p # m)
  <2>1. p # z
    BY <1>1, <1>4, <1>7, BelowSelf
  <2>2. ASSUME m # NULL, p = m PROVE FALSE
    <3>1. m \in C /\ f[m] \subseteq f[z] /\ z \notin f[m] /\ Child(t, m, q) = z /\ z \in f[z]
      BY <1>1, <1>4, <1>6, <1>7, <1>10, <2>2, BelowSelf DEF Sides
    <3>2. f[z] \subseteq f[m]
      <4> HIDE DEF m, p, q
      <4> QED
        BY <1>1, <1>7, <3>1, BelowSelf
    <3> QED
      BY <3>1, <3>2
  <2> QED
    BY <2>1, <2>2
<1>13. p \in f[x] /\ z \in f[x] /\ z # x /\ l # x /\ y # x /\ l # z /\ l # y /\ m # x /\ m # l /\ p # l /\ l \in f[x] /\ y \in f[x]
  BY <1>1, <1>4, <1>9, <1>10
<1>14. a # x /\ a # z /\ a # y /\ a # l /\ a # p
  BY <1>1, <1>4, <1>9, <1>11, <1>13
<1>15. Neighbours(t, x, z, l, y, m, p, a, r, q)
  BY <1>1, <1>3, <1>4, <1>7, <1>9, <1>10, <1>11, <1>12, <1>13, <1>14 DEF Neighbours
<1>16. Spliced(t, s, z, m, q)
  <2>1. z \in Keys /\ m \in Keys \cup {NULL}
    BY <1>1, <1>4, <1>10
  <2> HIDE DEF q, m
  <2> QED
    BY <1>1, <1>8, <2>1, SplicedIs
<1>17. Lone(t, C, f, H, z, m, 0, q)
  BY <1>4, <1>6, <1>7, <1>8 DEF Lone, Sides
<1> HIDE DEF s, u, e, m
<1>18. Falling(s, E, e, H, p, q)
  <2> HIDE DEF q, p
  <2> QED
    BY <1>16, <1>17, SplicedFalls DEF p, e
<1>19. Shape(s, E, e)
  BY <1>18 DEF Falling
<1>20. Replaced(s, u, x, z, r)
  <2>1. CASE z = y
    <3>1. p = x /\ q = 1 /\ u = PlacedNear(t, x, z)
      BY <1>4, <2>1 DEF u
    <3> HIDE DEF q, p, y, l, a
    <3> QED
      BY <1>15, <1>16, <2>1, <3>1, ReplacedNear
  <2>2. CASE z # y
    <3>1. p # x /\ q = 0 /\ u = PlacedFar(t, x, z) /\ m # y
      BY <1>1, <1>4, <1>9, <1>10, <2>2 DEF u
    <3> HIDE DEF q, p, y, l, a
    <3> QED
      BY <1>15, <1>16, <2>2, <3>1, ReplacedFar
  <2> QED
    BY <2>1, <2>2
<1>21. Replaces(s, E, e, x, z, r)
  <2>1. x \in E /\ z \in Keys /\ z \notin E
    BY <1>1, <1>4, <1>13
  <2>2. IsSide(s, x, r)
    <3>1. s.parent[x] = a
      BY <1>15, <1>16, NeighbourLinks
    <3>2. ASSUME a # NULL, NEW o \in Sides PROVE Child(s, a, o) = Child(t, a, o)
      <4>1. a \in Keys
        BY <1>1, <1>11, <3>2
      <4> QED
        BY <1>14, <1>16, <4>1 DEF Spliced
    <3>3. 1 - r \in Sides
      BY <1>3 DEF Sides
    <3> QED
      BY <1>3, <3>1, <3>2, <3>3 DEF IsSide
  <2>3. ASSUME NEW w \in E, NEW o \in Sides, w # x PROVE Before(o, w, x) <=> Before(o, w, z)
    BY <1>5, <2>3
  <2> QED
    BY <1>3, <1>19, <2>1, <2>2, <2>3 DEF Replaces
<1>22. p \in E
  BY <1>4, <1>12
<1>23. Falling(u, (E \ {x}) \cup {z}, InsteadBelow(e, x, z), InsteadHeight(H, x, z), Instead(x, z, p), q)
  <2> HIDE DEF E, q, p
  <2> QED
    BY <1>18, <1>20, <1>21, <1>22, ReplacedFalls
<1>24. /\ (E \ {x}) \cup {z} = D
       /\ out.tree = u /\ out.parent = Instead(x, z, p) /\ out.is_left \in BOOLEAN /\ Side(out.is_left) = q
  <2>1. (E \ {x}) \cup {z} = D
    BY <1>4, <1>13
  <2>2. CASE z = y
    BY <1>2, <1>4, <2>1, <2>2 DEF Instead, Side
  <2>3. CASE z # y
    <3>1. p # x
      BY <1>4, <1>9, <2>3
    <3> QED
      BY <1>2, <2>1, <2>3, <3>1 DEF Instead, Side
  <2> QED
    BY <2>2, <2>3
<1>25. u \in Trees
  BY <1>20 DEF Replaced
<1>26. ASSUME NEW w \in Keys \ C
       PROVE  u.left[w] = t.left[w] /\ u.right[w] = t.right[w] /\ u.balance[w] = t.balance[w]
  <2>1. w \in Keys \ {x} /\ w # z /\ w # p /\ w # s.parent[x]
    <3>1. s.parent[x] = a
      BY <1>15, <1>16, NeighbourLinks
    <3> QED
      BY <1>1, <1>4, <1>11, <3>1
  <2>2. u.balance[w] = s.balance[w] /\ \A o \in Sides : Child(u, w, o) = Child(s, w, o)
    BY <1>20, <2>1 DEF Replaced
  <2>3. s.balance = t.balance /\ \A o \in Sides : Child(s, w, o) = Child(t, w, o)
    BY <1>16, <2>1 DEF Spliced
  <2> QED
    BY <2>2, <2>3 DEF Child, Sides
<1>27. Unlinks(t, C, x, out)
  BY <1>23, <1>24, <1>25, <1>26 DEF Unlinks
<1> QED
  BY <1>27 DEF out

LEMMA UnlinksIs ==
    ASSUME NEW t, NEW C, NEW f, NEW H, IsTree(t, C, f, H), n \in Nat, Cardinality(C) <= n, NEW x \in C
    PROVE  Unlinks(t, C, x, Unlinked(t, x))
<1>1. CASE t.left[x] = NULL \/ t.right[x] = NULL
  BY <1>1, UnlinksOne
<1>2. CASE t.left[x] # NULL /\ t.right[x] # NULL
  BY <1>2, UnlinksTwo
<1> QED
  BY <1>1, <1>2

LEMMA RemoveKeeps ==
    ASSUME TreeInv, NEW k \in Keys, avl_tree_remove(k)
    PROVE  TreeInv' /\ Contents' = Contents \ {k} /\ k \in Contents
<1> DEFINE t == tree
           C == Contents
           f == BelowIn(tree)
           H == HeightIn(tree)
           out == Unlinked(t, k)
           a == out.parent
           b == out.is_left
           v == Lower(out.tree, a, b)
           D == C \ {k}
<1>1. /\ IsTree(t, C, f, H) /\ Shape(t, C, f) /\ t \in Trees /\ C \subseteq Keys /\ IsFiniteSet(C)
      /\ Whole(t, C) /\ n = Cardinality(C) /\ n \in Nat /\ NULL \notin Keys
  BY TreeNow, KeysAssumption
<1>2. avl_lookup_engine(t, k).node # NULL /\ n' = n - 1 /\ tree' = Cleared(v, k)
  BY DEF avl_tree_remove, Found
<1> HIDE DEF C, f, H, out, v
<1>3. Cardinality(C) <= n
  BY <1>1
<1>4. k \in C
  BY <1>1, <1>2, <1>3, LookupIs
<1>5. Cardinality(D) = n - 1 /\ Cardinality(D) <= n /\ n' = Cardinality(D)
  <2>1. Cardinality(D) = n - 1
    BY <1>1, <1>4, FS_RemoveElement
  <2> QED
    BY <1>1, <1>2, <2>1
<1>6. Unlinks(t, C, k, out)
  BY <1>1, <1>3, <1>4, UnlinksIs DEF out
<1>7. /\ b \in BOOLEAN
      /\ \A w \in Keys \ C : /\ out.tree.left[w] = t.left[w] /\ out.tree.right[w] = t.right[w]
                             /\ out.tree.balance[w] = t.balance[w]
  BY <1>6 DEF Unlinks
<1>8. PICK g, G : Falling(out.tree, D, g, G, a, Side(b))
  BY <1>6 DEF Unlinks
<1> HIDE DEF D
<1>9. (\E e, E : IsTree(v, D, e, E)) /\ Untouched(out.tree, v, D)
  BY <1>1, <1>5, <1>7, <1>8, LowerIs DEF v
<1>10. PICK e, E : IsTree(v, D, e, E)
  BY <1>9
<1>11. v \in Trees /\ D \subseteq Keys
  BY <1>10 DEF IsTree, Shape
<1>12. /\ tree' \in Trees /\ tree'.root = v.root
       /\ tree'.left[k] = NULL /\ tree'.right[k] = NULL /\ tree'.balance[k] = 0
       /\ \A w \in Keys : w # k => /\ tree'.left[w] = v.left[w] /\ tree'.right[w] = v.right[w]
                                   /\ tree'.parent[w] = v.parent[w] /\ tree'.balance[w] = v.balance[w]
  BY <1>2, <1>11, ClearedIs
<1>13. IsTree(tree', D, e, E)
  <2>1. ASSUME NEW w \in D
        PROVE  /\ tree'.left[w] = v.left[w] /\ tree'.right[w] = v.right[w]
               /\ tree'.parent[w] = v.parent[w] /\ tree'.balance[w] = v.balance[w]
    <3>1. w \in Keys /\ w # k
      BY <1>11 DEF D
    <3> QED
      BY <1>12, <3>1
  <2> QED
    BY <1>10, <1>12, <2>1, SameOn
<1>14. ASSUME NEW w \in Keys \ D
       PROVE  tree'.left[w] = NULL /\ tree'.right[w] = NULL /\ tree'.balance[w] = 0
  <2>1. CASE w = k
    BY <1>12, <2>1
  <2>2. CASE w # k
    <3>1. w \in Keys \ C
      BY <2>2 DEF D
    <3>2. t.left[w] = NULL /\ t.right[w] = NULL /\ t.balance[w] = 0
      BY <1>1, <3>1 DEF Whole
    <3>3. v.left[w] = out.tree.left[w] /\ v.right[w] = out.tree.right[w]
          /\ v.balance[w] = out.tree.balance[w]
      BY <1>9 DEF Untouched
    <3> QED
      BY <1>7, <1>12, <2>2, <3>1, <3>2, <3>3
  <2> QED
    BY <2>1, <2>2
<1>15. Whole(tree', D)
  BY <1>14 DEF Whole
<1>16. TreeInv' /\ Contents' = D
  BY <1>5, <1>13, <1>15, TreeAfter
<1> QED
  BY <1>4, <1>16 DEF C, D

-----------------------------------------------------------------------------
(***************************************************************************)
(* The theorems about the specification.                                   *)
(***************************************************************************)
LEMMA StutterKeeps ==
    ASSUME TreeInv, UNCHANGED avlVars
    PROVE  TreeInv'
<1>1. tree' = tree /\ n' = n
  BY DEF avlVars
<1> QED
  BY <1>1 DEF TreeInv, Contents, Below

\* The invariant that the calls keep: the links, balances and heights are
\* those of an AVL tree of the contents, n counts them, and a node that is
\* not in the tree is as new_avl_node and the free of a removed node leave it.
THEOREM TreeInvariant == AVLSpec => []TreeInv
<1>1. AVLInit => TreeInv
  BY InitTree
<1>2. TreeInv /\ [AVLNext]_avlVars => TreeInv'
  <2>1. SUFFICES ASSUME TreeInv, [AVLNext]_avlVars PROVE TreeInv'
    OBVIOUS
  <2>2. CASE UNCHANGED avlVars
    BY <2>1, <2>2, StutterKeeps
  <2>3. ASSUME NEW k \in Keys, avl_tree_insert(k) PROVE TreeInv'
    BY <2>1, <2>3, InsertKeeps
  <2>4. ASSUME NEW k \in Keys, avl_tree_remove(k) PROVE TreeInv'
    BY <2>1, <2>4, RemoveKeeps
  <2> QED
    BY <2>1, <2>2, <2>3, <2>4 DEF AVLNext
<1> QED
  BY <1>1, <1>2, PTL DEF AVLSpec

\* Before and after every call of avl_tree_insert and avl_tree_remove the
\* object is an AVL tree: ordered, with parent links that agree, balanced,
\* each balance the difference of the heights, and n the number of nodes.
THEOREM AlwaysAVLTree == AVLSpec => []IsAVLTree
BY TreeInvariant, InvIsAVL, PTL

\* An insertion adds its key and a removal takes its key out, and neither
\* loses or adds another node, however much it rotates.
THEOREM OneKeyChanges == AVLSpec => ChangesOneKey
<1>1. TreeInv /\ [AVLNext]_avlVars =>
         [tree' # tree =>
            LET before == Contents
                after == Contents'
            IN  \E k \in Keys : \/ after = before \cup {k} /\ avl_tree_insert(k)
                                \/ after = before \ {k} /\ avl_tree_remove(k)]_avlVars
  BY InsertKeeps, RemoveKeeps DEF AVLNext
<1> QED
  BY <1>1, TreeInvariant, PTL DEF AVLSpec, ChangesOneKey
=============================================================================
