------------------------- MODULE ChunkAndWalkProofs -------------------------
(***************************************************************************)
(* Proofs about ChunkManager, for any places of groups and any number of   *)
(* chunks per group: no chunk is lost or given out twice, the manager has  *)
(* the memory of its groups and no other, a trim is complete, and the      *)
(* manager implements the abstract pool.  Then proofs about AVLTraversal,  *)
(* for any trees that AVLTree may have left and any number of threads.     *)
(***************************************************************************)
EXTENDS ChunkManager, AVLTraversal, DataFacts

\* What a pass of a trim leaves after the first i entries of a list.
Pass(old, Kept, new, n) ==
    new = [i \in 0 .. n |->
             IF i = 0 THEN << >>
             ELSE IF old[i] \in Kept THEN <<old[i]>> \o new[i - 1] ELSE new[i - 1]]

LEMMA PassExists ==
    ASSUME NEW old, NEW Kept, NEW n \in Nat
    PROVE  \E new : Pass(old, Kept, new, n)
<1> DEFINE Good == {k \in 0 .. n : \E new : Pass(old, Kept, new, k)}
<1>1. 0 \in Good
  <2>1. Pass(old, Kept, [i \in 0 .. 0 |-> << >>], 0)
    BY DEF Pass
  <2> QED
    BY <2>1
<1>2. ASSUME NEW k \in 0 .. n - 1, k \in Good PROVE k + 1 \in Good
  <2>1. PICK f : Pass(old, Kept, f, k)
    BY <1>2
  <2> DEFINE g == [i \in 0 .. k + 1 |->
                     IF i <= k THEN f[i]
                     ELSE IF old[i] \in Kept THEN <<old[i]>> \o f[i - 1] ELSE f[i - 1]]
  <2>2. \A i \in 0 .. k : f[i] = IF i = 0 THEN << >>
                                 ELSE IF old[i] \in Kept THEN <<old[i]>> \o f[i - 1] ELSE f[i - 1]
    BY <2>1 DEF Pass
  <2>3. \A i \in 0 .. k + 1 :
          g[i] = IF i = 0 THEN << >>
                 ELSE IF old[i] \in Kept THEN <<old[i]>> \o g[i - 1] ELSE g[i - 1]
    <3> SUFFICES ASSUME NEW i \in 0 .. k + 1
                 PROVE  g[i] = IF i = 0 THEN << >>
                               ELSE IF old[i] \in Kept THEN <<old[i]>> \o g[i - 1] ELSE g[i - 1]
      OBVIOUS
    <3>1. i # 0 => i - 1 \in 0 .. k /\ g[i - 1] = f[i - 1]
      OBVIOUS
    <3> QED
      BY <2>2, <3>1
  <2>4. Pass(old, Kept, g, k + 1)
    <3> HIDE DEF g
    <3>1. g = [i \in 0 .. k + 1 |-> g[i]]
      BY DEF g
    <3> QED
      BY <2>3, <3>1 DEF Pass
  <2> QED
    BY <2>4
<1> HIDE DEF Good
<1>3. 0 .. n \subseteq Good
  BY <1>1, <1>2, NatSetInduction
<1> QED
  BY <1>3 DEF Good

\* A pass keeps what it is meant to keep and adds, repeats or loses nothing.
LEMMA TurnedIs ==
    ASSUME NEW T, NEW old \in Seq(T), NEW Kept
    PROVE  /\ Turned(old, Kept) \in Seq(T)
           /\ ToSet(Turned(old, Kept)) = ToSet(old) \cap Kept
           /\ IsInjective(old) => IsInjective(Turned(old, Kept))
<1> DEFINE new == CHOOSE f : Pass(old, Kept, f, Len(old))
           First(k) == {old[i] : i \in 1 .. k}
           Good == {k \in 0 .. Len(old) :
                      /\ new[k] \in Seq(T)
                      /\ ToSet(new[k]) = First(k) \cap Kept
                      /\ IsInjective(old) => IsInjective(new[k])}
<1>1. Turned(old, Kept) = new[Len(old)]
  BY DEF Turned, Pass
<1>2. Pass(old, Kept, new, Len(old))
  <2>1. Len(old) \in Nat
    OBVIOUS
  <2> QED
    BY <2>1, PassExists
<1> HIDE DEF new
<1>3. 0 \in Good
  <2>1. new[0] = << >>
    BY <1>2 DEF Pass
  <2>2. << >> \in Seq(T) /\ ToSet(<< >>) = {} /\ IsInjective(<< >>)
    BY DEF ToSet, IsInjective
  <2>3. First(0) = {} /\ 0 \in 0 .. Len(old)
    OBVIOUS
  <2> QED
    BY <2>1, <2>2, <2>3
<1>4. ASSUME NEW k \in 0 .. Len(old) - 1, k \in Good PROVE k + 1 \in Good
  <2>1. k + 1 \in 1 .. Len(old) /\ old[k + 1] \in T
    OBVIOUS
  <2>2. new[k + 1] = IF old[k + 1] \in Kept THEN <<old[k + 1]>> \o new[k] ELSE new[k]
    <3>1. \A i \in 0 .. Len(old) :
            new[i] = IF i = 0 THEN << >>
                     ELSE IF old[i] \in Kept THEN <<old[i]>> \o new[i - 1] ELSE new[i - 1]
      BY <1>2 DEF Pass
    <3>2. k + 1 \in 0 .. Len(old) /\ k + 1 # 0 /\ (k + 1) - 1 = k
      BY <2>1
    <3> QED
      BY <3>1, <3>2
  <2>3. First(k + 1) = First(k) \cup {old[k + 1]}
    <3>1. 1 .. k + 1 = (1 .. k) \cup {k + 1}
      OBVIOUS
    <3> QED
      BY <3>1
  <2>4. IsInjective(old) => old[k + 1] \notin First(k)
    <3>1. DOMAIN old = 1 .. Len(old)
      OBVIOUS
    <3> QED
      BY <2>1, <3>1 DEF IsInjective
  <2>5. /\ new[k] \in Seq(T)
        /\ ToSet(new[k]) = First(k) \cap Kept
        /\ IsInjective(old) => IsInjective(new[k])
    BY <1>4
  <2> HIDE DEF First
  <2>6. CASE old[k + 1] \in Kept
    <3> DEFINE e == old[k + 1]
               s == new[k]
    <3>1. e \in T /\ s \in Seq(T)
      BY <2>1, <2>5
    <3> HIDE DEF e, s
    <3>2. /\ <<e>> \o s \in Seq(T)
          /\ ToSet(<<e>> \o s) = {e} \cup ToSet(s)
          /\ IsInjective(s) /\ e \notin ToSet(s) => IsInjective(<<e>> \o s)
      BY <3>1, ConsIs
    <3>3. new[k + 1] = <<e>> \o s
      BY <2>2, <2>6 DEF e, s
    <3>4. ToSet(new[k + 1]) = First(k + 1) \cap Kept
      BY <2>3, <2>5, <2>6, <3>2, <3>3 DEF e, s
    <3>5. IsInjective(old) => IsInjective(new[k + 1])
      BY <2>4, <2>5, <3>2, <3>3 DEF e, s
    <3>6. k + 1 \in 0 .. Len(old) /\ new[k + 1] \in Seq(T)
      BY <2>1, <3>2, <3>3
    <3> QED
      BY <3>4, <3>5, <3>6
  <2>7. CASE old[k + 1] \notin Kept
    BY <2>1, <2>2, <2>3, <2>5, <2>7
  <2> QED
    BY <2>6, <2>7
<1> HIDE DEF Good
<1>5. Len(old) \in Nat
  OBVIOUS
<1>6. Len(old) \in Good
  <2>1. 0 .. Len(old) \subseteq Good
    BY <1>3, <1>4, <1>5, NatSetInduction
  <2> QED
    BY <1>5, <2>1
<1>7. First(Len(old)) = ToSet(old)
  BY ToSetIs
<1> QED
  BY <1>1, <1>6, <1>7 DEF Good

\* A pass over a list without repetitions shortens it if it drops anything.
LEMMA TurnedShorter ==
    ASSUME NEW T, NEW old \in Seq(T), NEW Kept, IsInjective(old)
    PROVE  /\ Len(Turned(old, Kept)) <= Len(old)
           /\ Len(Turned(old, Kept)) = Len(old) <=> ToSet(old) \subseteq Kept
<1> DEFINE new == Turned(old, Kept)
<1>1. /\ new \in Seq(T) /\ IsInjective(new)
      /\ ToSet(new) = ToSet(old) \cap Kept
  BY TurnedIs
<1> HIDE DEF new
<1>2. Len(new) = Cardinality(ToSet(new)) /\ Len(old) = Cardinality(ToSet(old))
  BY <1>1, LenIsCardinality
<1>3. IsFiniteSet(ToSet(old)) /\ ToSet(new) \in SUBSET ToSet(old)
  BY <1>1, ToSetIs
<1>4. /\ Cardinality(ToSet(new)) <= Cardinality(ToSet(old))
      /\ Cardinality(ToSet(old)) = Cardinality(ToSet(new)) => ToSet(old) = ToSet(new)
  BY <1>3, FS_Subset
<1> QED
  BY <1>1, <1>2, <1>4 DEF new

-----------------------------------------------------------------------------
(***************************************************************************)
(* The invariant.  To the run's invariants it adds that no group is on the *)
(* list of groups twice.                                                   *)
(***************************************************************************)
IInv == ChunksAccountedFor /\ MemoryExact /\ IsInjective(groups)

\* The chunks of a group.
ChunksIn(g) == {g} \X (1..ChunksPerGroup)

FreeIn(g) == ToSet(free_chunks_list) \cap ChunksIn(g)

\* How often a list without repetitions has chunks of a group.
LEMMA CountInGroup ==
    ASSUME NEW s \in Seq(Chunks), IsInjective(s), NEW g \in Groups
    PROVE  /\ Cardinality({i \in DOMAIN s : GroupOf(s[i]) = g}) = Cardinality(ToSet(s) \cap ChunksIn(g))
           /\ IsFiniteSet(ToSet(s) \cap ChunksIn(g))
           /\ Cardinality(ToSet(s) \cap ChunksIn(g)) \in 0..ChunksPerGroup
           /\ Cardinality(ToSet(s) \cap ChunksIn(g)) = ChunksPerGroup
                <=> ChunksIn(g) \subseteq ToSet(s)
<1>1. {i \in DOMAIN s : GroupOf(s[i]) = g} = {i \in DOMAIN s : s[i] \in ChunksIn(g)}
  <2>1. \A i \in DOMAIN s : s[i] \in Chunks
    OBVIOUS
  <2>2. \A c \in Chunks : GroupOf(c) = g <=> c \in ChunksIn(g)
    BY DEF Chunks, GroupOf, ChunksIn
  <2> QED
    BY <2>1, <2>2
<1>2. IsFiniteSet(ChunksIn(g)) /\ Cardinality(ChunksIn(g)) = ChunksPerGroup
  <2>1. IsFiniteSet({g}) /\ Cardinality({g}) = 1
    BY FS_Singleton
  <2>2. IsFiniteSet(1..ChunksPerGroup) /\ Cardinality(1..ChunksPerGroup) = ChunksPerGroup
    BY ChunksPerGroupAssumption, FS_Interval
  <2>3. /\ IsFiniteSet({g} \X (1..ChunksPerGroup))
        /\ Cardinality({g} \X (1..ChunksPerGroup)) = Cardinality({g}) * Cardinality(1..ChunksPerGroup)
    BY <2>1, <2>2, FS_Product
  <2>4. 1 * ChunksPerGroup = ChunksPerGroup
    BY ChunksPerGroupAssumption
  <2> QED
    BY <2>1, <2>2, <2>3, <2>4 DEF ChunksIn
<1> DEFINE F == ToSet(s) \cap ChunksIn(g)
<1>3. F \in SUBSET ChunksIn(g)
  OBVIOUS
<1>4. /\ IsFiniteSet(F) /\ Cardinality(F) <= ChunksPerGroup
      /\ Cardinality(F) = ChunksPerGroup => F = ChunksIn(g)
  <2> HIDE DEF F
  <2> QED
    BY <1>2, <1>3, FS_Subset
<1>5. Cardinality(F) \in Nat
  BY <1>4, FS_CardinalityType
<1>6. Cardinality({i \in DOMAIN s : s[i] \in ChunksIn(g)}) = Cardinality(F)
  BY CountIs
<1>7. ChunksIn(g) \subseteq ToSet(s) => Cardinality(F) = ChunksPerGroup
  <2>1. ChunksIn(g) \subseteq ToSet(s) => F = ChunksIn(g)
    OBVIOUS
  <2> QED
    BY <1>2, <2>1
<1>8. Cardinality(F) = ChunksPerGroup => ChunksIn(g) \subseteq ToSet(s)
  BY <1>4
<1>9. Cardinality(F) \in 0..ChunksPerGroup
  BY <1>4, <1>5, ChunksPerGroupAssumption
<1> QED
  BY <1>1, <1>4, <1>6, <1>7, <1>8, <1>9

\* The counts of the headers in terms of sets.
LEMMA CountsAre ==
    ASSUME IInv, NEW g \in ToSet(groups)
    PROVE  /\ g \in Groups
           /\ n_grp_free[g] = Cardinality(FreeIn(g))
           /\ IsFiniteSet(FreeIn(g))
           /\ n_grp_free[g] \in 0..ChunksPerGroup
           /\ InUse(g) <=> ~(ChunksIn(g) \subseteq ToSet(free_chunks_list))
<1>1. g \in Groups
  BY ToSetIs DEF IInv, ChunksAccountedFor, ChunkTypeOK
<1>2. n_grp_free[g] = Cardinality({i \in DOMAIN free_chunks_list : GroupOf(free_chunks_list[i]) = g})
  BY DEF IInv, ChunksAccountedFor, CountsMatchList
<1>3. free_chunks_list \in Seq(Chunks) /\ IsInjective(free_chunks_list)
  BY DEF IInv, ChunksAccountedFor, ChunkTypeOK
<1>4. /\ n_grp_free[g] = Cardinality(FreeIn(g))
      /\ IsFiniteSet(FreeIn(g))
      /\ n_grp_free[g] \in 0..ChunksPerGroup
      /\ n_grp_free[g] = ChunksPerGroup <=> ChunksIn(g) \subseteq ToSet(free_chunks_list)
  BY <1>1, <1>2, <1>3, CountInGroup DEF FreeIn
<1>5. InUse(g) <=> n_grp_free[g] # ChunksPerGroup
  BY <1>4, ChunksPerGroupAssumption DEF InUse
<1> QED
  BY <1>1, <1>4, <1>5

\* What of the invariant has to be shown of a step.
LEMMA ToIInv ==
    ASSUME ChunkTypeOK', IsInjective(free_chunks_list)', IsInjective(groups)',
           ToSet(free_chunks_list)' \cap (users' \cup freeing') = {},
           users' \cap freeing' = {},
           ToSet(free_chunks_list)' \cup (users' \cup freeing') = ToSet(groups)' \X (1..ChunksPerGroup),
           \A g \in ToSet(groups)' : n_grp_free'[g] = Cardinality(FreeIn(g)'),
           MemoryExact'
    PROVE  IInv'
<1>1. ASSUME NEW g \in ToSet(groups)'
      PROVE  n_grp_free'[g] = Cardinality({i \in DOMAIN free_chunks_list' :
                                             GroupOf(free_chunks_list'[i]) = g})
  <2>1. g \in Groups
    BY ToSetIs DEF ChunkTypeOK
  <2>2. free_chunks_list' \in Seq(Chunks) /\ IsInjective(free_chunks_list')
    BY DEF ChunkTypeOK
  <2>3. Cardinality({i \in DOMAIN free_chunks_list' : GroupOf(free_chunks_list'[i]) = g})
          = Cardinality(ToSet(free_chunks_list') \cap ChunksIn(g))
    BY <2>1, <2>2, CountInGroup
  <2> QED
    BY <2>3 DEF FreeIn
<1>2. CountsMatchList'
  BY <1>1 DEF CountsMatchList
<1> QED
  BY <1>2 DEF IInv, ChunksAccountedFor

LEMMA Initial == ChunkInit => IInv
<1> SUFFICES ASSUME ChunkInit PROVE IInv
  OBVIOUS
<1>1. ToSet(<< >>) = {} /\ IsInjective(<< >>)
  BY DEF ToSet, IsInjective
<1>2. ChunkTypeOK
  BY ChunksPerGroupAssumption DEF ChunkInit, ChunkTypeOK
<1>3. CountsMatchList
  BY <1>1 DEF ChunkInit, CountsMatchList
<1>4. ChunksAccountedFor
  BY <1>1, <1>2, <1>3 DEF ChunkInit, ChunksAccountedFor
<1>5. MemoryExact
  BY <1>1 DEF ChunkInit, MemoryExact
<1> QED
  BY <1>1, <1>4, <1>5 DEF ChunkInit, IInv

-----------------------------------------------------------------------------
LEMMA AllocStep == IInv /\ Alloc => IInv'
<1> SUFFICES ASSUME IInv, Alloc PROVE IInv'
  OBVIOUS
<1> DEFINE s == free_chunks_list
           c == Head(s)
<1>1. s \in Seq(Chunks) /\ s # << >> /\ IsInjective(s)
  BY DEF IInv, ChunksAccountedFor, ChunkTypeOK, Alloc
<1>2. /\ Tail(s) \in Seq(Chunks) /\ c \in ToSet(s)
      /\ ToSet(s) = {c} \cup ToSet(Tail(s))
      /\ IsInjective(Tail(s)) /\ c \notin ToSet(Tail(s))
  BY <1>1, TailIs
<1>3. /\ n_grp_free' = [n_grp_free EXCEPT ![GroupOf(c)] = @ - 1]
      /\ users' = users \cup {c}
      /\ free_chunks_list' = Tail(s)
      /\ UNCHANGED <<alive, groups, heap, freeing, trimmed>>
  BY DEF Alloc
<1>4. c \in ToSet(groups) \X (1..ChunksPerGroup)
  BY <1>2 DEF IInv, ChunksAccountedFor
<1>5. c \in Chunks
  BY <1>1, <1>2, ToSetIs
<1> HIDE DEF c
<1>6. GroupOf(c) \in ToSet(groups) /\ c \in FreeIn(GroupOf(c)) /\ c \in ChunksIn(GroupOf(c))
  BY <1>2, <1>4 DEF GroupOf, FreeIn, ChunksIn
<1>7. \A g \in ToSet(groups) : FreeIn(g)' = FreeIn(g) \ {c}
  BY <1>2, <1>3 DEF FreeIn, ChunksIn
<1>8. ASSUME NEW g \in ToSet(groups)
      PROVE  n_grp_free'[g] = Cardinality(FreeIn(g)') /\ n_grp_free'[g] \in 0..ChunksPerGroup
  <2>1. /\ g \in Groups /\ n_grp_free[g] = Cardinality(FreeIn(g)) /\ IsFiniteSet(FreeIn(g))
        /\ n_grp_free[g] \in 0..ChunksPerGroup
    BY CountsAre
  <2>2. Cardinality(FreeIn(g) \ {c}) = IF c \in FreeIn(g) THEN Cardinality(FreeIn(g)) - 1
                                                          ELSE Cardinality(FreeIn(g))
    BY <2>1, FS_RemoveElement
  <2>3. c \in FreeIn(g) <=> g = GroupOf(c)
    BY <1>6 DEF FreeIn, ChunksIn, GroupOf
  <2>4. n_grp_free'[g] = IF g = GroupOf(c) THEN n_grp_free[g] - 1 ELSE n_grp_free[g]
    BY <1>3, <2>1 DEF IInv, ChunksAccountedFor, ChunkTypeOK
  <2>5. Cardinality(FreeIn(g) \ {c}) \in Nat
    BY <2>1, FS_RemoveElement, FS_CardinalityType
  <2>6. n_grp_free'[g] = Cardinality(FreeIn(g) \ {c})
    BY <2>1, <2>2, <2>3, <2>4
  <2>7. n_grp_free'[g] \in 0..ChunksPerGroup
    BY <2>1, <2>4, <2>5, <2>6, ChunksPerGroupAssumption
  <2> QED
    BY <1>7, <2>6, <2>7
<1>9. ChunkTypeOK'
  <2>1. n_grp_free' \in [Groups -> 0..ChunksPerGroup]
    BY <1>3, <1>6, <1>8, CountsAre DEF IInv, ChunksAccountedFor, ChunkTypeOK
  <2> QED
    BY <1>2, <1>3, <1>5, <2>1 DEF IInv, ChunksAccountedFor, ChunkTypeOK
<1>10. /\ IsInjective(free_chunks_list)' /\ IsInjective(groups)' /\ MemoryExact'
  BY <1>2, <1>3 DEF IInv, MemoryExact
<1>11. /\ ToSet(free_chunks_list)' \cap (users' \cup freeing') = {}
       /\ users' \cap freeing' = {}
       /\ ToSet(free_chunks_list)' \cup (users' \cup freeing') = ToSet(groups)' \X (1..ChunksPerGroup)
  BY <1>2, <1>3 DEF IInv, ChunksAccountedFor
<1> QED
  BY <1>3, <1>8, <1>9, <1>10, <1>11, ToIInv

LEMMA AllocGrowStep == ASSUME IInv, NEW g \in Groups, AllocGrow(g) PROVE IInv'
<1> DEFINE new == NewChunks(g)
           rest == Tail(new)
           c == Head(new)
<1>1. /\ new \in Seq(Chunks) /\ new # << >> /\ IsInjective(new)
      /\ ToSet(new) = ChunksIn(g)
  <2>1. /\ Len(new) = ChunksPerGroup /\ new \in Seq(Chunks)
        /\ \A k \in 1..ChunksPerGroup : new[k] = <<g, ChunksPerGroup + 1 - k>>
    BY ChunksPerGroupAssumption DEF NewChunks, Chunks
  <2>2. new # << >> /\ IsInjective(new)
    BY <2>1, ChunksPerGroupAssumption DEF IsInjective
  <2>3. ToSet(new) \subseteq ChunksIn(g)
    <3> SUFFICES ASSUME NEW k \in DOMAIN new PROVE new[k] \in ChunksIn(g)
      BY DEF ToSet
    <3> HIDE DEF new
    <3>1. k \in 1..ChunksPerGroup
      BY <2>1
    <3>3. new[k] = <<g, ChunksPerGroup + 1 - k>>
      BY <2>1, <3>1
    <3>2. ChunksPerGroup + 1 - k \in 1..ChunksPerGroup
      BY <3>1, ChunksPerGroupAssumption
    <3> QED
      BY <3>2, <3>3 DEF ChunksIn
  <2>4. ASSUME NEW k \in 1..ChunksPerGroup PROVE <<g, k>> \in ToSet(new)
    <3>1. ChunksPerGroup + 1 - k \in DOMAIN new /\ new[ChunksPerGroup + 1 - k] = <<g, k>>
      BY <2>1, ChunksPerGroupAssumption
    <3> HIDE DEF new
    <3> QED
      BY <3>1 DEF ToSet
  <2> QED
    BY <2>1, <2>2, <2>3, <2>4 DEF ChunksIn
<1> HIDE DEF new
<1>2. /\ rest \in Seq(Chunks) /\ c \in ToSet(new) /\ ToSet(new) = {c} \cup ToSet(rest)
      /\ IsInjective(rest) /\ c \notin ToSet(rest)
  BY <1>1, TailIs
<1>3. /\ free_chunks_list = << >> /\ GroupBlocks(g) \cap heap = {}
      /\ heap' = heap \cup GroupBlocks(g)
      /\ groups' = <<g>> \o groups
      /\ n_grp_free' = [n_grp_free EXCEPT ![g] = ChunksPerGroup - 1]
      /\ free_chunks_list' = rest
      /\ users' = users \cup {c}
      /\ UNCHANGED <<alive, freeing, trimmed>>
  BY DEF AllocGrow, new
<1> HIDE DEF rest, c
<1>4. g \notin ToSet(groups)
  <2>1. g \in ToSet(groups) => GroupBlocks(g) \subseteq heap
    BY DEF IInv, MemoryExact
  <2>2. <<g, "header">> \in GroupBlocks(g)
    BY DEF GroupBlocks
  <2> QED
    BY <1>3, <2>1, <2>2
<1>5. /\ groups' \in Seq(Groups) /\ ToSet(groups') = {g} \cup ToSet(groups) /\ IsInjective(groups')
  BY <1>3, <1>4, ConsIs DEF IInv, ChunksAccountedFor, ChunkTypeOK
<1>6. ToSet(free_chunks_list) = {}
  BY <1>3 DEF ToSet
<1>7. ASSUME NEW h \in ToSet(groups)' PROVE n_grp_free'[h] = Cardinality(FreeIn(h)')
  <2>1. CASE h = g
    <3>1. FreeIn(g)' = ChunksIn(g) \ {c} /\ c \in ChunksIn(g)
      BY <1>1, <1>2, <1>3 DEF FreeIn
    <3>2. FreeIn(g)' = ToSet(rest) /\ Cardinality(ToSet(rest)) = Len(rest)
      BY <1>1, <1>2, <3>1, LenIsCardinality
    <3>3. Len(rest) = ChunksPerGroup - 1
      BY ChunksPerGroupAssumption DEF rest, new, NewChunks
    <3>4. n_grp_free'[g] = ChunksPerGroup - 1
      BY <1>3 DEF IInv, ChunksAccountedFor, ChunkTypeOK
    <3> QED
      BY <2>1, <3>2, <3>3, <3>4
  <2>2. CASE h # g
    <3>1. h \in ToSet(groups)
      BY <1>5, <2>2
    <3>2. FreeIn(h) = {} /\ FreeIn(h)' = {}
      BY <1>1, <1>2, <1>3, <1>6, <2>2 DEF FreeIn, ChunksIn
    <3>3. n_grp_free'[h] = n_grp_free[h]
      BY <1>3, <2>2, <3>1, CountsAre DEF IInv, ChunksAccountedFor, ChunkTypeOK
    <3> QED
      BY <3>1, <3>2, <3>3, CountsAre
  <2> QED
    BY <2>1, <2>2
<1>8. ToSet(groups)' \X (1..ChunksPerGroup) = (ToSet(groups) \X (1..ChunksPerGroup)) \cup ChunksIn(g)
  BY <1>5 DEF ChunksIn
<1>9. ChunksIn(g) \cap (users \cup freeing) = {} /\ ChunksIn(g) = {c} \cup ToSet(rest)
  BY <1>1, <1>2, <1>4 DEF IInv, ChunksAccountedFor, ChunksIn
<1>10. /\ ToSet(free_chunks_list)' \cap (users' \cup freeing') = {}
       /\ users' \cap freeing' = {}
       /\ ToSet(free_chunks_list)' \cup (users' \cup freeing') = ToSet(groups)' \X (1..ChunksPerGroup)
  BY <1>2, <1>3, <1>6, <1>8, <1>9 DEF IInv, ChunksAccountedFor
<1>11. MemoryExact'
  BY <1>3, <1>5 DEF IInv, MemoryExact
<1>12. ChunkTypeOK'
  <2>1. c \in Chunks
    BY <1>1, <1>2, ToSetIs
  <2>2. n_grp_free' \in [Groups -> 0..ChunksPerGroup]
    BY <1>3, ChunksPerGroupAssumption DEF IInv, ChunksAccountedFor, ChunkTypeOK
  <2>3. GroupBlocks(g) \subseteq UNION {GroupBlocks(h) : h \in Groups}
    OBVIOUS
  <2> QED
    BY <1>2, <1>3, <1>5, <2>1, <2>2, <2>3 DEF IInv, ChunksAccountedFor, ChunkTypeOK
<1> QED
  BY <1>2, <1>3, <1>5, <1>7, <1>10, <1>11, <1>12, ToIInv

\* Steps that leave the list of chunks, the counts and the groups alone.
LEMMA SameList ==
    ASSUME IInv, ChunkTypeOK', MemoryExact',
           UNCHANGED <<free_chunks_list, groups, n_grp_free>>,
           users' \cup freeing' = users \cup freeing, users' \cap freeing' = {}
    PROVE  IInv'
<1>1. \A g : FreeIn(g)' = FreeIn(g)
  BY DEF FreeIn
<1>2. \A g \in ToSet(groups)' : n_grp_free'[g] = Cardinality(FreeIn(g)')
  BY <1>1, CountsAre
<1> QED
  BY <1>2, ToIInv DEF IInv, ChunksAccountedFor

LEMMA AllocFailsStep ==
    ASSUME IInv, NEW g \in Groups, NEW got \in SUBSET GroupBlocks(g), AllocFails(g, got)
    PROVE  IInv'
<1>1. heap' = heap
  BY DEF AllocFails
<1>2. UNCHANGED <<alive, free_chunks_list, groups, n_grp_free, users, freeing, trimmed>>
  BY DEF AllocFails
<1>3. ChunkTypeOK' /\ MemoryExact' /\ users' \cap freeing' = {}
  BY <1>1, <1>2 DEF IInv, ChunksAccountedFor, ChunkTypeOK, MemoryExact
<1> QED
  BY <1>2, <1>3, SameList

LEMMA FreeCallStep == ASSUME IInv, NEW c \in Chunks, FreeCall(c) PROVE IInv'
<1>1. /\ c \in users /\ users' = users \ {c} /\ freeing' = freeing \cup {c}
      /\ UNCHANGED <<alive, free_chunks_list, groups, n_grp_free, heap, trimmed>>
  BY DEF FreeCall, manager
<1>2. ChunkTypeOK' /\ MemoryExact'
  BY <1>1 DEF IInv, ChunksAccountedFor, ChunkTypeOK, MemoryExact
<1>3. users' \cup freeing' = users \cup freeing /\ users' \cap freeing' = {}
  BY <1>1 DEF IInv, ChunksAccountedFor
<1> QED
  BY <1>1, <1>2, <1>3, SameList

LEMMA FreeDoneStep == ASSUME IInv, NEW c \in Chunks, FreeDone(c) PROVE IInv'
<1> DEFINE s == free_chunks_list
<1>1. /\ c \in freeing
      /\ n_grp_free' = [n_grp_free EXCEPT ![GroupOf(c)] = @ + 1]
      /\ free_chunks_list' = <<c>> \o s
      /\ freeing' = freeing \ {c}
      /\ UNCHANGED <<alive, groups, heap, users, trimmed>>
  BY DEF FreeDone
<1>2. /\ c \notin ToSet(s) /\ c \notin users
      /\ c \in ToSet(groups) \X (1..ChunksPerGroup)
  BY <1>1 DEF IInv, ChunksAccountedFor
<1>3. /\ free_chunks_list' \in Seq(Chunks)
      /\ ToSet(free_chunks_list') = {c} \cup ToSet(s)
      /\ IsInjective(free_chunks_list')
  BY <1>1, <1>2, ConsIs DEF IInv, ChunksAccountedFor, ChunkTypeOK
<1>4. ASSUME NEW g \in ToSet(groups)
      PROVE  n_grp_free'[g] = Cardinality(FreeIn(g)') /\ n_grp_free'[g] \in 0..ChunksPerGroup
  <2>1. /\ g \in Groups /\ n_grp_free[g] = Cardinality(FreeIn(g)) /\ IsFiniteSet(FreeIn(g))
    BY CountsAre
  <2>2. FreeIn(g)' = IF g = GroupOf(c) THEN FreeIn(g) \cup {c} ELSE FreeIn(g)
    BY <1>2, <1>3 DEF FreeIn, ChunksIn, GroupOf
  <2>3. c \notin FreeIn(g)
    BY <1>2 DEF FreeIn
  <2>4. Cardinality(FreeIn(g) \cup {c}) = Cardinality(FreeIn(g)) + 1
    BY <2>1, <2>3, FS_AddElement
  <2>5. n_grp_free'[g] = IF g = GroupOf(c) THEN n_grp_free[g] + 1 ELSE n_grp_free[g]
    BY <1>1, <2>1 DEF IInv, ChunksAccountedFor, ChunkTypeOK
  <2>6. Cardinality(FreeIn(g)') \in 0..ChunksPerGroup
    BY <1>3, <2>1, CountInGroup DEF FreeIn
  <2> QED
    BY <2>1, <2>2, <2>4, <2>5, <2>6
<1>5. ChunkTypeOK'
  <2>1. n_grp_free' \in [Groups -> 0..ChunksPerGroup]
    <3>1. GroupOf(c) \in ToSet(groups)
      BY <1>2 DEF GroupOf
    <3> QED
      BY <1>1, <1>4, <3>1, CountsAre DEF IInv, ChunksAccountedFor, ChunkTypeOK
  <2> QED
    BY <1>1, <1>3, <2>1 DEF IInv, ChunksAccountedFor, ChunkTypeOK
<1>6. IsInjective(groups)' /\ MemoryExact'
  BY <1>1 DEF IInv, MemoryExact
<1>7. /\ ToSet(free_chunks_list)' \cap (users' \cup freeing') = {}
      /\ users' \cap freeing' = {}
      /\ ToSet(free_chunks_list)' \cup (users' \cup freeing') = ToSet(groups)' \X (1..ChunksPerGroup)
  BY <1>1, <1>2, <1>3 DEF IInv, ChunksAccountedFor
<1> QED
  BY <1>1, <1>3, <1>4, <1>5, <1>6, <1>7, ToIInv

\* The groups a trim may free: all of their chunks are on the list.
Idle == ToSet(groups) \ GroupsInUse

LEMMA IdleIs ==
    ASSUME IInv
    PROVE  Idle = {g \in ToSet(groups) : ChunksIn(g) \subseteq ToSet(free_chunks_list)}
BY CountsAre DEF Idle, GroupsInUse

\* A trim, whether it drops anything or not: the chunks of the idle groups
\* leave the list, and the idle groups and their memory go.
LEMMA TrimIs ==
    ASSUME IInv, Trim
    PROVE  /\ free_chunks_list' \in Seq(Chunks) /\ IsInjective(free_chunks_list')
           /\ ToSet(free_chunks_list') = ToSet(free_chunks_list) \ (Idle \X (1..ChunksPerGroup))
           /\ groups' \in Seq(Groups) /\ IsInjective(groups')
           /\ ToSet(groups') = ToSet(groups) \ Idle
           /\ heap' = heap \ UNION {GroupBlocks(g) : g \in Idle}
           /\ trimmed' = Cardinality(Idle)
           /\ UNCHANGED <<alive, n_grp_free, users, freeing>>
<1> DEFINE s == free_chunks_list
           kept == Turned(s, ChunksInUse)
           drop == Len(kept) < Len(s)
<1>1. s \in Seq(Chunks) /\ IsInjective(s) /\ groups \in Seq(Groups) /\ IsInjective(groups)
  BY DEF IInv, ChunksAccountedFor, ChunkTypeOK
<1>2. /\ kept \in Seq(Chunks) /\ IsInjective(kept) /\ ToSet(kept) = ToSet(s) \cap ChunksInUse
      /\ Len(kept) <= Len(s)
      /\ Len(kept) = Len(s) <=> ToSet(s) \subseteq ChunksInUse
  BY <1>1, TurnedIs, TurnedShorter
<1>3. /\ Turned(groups, GroupsInUse) \in Seq(Groups) /\ IsInjective(Turned(groups, GroupsInUse))
      /\ ToSet(Turned(groups, GroupsInUse)) = ToSet(groups) \cap GroupsInUse
  BY <1>1, TurnedIs
<1>4. /\ free_chunks_list' = kept
      /\ groups' = IF drop THEN Turned(groups, GroupsInUse) ELSE groups
      /\ heap' = IF drop THEN heap \ UNION {GroupBlocks(g) : g \in Idle} ELSE heap
      /\ trimmed' = IF drop THEN Cardinality(Idle) ELSE 0
      /\ UNCHANGED <<alive, n_grp_free, users, freeing>>
  BY DEF Trim, Idle
<1>5. ToSet(s) \subseteq ToSet(groups) \X (1..ChunksPerGroup) /\ ToSet(groups) \subseteq Groups
  BY <1>1, ToSetIs DEF IInv, ChunksAccountedFor
<1>6. ToSet(s) \cap ChunksInUse = ToSet(s) \ (Idle \X (1..ChunksPerGroup))
  BY <1>5 DEF ChunksInUse, Idle, GroupsInUse, Chunks, GroupOf
<1>7. drop <=> Idle # {}
  <2>1. drop <=> ~(ToSet(s) \subseteq ChunksInUse)
    <3>1. Len(kept) \in Nat /\ Len(s) \in Nat
      BY <1>1, <1>2
    <3> HIDE DEF kept
    <3> QED
      BY <1>2, <3>1
  <2>2. ASSUME NEW g \in Idle PROVE ~(ToSet(s) \subseteq ChunksInUse)
    <3>1. <<g, 1>> \in ToSet(s) /\ <<g, 1>> \in Idle \X (1..ChunksPerGroup)
      BY IdleIs, ChunksPerGroupAssumption DEF ChunksIn
    <3> QED
      BY <1>6, <3>1
  <2>3. Idle = {} => ToSet(s) \subseteq ChunksInUse
    BY <1>6
  <2> QED
    BY <2>1, <2>2, <2>3
<1>8. ToSet(groups) \cap GroupsInUse = ToSet(groups) \ Idle
  BY DEF Idle
<1>9. Cardinality({}) = 0
  BY FS_EmptySet
<1> HIDE DEF drop, kept
<1>10. CASE drop
  BY <1>2, <1>3, <1>4, <1>6, <1>8, <1>10
<1>11. CASE ~drop
  BY <1>1, <1>2, <1>4, <1>6, <1>7, <1>9, <1>11
<1> QED
  BY <1>10, <1>11

\* The blocks of different groups are different blocks.
MemoryOf(G) == UNION {GroupBlocks(g) : g \in G}

LEMMA MemoryWithout ==
    ASSUME NEW G, NEW H
    PROVE  MemoryOf(G) \ MemoryOf(H) = MemoryOf(G \ H)
<1>1. ASSUME NEW x, NEW g, NEW h, x \in GroupBlocks(g), x \in GroupBlocks(h) PROVE g = h
  BY <1>1 DEF GroupBlocks
<1>2. ASSUME NEW x PROVE x \in MemoryOf(G \ H) => x \in MemoryOf(G) /\ x \notin MemoryOf(H)
  BY <1>1 DEF MemoryOf
<1>3. ASSUME NEW x \in MemoryOf(G), x \notin MemoryOf(H) PROVE x \in MemoryOf(G \ H)
  <2>1. PICK g \in G : x \in GroupBlocks(g)
    BY DEF MemoryOf
  <2>2. g \notin H
    BY <1>3, <2>1 DEF MemoryOf
  <2> QED
    BY <2>1, <2>2 DEF MemoryOf
<1> QED
  BY <1>2, <1>3

LEMMA TrimStep == ASSUME IInv, Trim PROVE IInv'
<1> DEFINE s == free_chunks_list
<1>1. /\ free_chunks_list' \in Seq(Chunks) /\ IsInjective(free_chunks_list')
      /\ ToSet(free_chunks_list') = ToSet(s) \ (Idle \X (1..ChunksPerGroup))
      /\ groups' \in Seq(Groups) /\ IsInjective(groups')
      /\ ToSet(groups') = ToSet(groups) \ Idle
      /\ heap' = heap \ UNION {GroupBlocks(g) : g \in Idle}
      /\ trimmed' = Cardinality(Idle)
      /\ UNCHANGED <<alive, n_grp_free, users, freeing>>
  BY TrimIs
<1>2. Idle \X (1..ChunksPerGroup) \subseteq ToSet(s)
  BY IdleIs DEF ChunksIn
<1>3. \A g \in ToSet(groups)' : n_grp_free'[g] = Cardinality(FreeIn(g)')
  <2> SUFFICES ASSUME NEW g \in ToSet(groups')
               PROVE  n_grp_free'[g] = Cardinality(FreeIn(g)')
    OBVIOUS
  <2>1. g \in ToSet(groups) /\ FreeIn(g)' = FreeIn(g)
    BY <1>1 DEF FreeIn, ChunksIn
  <2> QED
    BY <1>1, <2>1, CountsAre
<1>4. /\ ToSet(free_chunks_list)' \cap (users' \cup freeing') = {}
      /\ users' \cap freeing' = {}
  BY <1>1 DEF IInv, ChunksAccountedFor
<1>5. ToSet(free_chunks_list)' \cup (users' \cup freeing') = ToSet(groups)' \X (1..ChunksPerGroup)
  <2>1. ToSet(groups)' \X (1..ChunksPerGroup)
          = (ToSet(groups) \X (1..ChunksPerGroup)) \ (Idle \X (1..ChunksPerGroup))
    BY <1>1
  <2>2. (users \cup freeing) \cap (Idle \X (1..ChunksPerGroup)) = {}
    BY <1>2 DEF IInv, ChunksAccountedFor
  <2>3. ToSet(s) \cup (users \cup freeing) = ToSet(groups) \X (1..ChunksPerGroup)
    BY DEF IInv, ChunksAccountedFor
  <2> QED
    BY <1>1, <2>1, <2>2, <2>3
<1>6. MemoryExact'
  <2>1. heap = MemoryOf(ToSet(groups)) /\ heap' = heap \ MemoryOf(Idle)
    BY <1>1 DEF IInv, MemoryExact, MemoryOf
  <2>2. heap' = MemoryOf(ToSet(groups) \ Idle)
    BY <2>1, MemoryWithout
  <2>3. heap' = MemoryOf(ToSet(groups'))
    BY <1>1, <2>2
  <2> QED
    BY <2>3 DEF MemoryExact, MemoryOf
<1>7. ChunkTypeOK'
  <2>1. IsFiniteSet(Idle)
    BY ToSetIs, FS_Subset DEF IInv, ChunksAccountedFor, ChunkTypeOK, Idle
  <2>2. trimmed' \in Nat
    BY <1>1, <2>1, FS_CardinalityType
  <2> QED
    BY <1>1, <2>2 DEF IInv, ChunksAccountedFor, ChunkTypeOK
<1> QED
  BY <1>1, <1>3, <1>4, <1>5, <1>6, <1>7, ToIInv

LEMMA DestroyStep == ASSUME IInv, Destroy PROVE IInv'
<1>1. /\ freeing = {} /\ alive' = FALSE
      /\ free_chunks_list' = << >> /\ groups' = << >>
      /\ heap' = heap \ UNION {GroupBlocks(g) : g \in ToSet(groups)}
      /\ users' = {}
      /\ UNCHANGED <<n_grp_free, freeing, trimmed>>
  BY DEF Destroy
<1>2. ToSet(<< >>) = {} /\ IsInjective(<< >>)
  BY DEF ToSet, IsInjective
<1>3. heap' = {}
  BY <1>1 DEF IInv, MemoryExact
<1>4. ChunkTypeOK'
  <2>1. << >> \in Seq(Chunks) /\ << >> \in Seq(Groups)
    OBVIOUS
  <2> QED
    BY <1>1, <1>3, <2>1 DEF IInv, ChunksAccountedFor, ChunkTypeOK
<1>5. MemoryExact'
  BY <1>1, <1>2, <1>3 DEF MemoryExact
<1> QED
  BY <1>1, <1>2, <1>4, <1>5, ToIInv

LEMMA NextKeepsIInv == IInv /\ [ChunkNext]_chunkVars => IInv'
<1> SUFFICES ASSUME IInv, [ChunkNext]_chunkVars PROVE IInv'
  OBVIOUS
<1>1. CASE Alloc
  BY <1>1, AllocStep
<1>2. ASSUME NEW g \in Groups, AllocGrow(g) PROVE IInv'
  BY <1>2, AllocGrowStep
<1>3. ASSUME NEW g \in Groups, NEW got \in SUBSET GroupBlocks(g), AllocFails(g, got) PROVE IInv'
  BY <1>3, AllocFailsStep
<1>4. ASSUME NEW c \in Chunks, FreeCall(c) PROVE IInv'
  BY <1>4, FreeCallStep
<1>5. ASSUME NEW c \in Chunks, FreeDone(c) PROVE IInv'
  BY <1>5, FreeDoneStep
<1>6. CASE Trim
  BY <1>6, TrimStep
<1>7. CASE Destroy
  BY <1>7, DestroyStep
<1>8. CASE Reinit
  <2>1. UNCHANGED <<free_chunks_list, groups, n_grp_free, heap, users, freeing, trimmed>> /\ alive' = TRUE
    BY <1>8 DEF Reinit
  <2>2. ChunkTypeOK' /\ MemoryExact' /\ users' \cap freeing' = {}
    BY <2>1 DEF IInv, ChunksAccountedFor, ChunkTypeOK, MemoryExact
  <2> QED
    BY <2>1, <2>2, SameList
<1>9. CASE UNCHANGED chunkVars
  <2>1. UNCHANGED <<alive, free_chunks_list, groups, n_grp_free, heap, users, freeing, trimmed>>
    BY <1>9 DEF chunkVars
  <2>2. ChunkTypeOK' /\ MemoryExact' /\ users' \cap freeing' = {}
    BY <2>1 DEF IInv, ChunksAccountedFor, ChunkTypeOK, MemoryExact
  <2> QED
    BY <2>1, <2>2, SameList
<1> QED
  BY <1>1, <1>2, <1>3, <1>4, <1>5, <1>6, <1>7, <1>8, <1>9 DEF ChunkNext

\* The run's first two invariants hold in every state: no chunk is lost or
\* given out twice, the counts are right, and the memory is that of the
\* groups (chunk_manager.c).
LEMMA Invariance == ChunkSpec => []IInv
BY Initial, NextKeepsIInv, PTL DEF ChunkSpec

THEOREM ChunksAreAccountedFor == ChunkSpec => []ChunksAccountedFor
<1>1. IInv => ChunksAccountedFor
  BY DEF IInv
<1> QED
  BY <1>1, Invariance, PTL

\* The manager has the memory of its groups and no other, whatever
\* allocations of memory failed (chunk_manager_add_group_failed).
THEOREM MemoryIsExact == ChunkSpec => []MemoryExact
<1>1. IInv => MemoryExact
  BY DEF IInv
<1> QED
  BY <1>1, Invariance, PTL

-----------------------------------------------------------------------------
\* A trim returns the number of groups that it gave back, and every group of
\* which nobody has a chunk (chunk_manager.h:183).
LEMMA TrimCompletes ==
    ASSUME IInv, Trim
    PROVE  /\ trimmed' = Len(groups) - Len(groups')
           /\ \A g \in ToSet(groups') : \E c \in users' \cup freeing' : GroupOf(c) = g
<1>1. /\ groups' \in Seq(Groups) /\ IsInjective(groups')
      /\ ToSet(groups') = ToSet(groups) \ Idle
      /\ trimmed' = Cardinality(Idle)
      /\ UNCHANGED <<users, freeing>>
  BY TrimIs
<1>2. trimmed' = Len(groups) - Len(groups')
  <2>1. groups \in Seq(Groups) /\ IsInjective(groups)
    BY DEF IInv, ChunksAccountedFor, ChunkTypeOK
  <2>2. Len(groups') = Cardinality(ToSet(groups')) /\ Len(groups) = Cardinality(ToSet(groups))
    BY <1>1, <2>1, LenIsCardinality
  <2>3. IsFiniteSet(ToSet(groups))
    BY <2>1, ToSetIs
  <2>4. Cardinality(ToSet(groups) \ Idle) = Cardinality(ToSet(groups)) - Cardinality(ToSet(groups) \cap Idle)
    BY <2>3, FS_Difference
  <2>5. ToSet(groups) \cap Idle = Idle /\ IsFiniteSet(Idle)
    BY <2>3, FS_Subset DEF Idle
  <2>6. Cardinality(Idle) \in Nat /\ Cardinality(ToSet(groups)) \in Nat
    BY <2>3, <2>5, FS_CardinalityType
  <2>7. Len(groups') = Len(groups) - Cardinality(Idle)
    BY <1>1, <2>2, <2>4, <2>5
  <2>8. Len(groups) \in Nat /\ Len(groups') \in Nat
    BY <1>1, <2>1
  <2> QED
    BY <1>1, <2>6, <2>7, <2>8
<1>3. ASSUME NEW g \in ToSet(groups')
      PROVE  \E c \in users' \cup freeing' : GroupOf(c) = g
  <2>1. g \in ToSet(groups) /\ ~(ChunksIn(g) \subseteq ToSet(free_chunks_list))
    BY <1>1, <1>3, IdleIs
  <2>2. PICK c \in ChunksIn(g) : c \notin ToSet(free_chunks_list)
    BY <2>1
  <2>3. c \in users \cup freeing /\ GroupOf(c) = g
    BY <2>1, <2>2 DEF IInv, ChunksAccountedFor, ChunksIn, GroupOf
  <2> QED
    BY <1>1, <2>3
<1> QED
  BY <1>2, <1>3

THEOREM TrimsAreComplete == ChunkSpec => TrimIsComplete
<1>1. IInv /\ [ChunkNext]_chunkVars =>
        [Trim => /\ trimmed' = Len(groups) - Len(groups')
                 /\ \A g \in ToSet(groups') :
                       \E c \in users' \cup freeing' : GroupOf(c) = g]_chunkVars
  BY TrimCompletes
<1> QED
  BY <1>1, Invariance, PTL DEF ChunkSpec, TrimIsComplete

-----------------------------------------------------------------------------
(***************************************************************************)
(* Refinement: every step of the manager is one of the abstract pool or    *)
(* leaves it alone.                                                        *)
(***************************************************************************)
LEMMA InitRefines == ChunkInit => Pool!Init
BY DEF ChunkInit, Pool!Init, ToSet

\* A chunk of a list that is not empty is free, and an empty list means that
\* all chunks are taken.
LEMMA AllocRefines == ASSUME IInv, Alloc PROVE Pool!Next
<1> DEFINE s == free_chunks_list
           c == Head(s)
<1>1. s \in Seq(Chunks) /\ s # << >>
  BY DEF IInv, ChunksAccountedFor, ChunkTypeOK, Alloc
<1>2. c \in ToSet(s) /\ c \in Chunks
  BY <1>1, TailIs, ToSetIs
<1>3. c \in Pool!ChunksOf(ToSet(groups)) \ (users \cup freeing)
  BY <1>2 DEF IInv, ChunksAccountedFor, Pool!ChunksOf
<1>4. users' = users \cup {c} /\ UNCHANGED <<groups, freeing>>
  BY DEF Alloc
<1> HIDE DEF c
<1>5. Pool!Alloc(c)
  BY <1>3, <1>4 DEF Pool!Alloc
<1>6. c \in Pool!ChunksOf(Groups)
  BY <1>2 DEF Chunks, Pool!ChunksOf
<1> QED
  BY <1>5, <1>6 DEF Pool!Next

LEMMA GrowRefines == ASSUME IInv, NEW g \in Groups, AllocGrow(g) PROVE Pool!Next
<1> DEFINE c == Head(NewChunks(g))
<1>1. /\ free_chunks_list = << >> /\ GroupBlocks(g) \cap heap = {}
      /\ groups' = <<g>> \o groups /\ users' = users \cup {c} /\ freeing' = freeing
  BY DEF AllocGrow
<1>2. users \cup freeing = Pool!ChunksOf(ToSet(groups))
  BY <1>1 DEF IInv, ChunksAccountedFor, Pool!ChunksOf, ToSet
<1>3. g \notin ToSet(groups)
  <2>1. g \in ToSet(groups) => GroupBlocks(g) \subseteq heap
    BY DEF IInv, MemoryExact
  <2>2. <<g, "header">> \in GroupBlocks(g)
    BY DEF GroupBlocks
  <2> QED
    BY <1>1, <2>1, <2>2
<1>4. ToSet(groups') = ToSet(groups) \cup {g}
  BY <1>1, ConsIs DEF IInv, ChunksAccountedFor, ChunkTypeOK
<1>5. c = <<g, ChunksPerGroup>>
  <2>1. /\ NewChunks(g) \in Seq(Chunks) /\ Len(NewChunks(g)) = ChunksPerGroup
        /\ \A k \in 1..ChunksPerGroup : NewChunks(g)[k] = <<g, ChunksPerGroup + 1 - k>>
    BY ChunksPerGroupAssumption DEF NewChunks, Chunks
  <2>2. Head(NewChunks(g)) = NewChunks(g)[1] /\ 1 \in 1..ChunksPerGroup
    BY <2>1, ChunksPerGroupAssumption
  <2>3. NewChunks(g)[1] = <<g, ChunksPerGroup + 1 - 1>> /\ ChunksPerGroup + 1 - 1 = ChunksPerGroup
    BY <2>1, <2>2, ChunksPerGroupAssumption
  <2> QED
    BY <2>2, <2>3
<1>6. c \in Pool!ChunksOf({g}) /\ c \in Pool!ChunksOf(Groups)
  BY <1>5, ChunksPerGroupAssumption DEF Pool!ChunksOf
<1> HIDE DEF c
<1>7. Pool!Grow(g, c)
  BY <1>1, <1>2, <1>3, <1>4, <1>6 DEF Pool!Grow
<1> QED
  BY <1>6, <1>7 DEF Pool!Next

LEMMA TrimRefines == ASSUME IInv, Trim PROVE Pool!Next
<1>1. /\ ToSet(groups') = ToSet(groups) \ Idle /\ UNCHANGED <<users, freeing>>
  BY TrimIs
<1>2. Idle = Pool!Unused
  <2> SUFFICES ASSUME NEW g \in ToSet(groups)
               PROVE  ChunksIn(g) \subseteq ToSet(free_chunks_list)
                        <=> Pool!ChunksOf({g}) \cap (users \cup freeing) = {}
    BY IdleIs DEF Pool!Unused
  <2>1. ChunksIn(g) = Pool!ChunksOf({g})
    BY DEF ChunksIn, Pool!ChunksOf
  <2>2. ChunksIn(g) \subseteq ToSet(groups) \X (1..ChunksPerGroup)
    BY DEF ChunksIn
  <2> QED
    BY <2>1, <2>2 DEF IInv, ChunksAccountedFor
<1>3. Pool!Trim
  BY <1>1, <1>2 DEF Pool!Trim
<1> QED
  BY <1>3 DEF Pool!Next

LEMMA StepRefines == IInv /\ [ChunkNext]_chunkVars => [Pool!Next]_(Pool!vars)
<1> SUFFICES ASSUME IInv, [ChunkNext]_chunkVars PROVE Pool!Next \/ UNCHANGED Pool!vars
  OBVIOUS
<1>1. CASE Alloc
  BY <1>1, AllocRefines
<1>2. ASSUME NEW g \in Groups, AllocGrow(g) PROVE Pool!Next
  BY <1>2, GrowRefines
<1>3. ASSUME NEW g \in Groups, NEW got \in SUBSET GroupBlocks(g), AllocFails(g, got)
      PROVE  UNCHANGED Pool!vars
  BY <1>3 DEF AllocFails, Pool!vars
<1>4. ASSUME NEW c \in Chunks, FreeCall(c) PROVE UNCHANGED Pool!vars
  <2>1. users' \cup freeing' = users \cup freeing /\ groups' = groups
    BY <1>4 DEF FreeCall, manager
  <2> QED
    BY <2>1 DEF Pool!vars
<1>5. ASSUME NEW c \in Chunks, FreeDone(c) PROVE Pool!Next
  <2>1. /\ c \in freeing /\ freeing' = freeing \ {c} /\ UNCHANGED <<groups, users>>
        /\ c \notin users
    BY <1>5 DEF FreeDone, IInv, ChunksAccountedFor
  <2>2. Pool!Free(c)
    BY <2>1 DEF Pool!Free
  <2> QED
    BY <2>2 DEF Pool!Next, Pool!ChunksOf, Chunks
<1>6. CASE Trim
  BY <1>6, TrimRefines
<1>7. CASE Destroy
  <2>1. ToSet(groups') = {} /\ users' \cup freeing' = {}
    BY <1>7 DEF Destroy, ToSet
  <2>2. Pool!Destroy
    BY <2>1 DEF Pool!Destroy
  <2> QED
    BY <2>2 DEF Pool!Next
<1>8. CASE Reinit \/ UNCHANGED chunkVars
  <2>1. UNCHANGED <<groups, users, freeing>>
    BY <1>8 DEF Reinit, chunkVars
  <2> QED
    BY <2>1 DEF Pool!vars
<1> QED
  BY <1>1, <1>2, <1>3, <1>4, <1>5, <1>6, <1>7, <1>8 DEF ChunkNext

\* The manager is what chunk_manager.h promises.
THEOREM Refinement == ChunkSpec => ImplementsChunkPool
BY InitRefines, StepRefines, Invariance, PTL DEF ChunkSpec, ImplementsChunkPool, Pool!Spec

-----------------------------------------------------------------------------
(***************************************************************************)
(* The calls that walk the AVL tree.  First what is true of any one tree:  *)
(* its preorder, which nodes have a given one to their left as the last    *)
(* before it, and what of the preorder is behind each place of a walk.     *)
(* Then where each call is, in those terms; then the steps.                *)
(*                                                                         *)
(* o is the tree before the calls, C its nodes, f[x] the nodes below x and *)
(* P[x] their preorder.                                                    *)
(***************************************************************************)
\* What LockAndTreeProofs shows of the trees of AVLTree.
LEMMA ChildIs ==
    ASSUME NEW t, t \in Trees, NEW x \in Keys
    PROVE  /\ Child(t, x, 0) = t.left[x] /\ Child(t, x, 1) = t.right[x]
           /\ \A s \in Sides : Child(t, x, s) \in Keys \cup {NULL}
           /\ t.parent[x] \in Keys \cup {NULL} /\ t.balance[x] \in Int
BY DEF Child, Trees, Pointers, Sides

\* A node is below itself and not below its children.
LEMMA BelowSelf ==
    ASSUME NEW t, NEW C, NEW f, Shape(t, C, f), NEW x \in C
    PROVE  /\ x \in f[x] /\ f[x] \subseteq C /\ x \in Int /\ x # NULL
           /\ \A s \in Sides : /\ f[Child(t, x, s)] \subseteq f[x]
                               /\ x \notin f[Child(t, x, s)]
                               /\ Child(t, x, s) # x
           /\ f[Child(t, x, 0)] \cap f[Child(t, x, 1)] = {}
<1>1. x \in Int /\ x # NULL /\ Linked(t, C, f, x) /\ C \subseteq Int
  BY KeysAssumption DEF Shape
<1>2. x \in f[x] /\ f[x] \subseteq C /\ \A s \in Sides : f[Child(t, x, s)] \subseteq f[x]
  BY <1>1 DEF Linked, Sides
<1>3. ASSUME NEW s \in Sides PROVE x \notin f[Child(t, x, s)]
  BY <1>1 DEF Linked, Before
<1>4. ASSUME NEW s \in Sides, Child(t, x, s) = x PROVE FALSE
  BY <1>2, <1>3, <1>4
<1>5. ASSUME NEW y \in f[Child(t, x, 0)], y \in f[Child(t, x, 1)] PROVE FALSE
  <2>1. Before(0, y, x) /\ Before(1, y, x)
    BY <1>1, <1>5 DEF Linked, Sides
  <2>2. y \in Int
    BY <1>1, <1>2, <1>5 DEF Sides
  <2> QED
    BY <1>1, <2>1, <2>2 DEF Before
<1> QED
  BY <1>1, <1>2, <1>3, <1>4, <1>5

LEMMA ForestIs ==
    ASSUME NEW t, NEW C, NEW f, Shape(t, C, f)
    PROVE  Forest(C, f, t.left, t.right)
<1>1. IsFiniteSet(C) /\ f[NULL] = {}
  BY DEF Shape
<1>2. ASSUME NEW x \in C
      PROVE  /\ f[x] \subseteq C /\ f[x] = {x} \cup f[t.left[x]] \cup f[t.right[x]]
             /\ x \notin f[t.left[x]] /\ x \notin f[t.right[x]]
             /\ t.left[x] \in C \cup {NULL} /\ t.right[x] \in C \cup {NULL}
  <2>1. Linked(t, C, f, x) /\ Child(t, x, 0) = t.left[x] /\ Child(t, x, 1) = t.right[x]
    BY ChildIs DEF Shape
  <2>2. x \notin f[Child(t, x, 0)] /\ x \notin f[Child(t, x, 1)]
    BY BelowSelf DEF Sides
  <2> QED
    BY <2>1, <2>2 DEF Linked, Sides
<1> QED
  BY <1>1, <1>2 DEF Forest

LEMMA Lowest ==
    ASSUME NEW t, NEW C, NEW f, Shape(t, C, f), NEW S, S \subseteq C, S # {}
    PROVE  \E x \in S : \A s \in Sides : Child(t, x, s) \notin S
<1>1. PICK x \in S : t.left[x] \notin S /\ t.right[x] \notin S
  BY ForestIs, ForestLowest
<1> QED
  BY <1>1 DEF Child

LEMMA BelowTransitive ==
    ASSUME NEW t, NEW C, NEW f, Shape(t, C, f), NEW w \in C, NEW z \in f[w]
    PROVE  z \in C /\ f[z] \subseteq f[w]
BY ForestIs, ForestBelow

\* A node below another one has its parent below it too, and is its child.
LEMMA ParentBelow ==
    ASSUME NEW t, NEW C, NEW f, Shape(t, C, f), NEW w \in C, NEW y \in f[w], y # w
    PROVE  /\ y \in C /\ t.parent[y] \in f[w] /\ t.parent[y] \in C
           /\ \E s \in Sides : Child(t, t.parent[y], s) = y
           /\ y # t.root
<1>1. PICK p \in f[w] : y = t.left[p] \/ y = t.right[p]
  BY ForestIs, ForestChild
<1>2. y \in C /\ p \in C /\ y # NULL
  BY BelowSelf
<1>3. PICK s \in Sides : Child(t, p, s) = y
  BY <1>1, <1>2 DEF Child, Sides
<1>4. t.parent[y] = p
  BY <1>2, <1>3 DEF Shape, Linked
<1>5. y # t.root
  BY <1>2, <1>4, BelowSelf DEF Shape
<1> QED
  BY <1>2, <1>3, <1>4, <1>5

\* The preorder of a node with those of its children.
Over(x, a, b) == <<x>> \o a \o b

Preordered(o, C, P) ==
    /\ P[NULL] = << >>
    /\ \A x \in C : P[x] \in Seq(Keys) /\ P[x] = Over(x, P[o.left[x]], P[o.right[x]])

LEMMA OverIs ==
    ASSUME NEW x \in Keys, NEW a \in Seq(Keys), NEW b \in Seq(Keys)
    PROVE  Over(x, a, b) \in Seq(Keys)
BY DEF Over

\* The links of a node.
LEMMA LinksOf ==
    ASSUME NEW o, NEW C, NEW f, Shape(o, C, f), NEW x \in C
    PROVE  /\ x \in Keys /\ x \in Int /\ x # NULL /\ x \in f[x] /\ f[NULL] = {}
           /\ o.left[x] \in C \cup {NULL} /\ o.right[x] \in C \cup {NULL}
           /\ o.left[x] # x /\ o.right[x] # x /\ (o.left[x] # NULL => o.left[x] # o.right[x])
           /\ f[x] = {x} \cup f[o.left[x]] \cup f[o.right[x]]
           /\ x \notin f[o.left[x]] /\ x \notin f[o.right[x]]
           /\ f[o.left[x]] \cap f[o.right[x]] = {}
           /\ \A y \in f[o.left[x]] : y \in C /\ y \in Int /\ y < x
           /\ \A y \in f[o.right[x]] : y \in C /\ y \in Int /\ x < y
           /\ o.left[x] # NULL => o.parent[o.left[x]] = x /\ o.left[x] \in f[o.left[x]]
           /\ o.right[x] # NULL => o.parent[o.right[x]] = x /\ o.right[x] \in f[o.right[x]]
<1>1. x \in Keys /\ NULL \notin Keys /\ f[NULL] = {} /\ C \subseteq Keys /\ o \in Trees /\ Keys \subseteq Int
  BY KeysAssumption DEF Shape
<1>2. Child(o, x, 0) = o.left[x] /\ Child(o, x, 1) = o.right[x]
  BY <1>1, ChildIs
<1>3. Linked(o, C, f, x)
  BY DEF Shape
<1>4. f[x] \subseteq C /\ f[x] = {x} \cup f[o.left[x]] \cup f[o.right[x]]
  BY <1>2, <1>3 DEF Linked
<1>5. /\ o.left[x] \in C \cup {NULL} /\ o.right[x] \in C \cup {NULL}
      /\ o.left[x] # NULL => o.parent[o.left[x]] = x
      /\ o.right[x] # NULL => o.parent[o.right[x]] = x
      /\ \A y \in f[o.left[x]] : y < x
      /\ \A y \in f[o.right[x]] : x < y
  BY <1>2, <1>3 DEF Linked, Sides, Before
<1>6. /\ x \in f[x]
      /\ x \notin f[o.left[x]] /\ x \notin f[o.right[x]] /\ o.left[x] # x /\ o.right[x] # x
      /\ f[o.left[x]] \cap f[o.right[x]] = {}
  BY <1>2, BelowSelf DEF Sides
<1>7. \A y \in C : y \in f[y]
  BY BelowSelf
<1>8. o.left[x] # NULL => o.left[x] # o.right[x]
  BY <1>5, <1>6, <1>7
<1> QED
  BY <1>1, <1>4, <1>5, <1>6, <1>7, <1>8

\* A set of nodes below s that is not empty and has not s has one whose
\* parent is not in it: the induction down a tree.
LEMMA Highest ==
    ASSUME NEW o, NEW C, NEW f, Shape(o, C, f), NEW s \in C,
           NEW S, S \subseteq f[s], S # {}, s \notin S
    PROVE  \E w \in f[s] : w \notin S /\ (o.left[w] \in S \/ o.right[w] \in S)
<1> DEFINE N == {x \in f[s] : x \notin S /\ f[x] \cap S # {}}
<1>1. f[s] \subseteq C /\ s \in f[s] /\ C \subseteq Keys
  BY BelowSelf DEF Shape
<1>2. s \in N
  BY <1>1
<1>3. PICK x \in N : \A r \in Sides : Child(o, x, r) \notin N
  <2>1. N \subseteq C /\ N # {}
    BY <1>1, <1>2
  <2> HIDE DEF N
  <2> QED
    BY <2>1, Lowest
<1>4. x \in C /\ x \in f[s] /\ x \notin S /\ f[x] \cap S # {} /\ f[x] \subseteq f[s]
  BY <1>1, <1>3, BelowTransitive
<1>5. o.left[x] \notin N /\ o.right[x] \notin N
  BY <1>1, <1>3, <1>4, ChildIs DEF Sides, Shape
<1>6. PICK z \in f[x] : z \in S
  BY <1>4
<1>7. /\ f[x] = {x} \cup f[o.left[x]] \cup f[o.right[x]]
      /\ o.left[x] # NULL => o.left[x] \in f[o.left[x]]
      /\ o.right[x] # NULL => o.right[x] \in f[o.right[x]]
      /\ f[NULL] = {}
  BY <1>4, LinksOf
<1> HIDE DEF N
<1>8. z \in f[o.left[x]] \/ z \in f[o.right[x]]
  BY <1>4, <1>6, <1>7
<1>9. CASE z \in f[o.left[x]]
  <2>1. o.left[x] \in f[s]
    BY <1>4, <1>7, <1>9
  <2>2. o.left[x] \in S
    BY <1>5, <1>6, <1>9, <2>1 DEF N
  <2> QED
    BY <1>4, <2>2
<1>10. CASE z \in f[o.right[x]]
  <2>1. o.right[x] \in f[s]
    BY <1>4, <1>7, <1>10
  <2>2. o.right[x] \in S
    BY <1>5, <1>6, <1>10, <2>1 DEF N
  <2> QED
    BY <1>4, <2>2
<1> QED
  BY <1>8, <1>9, <1>10

\* The preorders below x, on the nodes below it.
OrderedBelow(o, f, x, p) ==
    /\ p \in [f[x] \cup {NULL} -> Seq(Keys)]
    /\ p[NULL] = << >>
    /\ \A y \in f[x] : p[y] = Over(y, p[o.left[y]], p[o.right[y]])

LEMMA OrderedBelowExists ==
    ASSUME NEW o, NEW C, NEW f, Shape(o, C, f), NEW x \in C \cup {NULL}
    PROVE  \E p : OrderedBelow(o, f, x, p)
<1> DEFINE S == {y \in C : ~ \E p : OrderedBelow(o, f, y, p)}
<1>1. f[NULL] = {} /\ NULL \notin Keys /\ C \subseteq Keys
  BY KeysAssumption DEF Shape
<1>2. \E p : OrderedBelow(o, f, NULL, p)
  <2> DEFINE p == [y \in {NULL} |-> << >>]
  <2>1. OrderedBelow(o, f, NULL, p)
    BY <1>1 DEF OrderedBelow
  <2> QED
    BY <2>1
<1>3. S = {}
  <2>1. SUFFICES ASSUME S # {} PROVE FALSE
    OBVIOUS
  <2>2. PICK y \in S : \A r \in Sides : Child(o, y, r) \notin S
    <3>1. S \subseteq C
      OBVIOUS
    <3> HIDE DEF S
    <3> QED
      BY <2>1, <3>1, Lowest
  <2>a. PICK a : a = o.left[y]
    OBVIOUS
  <2>b. PICK b : b = o.right[y]
    OBVIOUS
  <2>3. y \in C /\ a \notin S /\ b \notin S
    BY <1>1, <2>2, <2>a, <2>b, ChildIs DEF Sides, Shape
  <2>4. /\ y \in Keys /\ y # NULL /\ a \in C \cup {NULL} /\ b \in C \cup {NULL}
        /\ f[y] = {y} \cup f[a] \cup f[b] /\ y \notin f[a] /\ y \notin f[b] /\ f[a] \cap f[b] = {}
        /\ a # NULL => a \in f[a]
        /\ b # NULL => b \in f[b]
    BY <2>3, <2>a, <2>b, LinksOf
  <2>5. PICK p : OrderedBelow(o, f, a, p)
    BY <1>2, <2>3, <2>4
  <2>6. PICK q : OrderedBelow(o, f, b, q)
    BY <1>2, <2>3, <2>4
  <2> DEFINE g == [z \in f[y] \cup {NULL} |->
                     IF z = NULL THEN << >>
                     ELSE IF z = y THEN Over(y, p[a], q[b])
                     ELSE IF z \in f[a] THEN p[z] ELSE q[z]]
  <2>7. /\ p[a] \in Seq(Keys) /\ q[b] \in Seq(Keys) /\ p[NULL] = << >> /\ q[NULL] = << >>
        /\ \A z \in f[a] : p[z] \in Seq(Keys) /\ p[z] = Over(z, p[o.left[z]], p[o.right[z]])
        /\ \A z \in f[b] : q[z] \in Seq(Keys) /\ q[z] = Over(z, q[o.left[z]], q[o.right[z]])
    <3>1. p[a] \in Seq(Keys) /\ p[NULL] = << >> /\ \A z \in f[a] : p[z] \in Seq(Keys) /\ p[z] = Over(z, p[o.left[z]], p[o.right[z]])
      BY <1>1, <2>4, <2>5 DEF OrderedBelow
    <3>2. q[b] \in Seq(Keys) /\ q[NULL] = << >> /\ \A z \in f[b] : q[z] \in Seq(Keys) /\ q[z] = Over(z, q[o.left[z]], q[o.right[z]])
      BY <1>1, <2>4, <2>6 DEF OrderedBelow
    <3> QED
      BY <3>1, <3>2
  <2>8. Over(y, p[a], q[b]) \in Seq(Keys)
    BY <2>4, <2>7, OverIs
  <2>9. g \in [f[y] \cup {NULL} -> Seq(Keys)]
    <3>1. << >> \in Seq(Keys)
      OBVIOUS
    <3>2. ASSUME NEW z \in f[y] \cup {NULL}
          PROVE  (IF z = NULL THEN << >> ELSE IF z = y THEN Over(y, p[a], q[b])
                  ELSE IF z \in f[a] THEN p[z] ELSE q[z]) \in Seq(Keys)
      BY <2>4, <2>7, <2>8, <3>1, Zenon
    <3> QED
      BY <3>2
  <2>10. /\ g[NULL] = << >> /\ g[y] = Over(y, p[a], q[b])
         /\ \A z \in f[a] \cup {NULL} : g[z] = p[z]
         /\ \A z \in f[b] \cup {NULL} : g[z] = q[z]
    <3>1. NULL \notin f[a] /\ NULL \notin f[b]
      BY <1>1, <2>3, <2>4, BelowSelf
    <3> QED
      BY <2>4, <2>7, <3>1
  <2>11. g[a] = p[a] /\ g[b] = q[b]
    <3> HIDE DEF g
    <3> QED
      BY <2>4, <2>10
  <2>12. ASSUME NEW z \in f[a]
         PROVE  z \in C /\ o.left[z] \in f[a] \cup {NULL} /\ o.right[z] \in f[a] \cup {NULL}
    <3>1. a \in C
      BY <1>1, <2>4
    <3>2. z \in C /\ f[z] \subseteq f[a]
      BY <3>1, BelowTransitive
    <3> QED
      BY <3>2, LinksOf
  <2>13. ASSUME NEW z \in f[b]
         PROVE  z \in C /\ o.left[z] \in f[b] \cup {NULL} /\ o.right[z] \in f[b] \cup {NULL}
    <3>1. b \in C
      BY <1>1, <2>4
    <3>2. z \in C /\ f[z] \subseteq f[b]
      BY <3>1, BelowTransitive
    <3> QED
      BY <3>2, LinksOf
  <2>14. ASSUME NEW z \in f[y] PROVE g[z] = Over(z, g[o.left[z]], g[o.right[z]])
    <3> HIDE DEF g
    <3>1. CASE z = y
      BY <2>10, <2>11, <2>a, <2>b, <3>1
    <3>2. CASE z \in f[a]
      BY <2>7, <2>10, <2>12, <3>2
    <3>3. CASE z \in f[b]
      BY <2>7, <2>10, <2>13, <3>3
    <3> QED
      BY <2>4, <3>1, <3>2, <3>3
  <2>15. OrderedBelow(o, f, y, g)
    <3> HIDE DEF g
    <3> QED
      BY <2>9, <2>10, <2>14 DEF OrderedBelow
  <2> QED
    BY <2>2, <2>15
<1> QED
  BY <1>2, <1>3

\* PreorderIn is the preorder.
LEMMA PreorderIs ==
    ASSUME NEW o, NEW C, NEW f, Shape(o, C, f), Whole(o, C)
    PROVE  Preordered(o, C, PreorderIn(o))
<1> DEFINE A(g) == [x \in Keys \cup {NULL} |->
                       IF x = NULL THEN << >> ELSE Over(x, g[o.left[x]], g[o.right[x]])]
           e == CHOOSE g : g = A(g)
<1>1. f[NULL] = {} /\ NULL \notin Keys /\ C \subseteq Keys /\ o.root \in C \cup {NULL} /\ f[o.root] = C
  BY KeysAssumption DEF Shape
<1>2. PICK p : OrderedBelow(o, f, o.root, p)
  BY <1>1, OrderedBelowExists
<1> DEFINE g == [x \in Keys \cup {NULL} |-> IF x \in C \cup {NULL} THEN p[x] ELSE <<x>>]
<1>3. g = A(g)
  <2>1. ASSUME NEW x \in Keys \cup {NULL} PROVE g[x] = A(g)[x]
    <3>1. CASE x = NULL
      BY <1>1, <1>2, <3>1 DEF OrderedBelow
    <3>2. CASE x \in C
      <4>1. p[x] = Over(x, p[o.left[x]], p[o.right[x]]) /\ p[x] \in Seq(Keys)
        BY <1>1, <1>2, <3>2 DEF OrderedBelow
      <4>2. o.left[x] \in C \cup {NULL} /\ o.right[x] \in C \cup {NULL}
        BY <3>2, LinksOf
      <4> QED
        BY <1>1, <3>2, <4>1, <4>2
    <3>3. CASE x \in Keys \ C
      <4>1. o.left[x] = NULL /\ o.right[x] = NULL
        BY <3>3 DEF Whole
      <4>2. p[NULL] = << >>
        BY <1>2 DEF OrderedBelow
      <4>3. Over(x, << >>, << >>) = <<x>>
        BY DEF Over
      <4> QED
        BY <1>1, <3>3, <4>1, <4>2, <4>3
    <3> QED
      BY <3>1, <3>2, <3>3
  <2> QED
    BY <2>1
<1>4. e = A(e)
  <2> HIDE DEF g
  <2> QED
    BY <1>3, Zenon
<1>5. PreorderIn(o) = e
  BY DEF PreorderIn, Over
<1> HIDE DEF e
<1>6. e[NULL] = << >> /\ \A x \in C : e[x] = Over(x, e[o.left[x]], e[o.right[x]])
  BY <1>1, <1>4
<1> DEFINE S == {x \in C : e[x] \notin Seq(Keys)}
<1>7. S = {}
  <2>1. SUFFICES ASSUME S # {} PROVE FALSE
    OBVIOUS
  <2>2. PICK x \in S : \A s \in Sides : Child(o, x, s) \notin S
    <3>1. S \subseteq C
      OBVIOUS
    <3> HIDE DEF S
    <3> QED
      BY <2>1, <3>1, Lowest
  <2>3. x \in C /\ o.left[x] \notin S /\ o.right[x] \notin S
    BY <1>1, <2>2, ChildIs DEF Sides, Shape
  <2>4. x \in Keys /\ o.left[x] \in C \cup {NULL} /\ o.right[x] \in C \cup {NULL}
    BY <2>3, LinksOf
  <2>5. e[o.left[x]] \in Seq(Keys) /\ e[o.right[x]] \in Seq(Keys)
    <3>1. << >> \in Seq(Keys)
      OBVIOUS
    <3> QED
      BY <1>6, <2>3, <2>4, <3>1
  <2>6. Over(x, e[o.left[x]], e[o.right[x]]) \in Seq(Keys)
    BY <2>4, <2>5, OverIs
  <2> QED
    BY <1>6, <2>2, <2>3, <2>6
<1> QED
  BY <1>5, <1>6, <1>7 DEF Preordered

(***************************************************************************)
(* What a traversal from s still has to hand out after it has handed out   *)
(* all below w is K[w].                                                    *)
(***************************************************************************)
Continues(o, f, P, y, k, K) ==
    /\ K \in [f[y] -> Seq(Keys)]
    /\ K[y] = k
    /\ \A w \in f[y] : /\ o.left[w] # NULL => K[o.left[w]] = P[o.right[w]] \o K[w]
                       /\ o.right[w] # NULL => K[o.right[w]] = K[w]

LEMMA ContinuesExists ==
    ASSUME NEW o, NEW C, NEW f, Shape(o, C, f), NEW P, Preordered(o, C, P),
           NEW y \in C, NEW k \in Seq(Keys)
    PROVE  \E K : Continues(o, f, P, y, k, K)
<1> DEFINE S == {x \in C : \E j \in Seq(Keys) : ~ \E K : Continues(o, f, P, x, j, K)}
<1>1. S = {}
  <2>1. SUFFICES ASSUME S # {} PROVE FALSE
    OBVIOUS
  <2>2. PICK x \in S : \A r \in Sides : Child(o, x, r) \notin S
    <3>1. S \subseteq C
      OBVIOUS
    <3> HIDE DEF S
    <3> QED
      BY <2>1, <3>1, Lowest
  <2>3. PICK a : a = o.left[x]
    OBVIOUS
  <2>4. PICK b : b = o.right[x]
    OBVIOUS
  <2>5. x \in C /\ a \notin S /\ b \notin S
    BY <2>2, <2>3, <2>4, ChildIs DEF Sides, Shape
  <2>6. /\ x \in Keys /\ x # NULL /\ a \in C \cup {NULL} /\ b \in C \cup {NULL} /\ f[NULL] = {}
        /\ f[x] = {x} \cup f[a] \cup f[b] /\ x \notin f[a] /\ x \notin f[b] /\ f[a] \cap f[b] = {}
        /\ a # NULL => a \in f[a]
        /\ b # NULL => b \in f[b]
    BY <2>3, <2>4, <2>5, LinksOf
  <2>7. PICK j \in Seq(Keys) : ~ \E K : Continues(o, f, P, x, j, K)
    BY <2>2
  <2>8. PICK i : i = P[b] \o j
    OBVIOUS
  <2>9. i \in Seq(Keys)
    <3>1. P[b] \in Seq(Keys)
      <4>1. << >> \in Seq(Keys)
        OBVIOUS
      <4> QED
        BY <2>6, <4>1 DEF Preordered
    <3> QED
      BY <2>8, <3>1
  <2>10. PICK L : a # NULL => Continues(o, f, P, a, i, L)
    BY <2>5, <2>6, <2>9
  <2>11. PICK R : b # NULL => Continues(o, f, P, b, j, R)
    BY <2>5, <2>6, <2>7
  <2> DEFINE g == [z \in f[x] |-> IF z = x THEN j ELSE IF z \in f[a] THEN L[z] ELSE R[z]]
  <2>12. /\ \A z \in f[a] : L[z] \in Seq(Keys)
         /\ \A z \in f[b] : R[z] \in Seq(Keys)
         /\ a # NULL => L[a] = i
         /\ b # NULL => R[b] = j
    <3>1. \A z \in f[a] : L[z] \in Seq(Keys)
      BY <2>6, <2>10 DEF Continues
    <3>2. \A z \in f[b] : R[z] \in Seq(Keys)
      BY <2>6, <2>11 DEF Continues
    <3> QED
      BY <2>10, <2>11, <3>1, <3>2 DEF Continues
  <2>13. g \in [f[x] -> Seq(Keys)]
    <3>1. ASSUME NEW z \in f[x]
          PROVE  (IF z = x THEN j ELSE IF z \in f[a] THEN L[z] ELSE R[z]) \in Seq(Keys)
      BY <2>6, <2>12, Zenon
    <3> QED
      BY <3>1
  <2>14. /\ g[x] = j
         /\ \A z \in f[a] : g[z] = L[z]
         /\ \A z \in f[b] : g[z] = R[z]
    BY <2>6
  <2> HIDE DEF g
  <2>15. ASSUME NEW w \in f[a]
         PROVE  /\ o.left[w] # NULL => g[o.left[w]] = P[o.right[w]] \o g[w]
                /\ o.right[w] # NULL => g[o.right[w]] = g[w]
    <3>1. a \in C
      BY <2>6
    <3>2. w \in C /\ f[w] \subseteq f[a]
      BY <3>1, BelowTransitive
    <3>3. /\ o.left[w] # NULL => o.left[w] \in f[a]
          /\ o.right[w] # NULL => o.right[w] \in f[a]
      BY <3>2, LinksOf
    <3>4. /\ o.left[w] # NULL => L[o.left[w]] = P[o.right[w]] \o L[w]
          /\ o.right[w] # NULL => L[o.right[w]] = L[w]
      BY <2>6, <2>10 DEF Continues
    <3> QED
      BY <2>14, <3>3, <3>4
  <2>16. ASSUME NEW w \in f[b]
         PROVE  /\ o.left[w] # NULL => g[o.left[w]] = P[o.right[w]] \o g[w]
                /\ o.right[w] # NULL => g[o.right[w]] = g[w]
    <3>1. b \in C
      BY <2>6
    <3>2. w \in C /\ f[w] \subseteq f[b]
      BY <3>1, BelowTransitive
    <3>3. /\ o.left[w] # NULL => o.left[w] \in f[b]
          /\ o.right[w] # NULL => o.right[w] \in f[b]
      BY <3>2, LinksOf
    <3>4. /\ o.left[w] # NULL => R[o.left[w]] = P[o.right[w]] \o R[w]
          /\ o.right[w] # NULL => R[o.right[w]] = R[w]
      BY <2>6, <2>11 DEF Continues
    <3> QED
      BY <2>14, <3>3, <3>4
  <2>17. /\ a # NULL => g[a] = P[b] \o g[x]
         /\ b # NULL => g[b] = g[x]
    <3>1. (a # NULL => g[a] = i) /\ (b # NULL => g[b] = j) /\ g[x] = j
      BY <2>6, <2>12, <2>14, Zenon
    <3> QED
      BY <2>8, <3>1, Zenon
  <2>18. Continues(o, f, P, x, j, g)
    BY <2>3, <2>4, <2>6, <2>13, <2>14, <2>15, <2>16, <2>17 DEF Continues
  <2> QED
    BY <2>7, <2>18
<1> QED
  BY <1>1

\* The nodes below y to whose left r is.
Above(o, f, y, r) == {b \in f[y] : r \in f[o.left[b]]}

\* p is the last node to the left of b, whose right link is free for a thread.
Precedes(o, f, b, p) ==
    p \in f[o.left[b]] /\ o.right[p] = NULL /\ \A z \in f[o.left[b]] : z <= p

LEMMA AboveSelf ==
    ASSUME NEW o, NEW C, NEW f, Shape(o, C, f), NEW y \in C
    PROVE  Above(o, f, y, y) = {}
<1> SUFFICES ASSUME NEW b \in f[y], y \in f[o.left[b]] PROVE FALSE
  BY DEF Above
<1>1. b \in C /\ f[b] \subseteq f[y] /\ f[o.left[b]] \subseteq f[b]
  BY BelowTransitive, LinksOf
<1>2. f[y] \subseteq f[b]
  BY <1>1, BelowTransitive
<1>3. b \notin f[o.left[b]] /\ o.left[b] \in C /\ y \in C
  BY <1>1, LinksOf
<1>4. f[y] \subseteq f[o.left[b]]
  BY <1>3, BelowTransitive
<1> QED
  BY <1>3, <1>4

LEMMA AboveLeft ==
    ASSUME NEW o, NEW C, NEW f, Shape(o, C, f), NEW y \in C, NEW w \in f[y], o.left[w] # NULL
    PROVE  /\ o.left[w] \in f[y]
           /\ Above(o, f, y, o.left[w]) = Above(o, f, y, w) \cup {w}
<1>1. w \in C /\ f[w] \subseteq f[y]
  BY BelowTransitive
<1>2. /\ o.left[w] \in f[w] /\ o.left[w] \in C /\ o.left[w] \in f[o.left[w]] /\ w \in f[w]
      /\ o.parent[o.left[w]] = w
  BY <1>1, LinksOf
<1>3. ASSUME NEW b \in f[y], b # w PROVE o.left[w] \in f[o.left[b]] <=> w \in f[o.left[b]]
  <2>1. b \in C
    BY BelowTransitive
  <2>2. o.left[b] \in C \cup {NULL} /\ f[NULL] = {} /\ (o.left[b] # NULL => o.parent[o.left[b]] = b)
    BY <2>1, LinksOf
  <2>3. ASSUME w \in f[o.left[b]] PROVE o.left[w] \in f[o.left[b]]
    BY <1>2, <2>2, <2>3, BelowTransitive
  <2>4. ASSUME o.left[w] \in f[o.left[b]] PROVE w \in f[o.left[b]]
    <3>1. o.left[b] \in C
      BY <2>2, <2>4
    <3>2. o.left[w] # o.left[b]
      BY <1>2, <1>3, <2>2, <3>1
    <3> QED
      BY <1>2, <2>4, <3>1, <3>2, ParentBelow
  <2> QED
    BY <2>3, <2>4
<1> QED
  BY <1>1, <1>2, <1>3 DEF Above

LEMMA AboveRight ==
    ASSUME NEW o, NEW C, NEW f, Shape(o, C, f), NEW y \in C, NEW w \in f[y], o.right[w] # NULL
    PROVE  /\ o.right[w] \in f[y]
           /\ Above(o, f, y, o.right[w]) = Above(o, f, y, w)
<1>1. w \in C /\ f[w] \subseteq f[y]
  BY BelowTransitive
<1>2. /\ o.right[w] \in f[w] /\ o.right[w] \in C /\ w \in f[w] /\ w \notin f[o.left[w]]
      /\ o.parent[o.right[w]] = w /\ o.right[w] \notin f[o.left[w]]
  BY <1>1, LinksOf
<1>3. ASSUME NEW b \in f[y], b # w PROVE o.right[w] \in f[o.left[b]] <=> w \in f[o.left[b]]
  <2>1. b \in C
    BY BelowTransitive
  <2>2. o.left[b] \in C \cup {NULL} /\ f[NULL] = {} /\ (o.left[b] # NULL => o.parent[o.left[b]] = b)
    BY <2>1, LinksOf
  <2>3. ASSUME w \in f[o.left[b]] PROVE o.right[w] \in f[o.left[b]]
    BY <1>2, <2>2, <2>3, BelowTransitive
  <2>4. ASSUME o.right[w] \in f[o.left[b]] PROVE w \in f[o.left[b]]
    <3>1. o.left[b] \in C
      BY <2>2, <2>4
    <3>2. o.right[w] # o.left[b]
      BY <1>2, <1>3, <2>2, <3>1
    <3> QED
      BY <1>2, <2>4, <3>1, <3>2, ParentBelow
  <2> QED
    BY <2>3, <2>4
<1> QED
  BY <1>1, <1>2, <1>3 DEF Above

\* What comes after all below w: nothing, or the right of the lowest node b
\* to whose left w is, and w is then at the right end of what is left of b.
Follows(o, f, P, y, K, w, b) ==
    /\ b \in Above(o, f, y, w)
    /\ Above(o, f, y, w) = Above(o, f, y, b) \cup {b} /\ b \notin Above(o, f, y, b)
    /\ K[w] = P[o.right[b]] \o K[b]
    /\ \A z \in f[o.left[b]] : z <= w \/ z \in f[w]

LEMMA NotAboveItself ==
    ASSUME NEW o, NEW C, NEW f, Shape(o, C, f), NEW y, NEW b \in C
    PROVE  b \notin Above(o, f, y, b)
BY LinksOf DEF Above

LEMMA Successor ==
    ASSUME NEW o, NEW C, NEW f, Shape(o, C, f), NEW P, NEW y \in C, NEW K,
           Continues(o, f, P, y, << >>, K), NEW w \in f[y]
    PROVE  \/ Above(o, f, y, w) = {} /\ K[w] = << >>
           \/ \E b : Follows(o, f, P, y, K, w, b)
<1> DEFINE Ok(x) == \/ Above(o, f, y, x) = {} /\ K[x] = << >>
                    \/ \E b : Follows(o, f, P, y, K, x, b)
           S == {x \in f[y] : ~Ok(x)}
<1>1. Ok(y)
  BY AboveSelf DEF Continues
<1>2. ASSUME S # {} PROVE FALSE
  <2>1. S \subseteq f[y] /\ y \notin S
    BY <1>1
  <2>2. PICK x \in f[y] : x \notin S /\ (o.left[x] \in S \/ o.right[x] \in S)
    <3> HIDE DEF S
    <3> QED
      BY <1>2, <2>1, Highest
  <2>3. Ok(x)
    BY <2>2
  <2>4. x \in C /\ f[x] \subseteq f[y]
    BY BelowTransitive
  <2>5. /\ f[x] = {x} \cup f[o.left[x]] \cup f[o.right[x]] /\ x \in Int
        /\ x \notin f[o.left[x]]
        /\ \A z \in f[o.left[x]] : z \in Int /\ z < x
        /\ \A z \in f[o.right[x]] : z \in Int /\ x < z
        /\ o.left[x] # NULL => o.left[x] \in f[o.left[x]]
        /\ o.right[x] # NULL => o.right[x] \in f[o.right[x]]
    BY <2>4, LinksOf
  <2>6. NULL \notin f[y]
    BY BelowSelf
  <2>7. CASE o.left[x] \in S
    <3>1. o.left[x] # NULL
      BY <2>1, <2>6, <2>7
    <3>2. Above(o, f, y, o.left[x]) = Above(o, f, y, x) \cup {x}
      BY <3>1, AboveLeft
    <3>3. x \notin Above(o, f, y, x)
      BY <2>4, NotAboveItself
    <3>4. K[o.left[x]] = P[o.right[x]] \o K[x]
      BY <3>1 DEF Continues
    <3>5. Follows(o, f, P, y, K, o.left[x], x)
      BY <3>2, <3>3, <3>4 DEF Follows
    <3> QED
      BY <2>7, <3>5
  <2>8. CASE o.right[x] \in S
    <3>1. o.right[x] # NULL
      BY <2>1, <2>6, <2>8
    <3>2. Above(o, f, y, o.right[x]) = Above(o, f, y, x)
      BY <3>1, AboveRight
    <3>3. K[o.right[x]] = K[x]
      BY <3>1 DEF Continues
    <3>4. ASSUME NEW b, Follows(o, f, P, y, K, x, b)
          PROVE  Follows(o, f, P, y, K, o.right[x], b)
      <4>1. b \in f[y] /\ b \in C
        BY <3>4, BelowTransitive DEF Follows, Above
      <4>2. ASSUME NEW z \in f[o.left[b]] PROVE z <= o.right[x] \/ z \in f[o.right[x]]
        <5>1. z \in Int /\ (z <= x \/ z \in f[x])
          BY <3>4, <4>1, LinksOf DEF Follows
        <5>2. o.right[x] \in Int /\ x < o.right[x]
          BY <2>5, <3>1
        <5> QED
          BY <2>5, <5>1, <5>2
      <4> QED
        BY <3>2, <3>3, <3>4, <4>2 DEF Follows
    <3> QED
      BY <2>3, <2>8, <3>2, <3>3, <3>4
  <2> QED
    BY <2>2, <2>7, <2>8
<1> QED
  BY <1>2

LEMMA LastToTheLeft ==
    ASSUME NEW o, NEW C, NEW f, Shape(o, C, f), NEW P, NEW y \in C, NEW K, NEW w \in f[y],
           o.right[w] = NULL, NEW b, Follows(o, f, P, y, K, w, b)
    PROVE  b \in f[y] /\ Precedes(o, f, b, w)
<1>1. b \in f[y] /\ w \in f[o.left[b]] /\ b \in C /\ w \in C
  BY BelowTransitive DEF Follows, Above
<1>2. /\ f[w] = {w} \cup f[o.left[w]] /\ w \in Int
      /\ \A z \in f[o.left[w]] : z \in Int /\ z < w
  BY <1>1, LinksOf
<1>3. ASSUME NEW z \in f[o.left[b]] PROVE z <= w
  <2>1. z \in Int /\ (z <= w \/ z \in f[w])
    BY <1>1, LinksOf DEF Follows
  <2> QED
    BY <1>2, <2>1
<1> QED
  BY <1>1, <1>3 DEF Precedes

\* Of two nodes above a third, one is above the other.
LEMMA AboveBoth ==
    ASSUME NEW o, NEW C, NEW f, Shape(o, C, f), NEW a \in C, NEW b \in C,
           NEW p \in f[a], p \in f[b]
    PROVE  a \in f[b] \/ b \in f[a]
<1> SUFFICES ASSUME a \notin f[b], b \notin f[a] PROVE FALSE
  OBVIOUS
<1> DEFINE S == f[a] \cap f[b]
<1>1. S \subseteq f[a] /\ S # {} /\ a \notin S
  OBVIOUS
<1>2. PICK x \in f[a] : x \notin S /\ (o.left[x] \in S \/ o.right[x] \in S)
  <2> HIDE DEF S
  <2> QED
    BY <1>1, Highest
<1>3. x \in C
  BY BelowTransitive
<1>4. PICK z \in S : z \in {o.left[x], o.right[x]}
  BY <1>2
<1>5. z \in C /\ z # b
  BY BelowTransitive
<1>6. z # NULL
  BY <1>5, LinksOf
<1>7. o.parent[z] = x
  BY <1>3, <1>4, <1>6, LinksOf
<1>8. x \in f[b]
  BY <1>5, <1>7, ParentBelow
<1> QED
  BY <1>2, <1>8

LEMMA PrecedesOne ==
    ASSUME NEW o, NEW C, NEW f, Shape(o, C, f), NEW a \in C, NEW b \in C, NEW p,
           Precedes(o, f, a, p), Precedes(o, f, b, p)
    PROVE  a = b
<1>1. ASSUME NEW c \in C, NEW d \in f[c], c # d, Precedes(o, f, c, p), Precedes(o, f, d, p) PROVE FALSE
  <2>1. d \in C /\ p \in f[o.left[c]] /\ p \in f[o.left[d]] /\ \A z \in f[o.left[c]] : z <= p
    BY <1>1, BelowTransitive DEF Precedes
  <2>2. /\ f[c] = {c} \cup f[o.left[c]] \cup f[o.right[c]]
        /\ f[o.left[c]] \cap f[o.right[c]] = {}
        /\ o.right[c] \in C \cup {NULL} /\ f[NULL] = {}
    BY LinksOf
  <2>3. p \in f[d] /\ p \in Int /\ d \in Int /\ p < d
    BY <2>1, LinksOf
  <2>4. d \notin f[o.right[c]]
    <3> SUFFICES ASSUME d \in f[o.right[c]] PROVE FALSE
      OBVIOUS
    <3>1. o.right[c] \in C
      BY <2>2
    <3>2. f[d] \subseteq f[o.right[c]]
      BY <3>1, BelowTransitive
    <3> QED
      BY <2>1, <2>2, <2>3, <3>2
  <2>5. d \in f[o.left[c]]
    BY <1>1, <2>2, <2>4
  <2> QED
    BY <2>1, <2>3, <2>5
<1>2. p \in f[a] /\ p \in f[b]
  BY LinksOf DEF Precedes
<1>3. a \in f[b] \/ b \in f[a]
  BY <1>2, AboveBoth
<1> QED
  BY <1>1, <1>3

(***************************************************************************)
(* t is o but that the last node before each node of S has a thread to it. *)
(***************************************************************************)
Threaded(o, f, S, t) ==
    /\ t \in Trees
    /\ t.root = o.root /\ t.left = o.left /\ t.parent = o.parent /\ t.balance = o.balance
    /\ \A p \in Keys : /\ \A b \in S : Precedes(o, f, b, p) => t.right[p] = b
                       /\ (\A b \in S : ~Precedes(o, f, b, p)) => t.right[p] = o.right[p]

LEMMA ThreadsNone ==
    ASSUME NEW o, o \in Trees, NEW f, NEW t
    PROVE  Threaded(o, f, {}, t) <=> t = o
<1>1. ASSUME Threaded(o, f, {}, t) PROVE t = o
  <2>1. /\ t.root = o.root /\ t.left = o.left /\ t.parent = o.parent /\ t.balance = o.balance
        /\ t.right \in Pointers /\ o.right \in Pointers /\ \A p \in Keys : t.right[p] = o.right[p]
        /\ t \in Trees
    BY <1>1 DEF Threaded, Trees
  <2>2. t.right = o.right
    BY <2>1 DEF Pointers
  <2> QED
    BY <2>1, <2>2 DEF Trees
<1>2. Threaded(o, f, {}, o)
  BY DEF Threaded
<1> QED
  BY <1>1, <1>2

LEMMA ThreadsLinks ==
    ASSUME NEW o, NEW C, NEW f, Shape(o, C, f), NEW S, S \subseteq C, NEW t, Threaded(o, f, S, t)
    PROVE  /\ t.root = o.root /\ t.left = o.left /\ t.parent = o.parent
           /\ \A x \in C : /\ t.right[x] \in C \cup {NULL}
                           /\ o.right[x] # NULL => t.right[x] = o.right[x]
<1>1. C \subseteq Keys
  BY DEF Shape
<1>2. ASSUME NEW x \in C
      PROVE  /\ t.right[x] \in C \cup {NULL}
             /\ o.right[x] # NULL => t.right[x] = o.right[x]
  <2>1. o.right[x] \in C \cup {NULL}
    BY LinksOf
  <2>2. CASE \E b \in S : Precedes(o, f, b, x)
    BY <1>1, <2>2 DEF Threaded, Precedes
  <2>3. CASE \A b \in S : ~Precedes(o, f, b, x)
    BY <1>1, <2>1, <2>3 DEF Threaded
  <2> QED
    BY <2>2, <2>3
<1> QED
  BY <1>2 DEF Threaded

LEMMA ThreadsRight ==
    ASSUME NEW o, NEW C, NEW f, Shape(o, C, f), NEW S, S \subseteq C, NEW t, Threaded(o, f, S, t),
           NEW x \in C, o.right[x] # NULL
    PROVE  t.right[x] = o.right[x]
BY ThreadsLinks

\* t with the right link of p changed.
WithRight(t, p, q) == [t EXCEPT !.right[p] = q]

LEMMA WithRightIs ==
    ASSUME NEW t, t \in Trees, NEW p \in Keys, NEW q \in Keys \cup {NULL}
    PROVE  LET u == WithRight(t, p, q)
           IN /\ u \in Trees /\ u.root = t.root /\ u.left = t.left /\ u.parent = t.parent
              /\ u.balance = t.balance
              /\ \A x \in Keys : u.right[x] = IF x = p THEN q ELSE t.right[x]
BY DEF WithRight, Trees, Pointers

LEMMA ThreadTied ==
    ASSUME NEW o, NEW C, NEW f, Shape(o, C, f), NEW S, S \subseteq C, NEW t, Threaded(o, f, S, t),
           NEW r \in C, NEW p, Precedes(o, f, r, p)
    PROVE  Threaded(o, f, S \cup {r}, WithRight(t, p, r))
<1> DEFINE u == WithRight(t, p, r)
<1>1. p \in C /\ p \in Keys /\ r \in Keys
  BY LinksOf DEF Precedes
<1>2. /\ u \in Trees /\ u.root = t.root /\ u.left = t.left /\ u.parent = t.parent
      /\ u.balance = t.balance
      /\ \A x \in Keys : u.right[x] = IF x = p THEN r ELSE t.right[x]
  BY <1>1, WithRightIs DEF Threaded
<1> HIDE DEF u
<1>3. ASSUME NEW x \in Keys
      PROVE  /\ \A b \in S \cup {r} : Precedes(o, f, b, x) => u.right[x] = b
             /\ (\A b \in S \cup {r} : ~Precedes(o, f, b, x)) => u.right[x] = o.right[x]
  <2>1. CASE x = p
    BY <1>2, <2>1, PrecedesOne
  <2>2. CASE x # p /\ Precedes(o, f, r, x)
    <3>1. p = x
      <4>1. p \in f[o.left[r]] /\ x \in f[o.left[r]] /\ p <= x /\ x <= p
        BY <2>2 DEF Precedes
      <4>2. p \in Int /\ x \in Int
        BY <4>1, LinksOf
      <4> QED
        BY <4>1, <4>2
    <3> QED
      BY <2>2, <3>1
  <2>3. CASE x # p /\ ~Precedes(o, f, r, x)
    BY <1>2, <2>3 DEF Threaded
  <2> QED
    BY <2>1, <2>2, <2>3
<1>4. Threaded(o, f, S \cup {r}, u)
  BY <1>2, <1>3 DEF Threaded
<1> QED
  BY <1>4 DEF u

LEMMA ThreadUntied ==
    ASSUME NEW o, NEW C, NEW f, Shape(o, C, f), NEW S, S \subseteq C, NEW r \in C, r \notin S,
           NEW t, Threaded(o, f, S \cup {r}, t), NEW p, Precedes(o, f, r, p)
    PROVE  Threaded(o, f, S, WithRight(t, p, NULL))
<1> DEFINE u == WithRight(t, p, NULL)
<1>1. p \in C /\ p \in Keys /\ o.right[p] = NULL
  BY LinksOf DEF Precedes
<1>2. /\ u \in Trees /\ u.root = t.root /\ u.left = t.left /\ u.parent = t.parent
      /\ u.balance = t.balance
      /\ \A x \in Keys : u.right[x] = IF x = p THEN NULL ELSE t.right[x]
  BY <1>1, WithRightIs DEF Threaded
<1> HIDE DEF u
<1>3. ASSUME NEW x \in Keys
      PROVE  /\ \A b \in S : Precedes(o, f, b, x) => u.right[x] = b
             /\ (\A b \in S : ~Precedes(o, f, b, x)) => u.right[x] = o.right[x]
  <2>1. CASE x = p
    BY <1>1, <1>2, <2>1, PrecedesOne
  <2>2. CASE x # p /\ Precedes(o, f, r, x)
    <3>1. p = x
      <4>1. p \in f[o.left[r]] /\ x \in f[o.left[r]] /\ p <= x /\ x <= p
        BY <2>2 DEF Precedes
      <4>2. p \in Int /\ x \in Int
        BY <4>1, LinksOf
      <4> QED
        BY <4>1, <4>2
    <3> QED
      BY <2>2, <3>1
  <2>3. CASE x # p /\ ~Precedes(o, f, r, x)
    BY <1>2, <2>3 DEF Threaded
  <2> QED
    BY <2>1, <2>2, <2>3
<1>4. Threaded(o, f, S, u)
  BY <1>2, <1>3 DEF Threaded
<1> QED
  BY <1>4 DEF u

(***************************************************************************)
(* What a frame G of a traversal has handed out, and what it still has to. *)
(***************************************************************************)
Continued(o, f, P, y, K) == Continues(o, f, P, y, << >>, K)

Walk(o, C, f, P, K, G) ==
    /\ Shape(o, C, f) /\ Preordered(o, C, P)
    /\ G.from \in C \cup {NULL} /\ G.seen \in Seq(Keys) /\ G.failed \in BOOLEAN
    /\ G.from \in C => Continued(o, f, P, G.from, K)

\* rest is left to hand out, unless the user function has failed.
Seen(P, G, rest) ==
    \E z \in Seq(Keys) : G.seen \o z = P[G.from] /\ (~G.failed => z = rest)

\* All below r and what follows; all but r; and what is not left of r.
FromHere(P, K, r) == P[r] \o K[r]
FromRight(o, P, K, r) == P[o.right[r]] \o K[r]
FromLeft(o, P, K, r) == P[o.left[r]] \o FromRight(o, P, K, r)

LEMMA AppendMoves ==
    ASSUME NEW s \in Seq(Keys), NEW x \in Keys, NEW z \in Seq(Keys)
    PROVE  s \o (<<x>> \o z) = Append(s, x) \o z /\ Append(s, x) \in Seq(Keys)
OBVIOUS

LEMMA ConcatAssociates ==
    ASSUME NEW a \in Seq(Keys), NEW b \in Seq(Keys), NEW c \in Seq(Keys)
    PROVE  (a \o b) \o c = a \o (b \o c) /\ a \o b \in Seq(Keys)
OBVIOUS

RestsLinked(o, P, K, r) ==
    /\ o.left[r] = NULL => FromLeft(o, P, K, r) = FromRight(o, P, K, r)
    /\ o.right[r] = NULL => FromRight(o, P, K, r) = K[r]
    /\ o.left[r] # NULL => FromHere(P, K, o.left[r]) = FromLeft(o, P, K, r)
    /\ o.right[r] # NULL => FromHere(P, K, o.right[r]) = FromRight(o, P, K, r)

LEMMA Rests ==
    ASSUME NEW o, NEW C, NEW f, NEW P, NEW K, NEW G, Walk(o, C, f, P, K, G), NEW r \in f[G.from]
    PROVE  /\ FromLeft(o, P, K, r) \in Seq(Keys) /\ FromRight(o, P, K, r) \in Seq(Keys)
           /\ FromHere(P, K, r) = <<r>> \o FromLeft(o, P, K, r)
           /\ RestsLinked(o, P, K, r)
<1>1. G.from \in C /\ r \in C /\ r \in Keys /\ Shape(o, C, f)
  <2>1. f[NULL] = {} /\ G.from \in C \cup {NULL} /\ Shape(o, C, f) /\ C \subseteq Keys
    BY DEF Walk, Shape
  <2> QED
    BY <2>1, BelowTransitive
<1>2. Continues(o, f, P, G.from, << >>, K) /\ Preordered(o, C, P)
  BY <1>1 DEF Walk, Continued
<1>3. PICK a : a = P[o.left[r]]
  OBVIOUS
<1>4. PICK b : b = P[o.right[r]]
  OBVIOUS
<1>5. PICK k : k = K[r]
  OBVIOUS
<1>6. a \in Seq(Keys) /\ b \in Seq(Keys) /\ k \in Seq(Keys) /\ P[NULL] = << >>
  <2>1. << >> \in Seq(Keys)
    OBVIOUS
  <2>2. o.left[r] \in C \cup {NULL} /\ o.right[r] \in C \cup {NULL}
    BY <1>1, LinksOf
  <2>3. k \in Seq(Keys)
    BY <1>2, <1>5 DEF Continues
  <2> QED
    BY <1>2, <1>3, <1>4, <2>1, <2>2, <2>3 DEF Preordered
<1>7. P[r] = <<r>> \o a \o b
  BY <1>1, <1>2, <1>3, <1>4 DEF Preordered, Over
<1>8. <<r>> \o a \o b \o k = <<r>> \o (a \o (b \o k)) /\ b \o k \in Seq(Keys) /\ a \o (b \o k) \in Seq(Keys)
  <2>1. <<r>> \in Seq(Keys)
    <3>1. r \in Keys
      BY <1>1
    <3> QED
      BY <3>1
  <2>2. PICK e \in Seq(Keys) : e = <<r>>
    BY <2>1
  <2>3. PICK d \in Seq(Keys) : d = e \o a
    BY <1>6, ConcatAssociates
  <2>4. PICK g \in Seq(Keys) : g = b \o k
    BY <1>6, ConcatAssociates
  <2>5. (d \o b) \o k = d \o g
    <3>1. b \in Seq(Keys) /\ k \in Seq(Keys)
      BY <1>6
    <3>2. (d \o b) \o k = d \o (b \o k)
      BY <3>1
    <3> QED
      BY <2>4, <3>2
  <2>6. d \o g = e \o (a \o g) /\ a \o g \in Seq(Keys)
    <3>1. a \in Seq(Keys)
      BY <1>6
    <3>2. (e \o a) \o g = e \o (a \o g) /\ a \o g \in Seq(Keys)
      BY <3>1
    <3> QED
      BY <2>3, <3>2
  <2> QED
    BY <2>2, <2>3, <2>4, <2>5, <2>6, Zenon
<1>9. o.left[r] = NULL => a \o (b \o k) = b \o k
  <2>1. ASSUME NEW z \in Seq(Keys) PROVE << >> \o z = z
    OBVIOUS
  <2> QED
    BY <1>3, <1>6, <1>8, <2>1
<1>10. o.right[r] = NULL => b \o k = k
  <2>1. ASSUME NEW z \in Seq(Keys) PROVE << >> \o z = z
    OBVIOUS
  <2> QED
    BY <1>4, <1>6, <2>1
<1>11. /\ o.left[r] # NULL => K[o.left[r]] = b \o k
       /\ o.right[r] # NULL => K[o.right[r]] = k
  BY <1>2, <1>4, <1>5 DEF Continues
<1>12. /\ FromLeft(o, P, K, r) = a \o (b \o k) /\ FromRight(o, P, K, r) = b \o k
       /\ FromHere(P, K, r) = <<r>> \o a \o b \o k
       /\ o.left[r] # NULL => FromHere(P, K, o.left[r]) = a \o (b \o k)
       /\ o.right[r] # NULL => FromHere(P, K, o.right[r]) = b \o k
  BY <1>3, <1>4, <1>5, <1>7, <1>11, Zenon DEF FromLeft, FromRight, FromHere
<1>13. RestsLinked(o, P, K, r)
  BY <1>5, <1>9, <1>10, <1>12, Zenon DEF RestsLinked
<1> QED
  BY <1>8, <1>12, <1>13, Zenon

LEMMA RestsLink ==
    ASSUME NEW o, NEW C, NEW f, NEW P, NEW K, NEW G, Walk(o, C, f, P, K, G), NEW r \in f[G.from]
    PROVE  RestsLinked(o, P, K, r)
BY Rests

\* A frame that is at another place of the same walk.
LEMMA WalkSame ==
    ASSUME NEW o, NEW C, NEW f, NEW P, NEW K, NEW G, Walk(o, C, f, P, K, G), NEW H,
           H.from = G.from, H.seen = G.seen, H.failed \in BOOLEAN
    PROVE  Walk(o, C, f, P, K, H) /\ G.failed \in BOOLEAN
BY DEF Walk

LEMMA SeenMore ==
    ASSUME NEW P, NEW G, NEW H, NEW x \in Keys, NEW rest \in Seq(Keys),
           Seen(P, G, <<x>> \o rest), ~G.failed, G.seen \in Seq(Keys),
           H.from = G.from, H.seen = Append(G.seen, x)
    PROVE  Seen(P, H, rest) /\ H.seen \in Seq(Keys)
<1>1. G.seen \o (<<x>> \o rest) = P[G.from]
  BY DEF Seen
<1>2. H.seen \o rest = P[H.from] /\ H.seen \in Seq(Keys)
  <2>1. G.seen \o (<<x>> \o rest) = Append(G.seen, x) \o rest /\ Append(G.seen, x) \in Seq(Keys)
    BY AppendMoves
  <2> QED
    BY <1>1, <2>1
<1> QED
  BY <1>2 DEF Seen

\* A frame that has handed out nothing more.
LEMMA SeenSame ==
    ASSUME NEW P, NEW G, NEW H, NEW a, NEW b, Seen(P, G, a), G.failed \in BOOLEAN, H.failed \in BOOLEAN,
           H.from = G.from, H.seen = G.seen, G.failed \/ a = b, ~G.failed \/ H.failed
    PROVE  Seen(P, H, b)
BY DEF Seen

\* What the properties say of it.
LEMMA SeenIsPrefix ==
    ASSUME NEW P, NEW G, NEW a, Seen(P, G, a), G.seen \in Seq(Keys), G.failed \in BOOLEAN
    PROVE  /\ Len(G.seen) <= Len(P[G.from]) /\ G.seen = SubSeq(P[G.from], 1, Len(G.seen))
           /\ ~G.failed /\ a = << >> => G.seen = P[G.from]
<1>1. PICK z \in Seq(Keys) : G.seen \o z = P[G.from] /\ (~G.failed => z = a)
  BY DEF Seen
<1>2. PICK s \in Seq(Keys) : s = G.seen
  OBVIOUS
<1>3. Len(s) <= Len(s \o z) /\ s = SubSeq(s \o z, 1, Len(s)) /\ s \o << >> = s
  <2>1. s \o z \in Seq(Keys) /\ Len(s \o z) = Len(s) + Len(z)
    OBVIOUS
  <2>2. SubSeq(s \o z, 1, Len(s)) = s
    <3>1. /\ SubSeq(s \o z, 1, Len(s)) \in Seq(Keys) /\ Len(SubSeq(s \o z, 1, Len(s))) = Len(s)
      BY <2>1, SubSeqProperties
    <3>2. \A i \in 1 .. Len(s) : SubSeq(s \o z, 1, Len(s))[i] = s[i]
      BY <2>1
    <3> QED
      BY <3>1, <3>2, SeqEqual
  <2> QED
    BY <2>1, <2>2
<1> QED
  BY <1>1, <1>2, <1>3

-----------------------------------------------------------------------------
(***************************************************************************)
(* A Morris traversal.  The last node before each node to whose left it is *)
(* has a thread to it; when it comes back to a node along its thread, that *)
(* has one too.                                                            *)
(***************************************************************************)
\* c is at the right side of what is left of r.
OnEdge(o, f, r, c) == c \in f[o.left[r]] /\ \A z \in f[o.left[r]] : z <= c \/ z \in f[c]

MorrisFirst(o, f, P, K, t, G) ==
    LET r == G.root
    IN
    /\ Threaded(o, f, Above(o, f, G.from, r), t)
    /\ \/ G.pc = "head" /\ Seen(P, G, FromHere(P, K, r))
       \/ G.pc = "find" /\ Seen(P, G, FromHere(P, K, r)) /\ OnEdge(o, f, r, G.current)
       \/ /\ G.pc \in {"called", "answered", "handed"}
          /\ G.pc # "handed" => ~G.failed
          /\ Seen(P, G, FromLeft(o, P, K, r))
          /\ G.current = NULL => o.left[r] = NULL
          /\ G.current # NULL => Precedes(o, f, r, G.current)
       \/ G.pc = "next" /\ Seen(P, G, FromRight(o, P, K, r))

MorrisSecond(o, f, P, K, t, G) ==
    LET r == G.root
    IN
    /\ Threaded(o, f, Above(o, f, G.from, r) \cup {r}, t)
    /\ o.left[r] # NULL /\ Seen(P, G, FromRight(o, P, K, r))
    /\ \/ G.pc = "head"
       \/ G.pc = "find" /\ OnEdge(o, f, r, G.current)
       \/ G.pc = "unthread" /\ Precedes(o, f, r, G.current)

MorrisAt(o, f, P, K, t, G) ==
    \/ G.root = NULL /\ G.pc = "head" /\ t = o /\ Seen(P, G, << >>)
    \/ /\ G.root \in f[G.from]
       /\ MorrisFirst(o, f, P, K, t, G) \/ MorrisSecond(o, f, P, K, t, G)

LEMMA WalkRoot ==
    ASSUME NEW o, NEW C, NEW f, NEW P, NEW K, NEW G, Walk(o, C, f, P, K, G), NEW r \in f[G.from]
    PROVE  /\ Shape(o, C, f) /\ G.from \in C /\ r \in C /\ r \in Keys /\ r # NULL
           /\ Continued(o, f, P, G.from, K)
           /\ Above(o, f, G.from, r) \subseteq C /\ r \notin Above(o, f, G.from, r)
<1>1. f[NULL] = {} /\ G.from \in C \cup {NULL} /\ Shape(o, C, f) /\ C \subseteq Keys
  BY DEF Walk, Shape
<1>2. G.from \in C /\ r \in C
  BY <1>1, BelowTransitive
<1>3. Above(o, f, G.from, r) \subseteq C
  BY <1>1, <1>2, BelowTransitive DEF Above
<1> QED
  BY <1>1, <1>2, <1>3, NotAboveItself, LinksOf DEF Walk

\* A frame that has handed r out, or no longer hands out nodes.
LEMMA HandedOut ==
    ASSUME NEW o, NEW C, NEW f, NEW P, NEW K, NEW G, Walk(o, C, f, P, K, G), NEW r \in f[G.from],
           Seen(P, G, FromHere(P, K, r)), NEW H, H.from = G.from, H.failed = G.failed,
           IF G.failed THEN H.seen = G.seen ELSE H.seen = Append(G.seen, r)
    PROVE  Seen(P, H, FromLeft(o, P, K, r)) /\ Walk(o, C, f, P, K, H)
<1>1. r \in Keys /\ G.seen \in Seq(Keys) /\ G.failed \in BOOLEAN
  BY WalkRoot DEF Walk
<1>2. FromLeft(o, P, K, r) \in Seq(Keys) /\ FromHere(P, K, r) = <<r>> \o FromLeft(o, P, K, r)
  BY Rests
<1>3. Seen(P, H, FromLeft(o, P, K, r)) /\ H.seen \in Seq(Keys)
  <2>1. CASE G.failed
    BY <1>1, <2>1, SeenSame
  <2>2. CASE ~G.failed
    <3>1. Seen(P, G, <<r>> \o FromLeft(o, P, K, r)) /\ H.seen = Append(G.seen, r)
      BY <1>2, <2>2
    <3> HIDE <1>2
    <3>2. FromLeft(o, P, K, r) \in Seq(Keys)
      BY Rests
    <3> QED
      BY <1>1, <2>2, <3>1, <3>2, SeenMore
  <2> QED
    BY <1>1, <2>1, <2>2
<1> QED
  BY <1>1, <1>3 DEF Walk

LEMMA MorrisFromHead ==
    ASSUME NEW o, NEW C, NEW f, NEW P, NEW K, NEW t, NEW G, NEW H,
           Walk(o, C, f, P, K, G), MorrisAt(o, f, P, K, t, G),
           G.pc = "head", G.root # NULL,
           H.from = G.from, H.root = G.root, H.failed = G.failed,
           IF t.left[G.root] # NULL
           THEN H.pc = "find" /\ H.current = t.left[G.root] /\ H.seen = G.seen
           ELSE /\ H.current = NULL
                /\ IF G.failed THEN H.pc = "handed" /\ H.seen = G.seen
                   ELSE H.pc = "called" /\ H.seen = Append(G.seen, G.root)
    PROVE  MorrisAt(o, f, P, K, t, H) /\ Walk(o, C, f, P, K, H)
<1> DEFINE r == G.root
<1>1. /\ r \in f[G.from] /\ G.failed \in BOOLEAN
      /\ MorrisFirst(o, f, P, K, t, G) \/ MorrisSecond(o, f, P, K, t, G)
  BY DEF MorrisAt, Walk
<1>2. Shape(o, C, f) /\ r \in C
  BY <1>1, WalkRoot
<1>3. t.left = o.left
  BY <1>1 DEF MorrisFirst, MorrisSecond, Threaded
<1>4. CASE o.left[r] # NULL
  <2>1. OnEdge(o, f, r, o.left[r]) /\ H.pc = "find" /\ H.current = o.left[r] /\ H.seen = G.seen
    BY <1>2, <1>3, <1>4, LinksOf DEF OnEdge
  <2>2. Walk(o, C, f, P, K, H)
    BY <1>1, <2>1, WalkSame
  <2>3. CASE MorrisFirst(o, f, P, K, t, G)
    <3>1. Threaded(o, f, Above(o, f, G.from, r), t) /\ Seen(P, G, FromHere(P, K, r))
      BY <2>3 DEF MorrisFirst
    <3>2. Seen(P, H, FromHere(P, K, r))
      BY <1>1, <2>1, <3>1, SeenSame
    <3> QED
      BY <1>1, <2>1, <2>2, <3>1, <3>2 DEF MorrisAt, MorrisFirst
  <2>4. CASE MorrisSecond(o, f, P, K, t, G)
    <3>1. Threaded(o, f, Above(o, f, G.from, r) \cup {r}, t) /\ Seen(P, G, FromRight(o, P, K, r))
      BY <2>4 DEF MorrisSecond
    <3>2. Seen(P, H, FromRight(o, P, K, r))
      BY <1>1, <2>1, <3>1, SeenSame
    <3> QED
      BY <1>1, <1>4, <2>1, <2>2, <3>1, <3>2 DEF MorrisAt, MorrisSecond
  <2> QED
    BY <1>1, <2>3, <2>4
<1>5. CASE o.left[r] = NULL
  <2>1. /\ Threaded(o, f, Above(o, f, G.from, r), t) /\ Seen(P, G, FromHere(P, K, r))
    BY <1>1, <1>5 DEF MorrisFirst, MorrisSecond
  <2>2. /\ H.current = NULL
        /\ IF G.failed THEN H.seen = G.seen ELSE H.seen = Append(G.seen, r)
        /\ H.pc \in {"called", "handed"} /\ (H.pc # "handed" => ~H.failed)
    BY <1>3, <1>5
  <2>3. Seen(P, H, FromLeft(o, P, K, r)) /\ Walk(o, C, f, P, K, H)
    BY <1>1, <2>1, <2>2, HandedOut
  <2> QED
    BY <1>1, <1>5, <2>1, <2>2, <2>3 DEF MorrisAt, MorrisFirst
<1> QED
  BY <1>4, <1>5

LEMMA EdgeMoves ==
    ASSUME NEW o, NEW C, NEW f, Shape(o, C, f), NEW r \in C, NEW c, OnEdge(o, f, r, c)
    PROVE  /\ c \in C /\ o.right[c] # r
           /\ o.right[c] # NULL => OnEdge(o, f, r, o.right[c])
           /\ o.right[c] = NULL => Precedes(o, f, r, c)
<1>1. c \in f[o.left[r]] /\ c \in C /\ o.left[r] \in C
  BY LinksOf DEF OnEdge
<1>2. /\ f[c] = {c} \cup f[o.left[c]] \cup f[o.right[c]] /\ c \in Int
      /\ \A z \in f[o.left[c]] : z \in Int /\ z < c
      /\ \A z \in f[o.right[c]] : z \in Int /\ c < z
      /\ o.right[c] # NULL => o.right[c] \in f[o.right[c]]
      /\ f[NULL] = {}
  BY <1>1, LinksOf
<1>3. f[c] \subseteq f[o.left[r]] /\ r \notin f[o.left[r]] /\ r # NULL
  BY <1>1, BelowTransitive, LinksOf
<1>4. o.right[c] # r
  BY <1>2, <1>3
<1>5. ASSUME NEW z \in f[o.left[r]] PROVE z \in Int /\ (z <= c \/ z \in f[o.right[c]])
  <2>1. z \in Int /\ (z <= c \/ z \in f[c])
    BY LinksOf DEF OnEdge
  <2> QED
    BY <1>2, <2>1
<1>6. ASSUME o.right[c] # NULL PROVE OnEdge(o, f, r, o.right[c])
  <2>1. o.right[c] \in f[o.left[r]] /\ o.right[c] \in Int /\ c < o.right[c]
    BY <1>2, <1>3, <1>6
  <2>2. \A z \in f[o.left[r]] : z <= o.right[c] \/ z \in f[o.right[c]]
    BY <1>2, <1>5, <2>1
  <2> QED
    BY <2>1, <2>2 DEF OnEdge
<1>7. ASSUME o.right[c] = NULL PROVE Precedes(o, f, r, c)
  BY <1>1, <1>2, <1>5, <1>7 DEF Precedes
<1> QED
  BY <1>1, <1>4, <1>6, <1>7

\* A node with a right child is no place for a thread.
Threading(o, C, f, t) == \E S : S \subseteq C /\ Threaded(o, f, S, t)

LEMMA ThreadingRight ==
    ASSUME NEW o, NEW C, NEW f, Shape(o, C, f), NEW t, Threading(o, C, f, t), NEW x \in C, o.right[x] # NULL
    PROVE  t.right[x] = o.right[x]
BY ThreadsRight DEF Threading

LEMMA MorrisFromFind ==
    ASSUME NEW o, NEW C, NEW f, NEW P, NEW K, NEW t, NEW G, NEW H,
           Walk(o, C, f, P, K, G), MorrisAt(o, f, P, K, t, G),
           G.pc = "find",
           H.from = G.from, H.root = G.root, H.failed = G.failed,
           CASE t.right[G.current] = G.root -> H.pc = "unthread" /\ H.current = G.current /\ H.seen = G.seen
             [] t.right[G.current] = NULL ->
                  /\ H.current = G.current
                  /\ IF G.failed THEN H.pc = "handed" /\ H.seen = G.seen
                     ELSE H.pc = "called" /\ H.seen = Append(G.seen, G.root)
             [] OTHER -> H.pc = "find" /\ H.current = t.right[G.current] /\ H.seen = G.seen
    PROVE  MorrisAt(o, f, P, K, t, H) /\ Walk(o, C, f, P, K, H)
<1> DEFINE r == G.root
           c == G.current
<1>1. /\ r \in f[G.from] /\ G.failed \in BOOLEAN /\ OnEdge(o, f, r, c)
      /\ MorrisFirst(o, f, P, K, t, G) \/ MorrisSecond(o, f, P, K, t, G)
  BY DEF MorrisAt, Walk, MorrisFirst, MorrisSecond
<1>2. Shape(o, C, f) /\ r \in C /\ r # NULL /\ Above(o, f, G.from, r) \subseteq C
  <2>1. G.root \in f[G.from]
    BY <1>1
  <2> QED
    BY <2>1, WalkRoot
<1>3. /\ c \in C /\ o.right[c] # r
      /\ o.right[c] # NULL => OnEdge(o, f, r, o.right[c])
      /\ o.right[c] = NULL => Precedes(o, f, r, c)
  BY <1>1, <1>2, EdgeMoves
<1>4. c \in Keys
  BY <1>2, <1>3 DEF Shape
<1>5. CASE o.right[c] # NULL
  <2>1. t.right[c] = o.right[c]
    <3>1. Threading(o, C, f, t)
      BY <1>1, <1>2 DEF MorrisFirst, MorrisSecond, Threading
    <3>2. Shape(o, C, f) /\ c \in C
      BY <1>2, <1>3
    <3> HIDE DEF c
    <3> QED
      BY <1>5, <3>1, <3>2, ThreadingRight
  <2>2. OnEdge(o, f, r, o.right[c]) /\ H.pc = "find" /\ H.current = o.right[c] /\ H.seen = G.seen
    BY <1>3, <1>5, <2>1
  <2>3. Walk(o, C, f, P, K, H)
    BY <1>1, <2>2, WalkSame
  <2>4. CASE MorrisFirst(o, f, P, K, t, G)
    <3>1. Threaded(o, f, Above(o, f, G.from, r), t) /\ Seen(P, G, FromHere(P, K, r))
      BY <2>4 DEF MorrisFirst
    <3>2. Seen(P, H, FromHere(P, K, r))
      BY <1>1, <2>2, <3>1, SeenSame
    <3> QED
      BY <1>1, <2>2, <2>3, <3>1, <3>2 DEF MorrisAt, MorrisFirst
  <2>5. CASE MorrisSecond(o, f, P, K, t, G)
    <3>1. Threaded(o, f, Above(o, f, G.from, r) \cup {r}, t) /\ Seen(P, G, FromRight(o, P, K, r))
          /\ o.left[r] # NULL
      BY <2>5 DEF MorrisSecond
    <3>2. Seen(P, H, FromRight(o, P, K, r))
      BY <1>1, <2>2, <3>1, SeenSame
    <3> QED
      BY <1>1, <2>2, <2>3, <3>1, <3>2 DEF MorrisAt, MorrisSecond
  <2> QED
    BY <1>1, <2>4, <2>5
<1>6. CASE o.right[c] = NULL /\ MorrisFirst(o, f, P, K, t, G)
  <2>1. Threaded(o, f, Above(o, f, G.from, r), t) /\ Seen(P, G, FromHere(P, K, r)) /\ Precedes(o, f, r, c)
    BY <1>3, <1>6 DEF MorrisFirst
  <2>2. \A b \in Above(o, f, G.from, r) : ~Precedes(o, f, b, c)
    <3>1. ASSUME NEW b \in Above(o, f, G.from, r), Precedes(o, f, b, c) PROVE FALSE
      <4>1. b = r
        BY <1>2, <2>1, <3>1, PrecedesOne
      <4> QED
        BY <1>1, <3>1, <4>1, WalkRoot
    <3> QED
      BY <3>1
  <2>3. t.right[c] = NULL
    BY <1>4, <1>6, <2>1, <2>2 DEF Threaded
  <2>4. /\ H.current = c /\ c # NULL
        /\ IF G.failed THEN H.seen = G.seen ELSE H.seen = Append(G.seen, r)
        /\ H.pc \in {"called", "handed"} /\ (H.pc # "handed" => ~H.failed)
    BY <1>2, <1>3, <1>4, <2>3, KeysAssumption
  <2>5. Seen(P, H, FromLeft(o, P, K, r)) /\ Walk(o, C, f, P, K, H)
    BY <1>1, <2>1, <2>4, HandedOut
  <2> QED
    BY <1>1, <2>1, <2>4, <2>5 DEF MorrisAt, MorrisFirst
<1>7. CASE o.right[c] = NULL /\ MorrisSecond(o, f, P, K, t, G)
  <2>1. /\ Threaded(o, f, Above(o, f, G.from, r) \cup {r}, t) /\ Seen(P, G, FromRight(o, P, K, r))
        /\ Precedes(o, f, r, c) /\ o.left[r] # NULL
    BY <1>3, <1>7 DEF MorrisSecond
  <2>2. t.right[c] = r
    BY <1>4, <2>1 DEF Threaded
  <2>3. H.pc = "unthread" /\ H.current = c /\ H.seen = G.seen
    BY <1>2, <2>2
  <2>4. Seen(P, H, FromRight(o, P, K, r))
    BY <1>1, <2>1, <2>3, SeenSame
  <2>5. Walk(o, C, f, P, K, H)
    BY <1>1, <2>3, WalkSame
  <2> QED
    BY <1>1, <2>1, <2>3, <2>4, <2>5 DEF MorrisAt, MorrisSecond
<1> QED
  BY <1>1, <1>5, <1>6, <1>7

LEMMA MorrisFromUnthread ==
    ASSUME NEW o, NEW C, NEW f, NEW P, NEW K, NEW t, NEW G, NEW H,
           Walk(o, C, f, P, K, G), MorrisAt(o, f, P, K, t, G), G.pc = "unthread",
           H.from = G.from, H.root = G.root, H.failed = G.failed, H.seen = G.seen, H.pc = "next"
    PROVE  /\ MorrisAt(o, f, P, K, WithRight(t, G.current, NULL), H) /\ Walk(o, C, f, P, K, H)
           /\ G.current \in C
<1> DEFINE r == G.root
<1>1. /\ r \in f[G.from] /\ G.failed \in BOOLEAN
      /\ Threaded(o, f, Above(o, f, G.from, r) \cup {r}, t) /\ Seen(P, G, FromRight(o, P, K, r))
      /\ Precedes(o, f, r, G.current)
  BY DEF MorrisAt, Walk, MorrisFirst, MorrisSecond
<1>r. r \in f[G.from]
  BY <1>1
<1>2. /\ Shape(o, C, f) /\ r \in C
      /\ Above(o, f, G.from, r) \subseteq C /\ r \notin Above(o, f, G.from, r)
  BY <1>r, WalkRoot
<1>3. Threaded(o, f, Above(o, f, G.from, r), WithRight(t, G.current, NULL))
  BY <1>1, <1>2, ThreadUntied
<1>4. Seen(P, H, FromRight(o, P, K, r))
  BY <1>1, SeenSame
<1>5. Walk(o, C, f, P, K, H)
  BY <1>1, WalkSame
<1>6. G.current \in C
  BY <1>1, <1>2, LinksOf DEF Precedes
<1> QED
  BY <1>1, <1>3, <1>4, <1>5, <1>6 DEF MorrisAt, MorrisFirst

LEMMA MorrisFromHanded ==
    ASSUME NEW o, NEW C, NEW f, NEW P, NEW K, NEW t, NEW G, NEW H,
           Walk(o, C, f, P, K, G), MorrisAt(o, f, P, K, t, G), G.pc = "handed", G.current # NULL,
           H.from = G.from, H.root = t.left[G.root], H.failed = G.failed, H.seen = G.seen, H.pc = "head"
    PROVE  /\ MorrisAt(o, f, P, K, WithRight(t, G.current, G.root), H) /\ Walk(o, C, f, P, K, H)
           /\ G.current \in C /\ G.root \in C
<1> DEFINE r == G.root
<1>1. /\ r \in f[G.from] /\ G.failed \in BOOLEAN
      /\ Threaded(o, f, Above(o, f, G.from, r), t) /\ Seen(P, G, FromLeft(o, P, K, r))
      /\ Precedes(o, f, r, G.current)
  BY DEF MorrisAt, Walk, MorrisFirst, MorrisSecond
<1>r. r \in f[G.from]
  BY <1>1
<1>2. /\ Shape(o, C, f) /\ r \in C /\ G.from \in C
      /\ Above(o, f, G.from, r) \subseteq C /\ r \notin Above(o, f, G.from, r)
  BY <1>r, WalkRoot
<1>3. Threaded(o, f, Above(o, f, G.from, r) \cup {r}, WithRight(t, G.current, r))
  BY <1>1, <1>2, ThreadTied
<1>4. t.left = o.left
  BY <1>1 DEF Threaded
<1>5. o.left[r] # NULL /\ G.current \in C
  BY <1>1, <1>2, LinksOf DEF Precedes
<1>6. o.left[r] \in f[G.from] /\ Above(o, f, G.from, o.left[r]) = Above(o, f, G.from, r) \cup {r}
  BY <1>1, <1>2, <1>5, AboveLeft
<1>7. FromHere(P, K, o.left[r]) = FromLeft(o, P, K, r)
  BY <1>r, <1>5, RestsLink DEF RestsLinked
<1>8. Seen(P, H, FromHere(P, K, o.left[r]))
  BY <1>1, <1>7, SeenSame
<1>9. Walk(o, C, f, P, K, H)
  BY <1>1, WalkSame
<1>10. H.root = o.left[r]
  BY <1>4
<1>11. MorrisFirst(o, f, P, K, WithRight(t, G.current, r), H)
  BY <1>3, <1>6, <1>8, <1>10 DEF MorrisFirst
<1> QED
  BY <1>2, <1>5, <1>6, <1>9, <1>10, <1>11 DEF MorrisAt

LEMMA MorrisFromNext ==
    ASSUME NEW o, NEW C, NEW f, NEW P, NEW K, NEW t, NEW G, NEW H,
           Walk(o, C, f, P, K, G), MorrisAt(o, f, P, K, t, G),
           G.pc = "next" \/ (G.pc = "handed" /\ G.current = NULL),
           H.from = G.from, H.root = t.right[G.root], H.failed = G.failed, H.seen = G.seen, H.pc = "head"
    PROVE  MorrisAt(o, f, P, K, t, H) /\ Walk(o, C, f, P, K, H)
<1> DEFINE r == G.root
           s == G.from
<1>1. /\ r \in f[s] /\ G.failed \in BOOLEAN
      /\ Threaded(o, f, Above(o, f, s, r), t)
      /\ \/ Seen(P, G, FromRight(o, P, K, r))
         \/ Seen(P, G, FromLeft(o, P, K, r)) /\ o.left[r] = NULL
  BY DEF MorrisAt, Walk, MorrisFirst, MorrisSecond
<1>r. r \in f[G.from]
  BY <1>1
<1>2. /\ Shape(o, C, f) /\ r \in C /\ s \in C /\ r \in Keys /\ r # NULL
      /\ Above(o, f, s, r) \subseteq C /\ r \notin Above(o, f, s, r)
      /\ Continued(o, f, P, s, K)
  BY <1>r, WalkRoot
<1>3. Seen(P, G, FromRight(o, P, K, r))
  BY <1>r, <1>1, RestsLink DEF RestsLinked
<1>4. Walk(o, C, f, P, K, H)
  BY <1>1, WalkSame
<1>5. CASE o.right[r] # NULL
  <2>1. t.right[r] = o.right[r]
    <3>1. Threaded(o, f, Above(o, f, s, r), t)
      BY <1>1
    <3>2. Above(o, f, s, r) \subseteq C /\ Shape(o, C, f) /\ r \in C
      BY <1>2
    <3> HIDE DEF r, s
    <3> QED
      BY <1>5, <3>1, <3>2, ThreadsRight
  <2>2. o.right[r] \in f[s] /\ Above(o, f, s, o.right[r]) = Above(o, f, s, r)
    BY <1>1, <1>2, <1>5, AboveRight
  <2>3. FromHere(P, K, o.right[r]) = FromRight(o, P, K, r)
    BY <1>r, <1>5, RestsLink DEF RestsLinked
  <2>4. Seen(P, H, FromHere(P, K, o.right[r]))
    BY <1>1, <1>3, <2>3, SeenSame
  <2>5. MorrisFirst(o, f, P, K, t, H)
    BY <1>1, <2>1, <2>2, <2>4 DEF MorrisFirst
  <2> QED
    BY <1>4, <2>1, <2>2, <2>5 DEF MorrisAt
<1>6. CASE o.right[r] = NULL
  <2>1. FromRight(o, P, K, r) = K[r]
    BY <1>r, <1>6, RestsLink DEF RestsLinked
  <2>2. \/ Above(o, f, s, r) = {} /\ K[r] = << >>
        \/ \E b : Follows(o, f, P, s, K, r, b)
    BY <1>1, <1>2, Successor DEF Continued
  <2>3. CASE Above(o, f, s, r) = {} /\ K[r] = << >>
    <3>1. t = o
      BY <1>1, <1>2, <2>3, ThreadsNone DEF Shape
    <3>2. Seen(P, H, << >>)
      BY <1>1, <1>3, <2>1, <2>3, SeenSame
    <3> QED
      BY <1>4, <1>6, <3>1, <3>2 DEF MorrisAt
  <2>4. ASSUME NEW b, Follows(o, f, P, s, K, r, b)
        PROVE  MorrisAt(o, f, P, K, t, H)
    <3>1. b \in f[s] /\ Precedes(o, f, b, r)
      BY <1>1, <1>2, <1>6, <2>4, LastToTheLeft
    <3>2. /\ b \in Above(o, f, s, r) /\ K[r] = FromRight(o, P, K, b)
          /\ Above(o, f, s, r) = Above(o, f, s, b) \cup {b}
      BY <2>4 DEF Follows, FromRight
    <3>3. t.right[r] = b
      BY <1>1, <1>2, <3>1, <3>2 DEF Threaded
    <3>4. o.left[b] # NULL
      BY <1>2, <3>1 DEF Precedes, Shape
    <3>5. Seen(P, H, FromRight(o, P, K, b))
      BY <1>1, <1>3, <2>1, <3>2, SeenSame
    <3>6. MorrisSecond(o, f, P, K, t, H)
      BY <1>1, <3>2, <3>3, <3>4, <3>5 DEF MorrisSecond
    <3> QED
      BY <3>1, <3>3, <3>6 DEF MorrisAt
  <2> QED
    BY <1>4, <2>2, <2>3, <2>4
<1> QED
  BY <1>5, <1>6

\* The user function returns, or what it called does.
LEMMA MorrisFromCalled ==
    ASSUME NEW o, NEW C, NEW f, NEW P, NEW K, NEW t, NEW G, NEW H,
           Walk(o, C, f, P, K, G), MorrisAt(o, f, P, K, t, G), G.pc \in {"called", "answered"},
           H.from = G.from, H.root = G.root, H.current = G.current, H.seen = G.seen,
           \/ H.pc = "handed" /\ H.failed \in BOOLEAN
           \/ H.pc = "answered" /\ H.failed = G.failed
    PROVE  MorrisAt(o, f, P, K, t, H) /\ Walk(o, C, f, P, K, H)
<1> DEFINE r == G.root
<1>1. /\ r \in f[G.from] /\ G.failed \in BOOLEAN /\ H.failed \in BOOLEAN
      /\ Threaded(o, f, Above(o, f, G.from, r), t) /\ Seen(P, G, FromLeft(o, P, K, r))
      /\ G.current = NULL => o.left[r] = NULL
      /\ G.current # NULL => Precedes(o, f, r, G.current)
      /\ ~G.failed
  BY DEF MorrisAt, Walk, MorrisFirst, MorrisSecond
<1>2. Seen(P, H, FromLeft(o, P, K, r))
  BY <1>1, SeenSame
<1>3. Walk(o, C, f, P, K, H)
  BY <1>1, WalkSame
<1> QED
  BY <1>1, <1>2, <1>3 DEF MorrisAt, MorrisFirst

\* A traversal begins.
LEMMA SeenNothing ==
    ASSUME NEW o, NEW C, NEW f, NEW P, NEW K, NEW G, Walk(o, C, f, P, K, G), G.seen = << >>
    PROVE  /\ G.from = NULL => Seen(P, G, << >>)
           /\ G.from # NULL => Seen(P, G, FromHere(P, K, G.from))
<1>1. \A z \in Seq(Keys) : z \o << >> = z /\ << >> \o z = z
  OBVIOUS
<1>2. << >> \in Seq(Keys)
  OBVIOUS
<1>3. ASSUME G.from = NULL PROVE Seen(P, G, << >>)
  <2>1. P[G.from] = << >>
    BY <1>3 DEF Walk, Preordered
  <2> QED
    BY <1>1, <1>2, <2>1 DEF Seen
<1>4. ASSUME G.from # NULL PROVE Seen(P, G, FromHere(P, K, G.from))
  <2>1. G.from \in C
    BY <1>4 DEF Walk
  <2>2. K[G.from] = << >> /\ P[G.from] \in Seq(Keys)
    BY <2>1 DEF Walk, Preordered, Continued, Continues
  <2>3. FromHere(P, K, G.from) = P[G.from]
    BY <1>1, <2>2 DEF FromHere
  <2> QED
    BY <1>1, <2>2, <2>3 DEF Seen
<1> QED
  BY <1>3, <1>4

LEMMA MorrisBegins ==
    ASSUME NEW o, NEW C, NEW f, NEW P, NEW K, NEW G, Walk(o, C, f, P, K, G),
           G.seen = << >>, G.root = G.from, G.pc = "head"
    PROVE  MorrisAt(o, f, P, K, o, G)
<1>1. Shape(o, C, f) /\ G.from \in C \cup {NULL}
  BY DEF Walk
<1>2. CASE G.from = NULL
  BY <1>2, SeenNothing DEF MorrisAt
<1>3. CASE G.from # NULL
  <2>1. G.from \in f[G.from] /\ Above(o, f, G.from, G.from) = {} /\ o \in Trees
    BY <1>1, <1>3, AboveSelf, LinksOf DEF Shape
  <2>2. Threaded(o, f, {}, o)
    BY <2>1, ThreadsNone
  <2>3. MorrisFirst(o, f, P, K, o, G)
    BY <1>3, <2>1, <2>2, SeenNothing DEF MorrisFirst
  <2> QED
    BY <2>1, <2>3 DEF MorrisAt
<1> QED
  BY <1>2, <1>3

LEMMA MorrisEnds ==
    ASSUME NEW o, NEW C, NEW f, NEW P, NEW K, NEW t, NEW G, Walk(o, C, f, P, K, G),
           MorrisAt(o, f, P, K, t, G), G.root = NULL
    PROVE  t = o /\ Seen(P, G, << >>)
<1>1. G.root \notin f[G.from]
  BY WalkRoot
<1> QED
  BY <1>1 DEF MorrisAt

-----------------------------------------------------------------------------
(***************************************************************************)
(* An iterate.  Above the node x where it is, the nodes are marked that it *)
(* has gone left from, and doubly those that it has gone right from.       *)
(***************************************************************************)
Marks(o, f, s, x, l, r, lv, rv) ==
    /\ lv \in [Keys -> BOOLEAN] /\ rv \in [Keys -> BOOLEAN]
    /\ lv[x] <=> l
    /\ rv[x] <=> r
    /\ \A w \in Keys : w # x => /\ lv[w] <=> (w \in f[s] /\ x \in f[w])
                                /\ rv[w] <=> (w \in f[s] /\ x \in f[o.right[w]])

NoMarks(lv, rv) == lv = [x \in Keys |-> FALSE] /\ rv = [x \in Keys |-> FALSE]

IterateAt(o, f, P, K, lv, rv, G) ==
    LET x == G.current
        s == G.from
    IN
    \/ x = NULL /\ s = NULL /\ G.pc \in {"head", "crashed"} /\ NoMarks(lv, rv) /\ Seen(P, G, << >>)
    \/ /\ x \in f[s]
       /\ \/ G.pc = "head" /\ Marks(o, f, s, x, FALSE, FALSE, lv, rv) /\ Seen(P, G, FromHere(P, K, x))
          \/ /\ G.pc \in {"called", "answered", "handed"} /\ Marks(o, f, s, x, FALSE, FALSE, lv, rv)
             /\ G.pc # "handed" => ~G.failed
             /\ Seen(P, G, FromLeft(o, P, K, x))
          \/ G.pc = "head" /\ Marks(o, f, s, x, TRUE, FALSE, lv, rv) /\ Seen(P, G, FromRight(o, P, K, x))
          \/ G.pc = "head" /\ Marks(o, f, s, x, TRUE, TRUE, lv, rv) /\ Seen(P, G, K[x])

\* A node y is below the same nodes as its parent x, but for the two.
LEMMA ChildBelowSame ==
    ASSUME NEW o, NEW C, NEW f, Shape(o, C, f), NEW x \in C, NEW y \in {o.left[x], o.right[x]}, y # NULL
    PROVE  /\ y \in C /\ x # y /\ y \in f[x] /\ x \notin f[y] /\ x \notin f[o.right[y]]
           /\ y = o.right[x] <=> y \in f[o.right[x]]
           /\ x \notin f[o.right[x]] /\ y \notin f[o.right[y]]
           /\ \A w \in C \ {x, y} : /\ y \in f[w] <=> x \in f[w]
                                    /\ y \in f[o.right[w]] <=> x \in f[o.right[w]]
<1>1. /\ y \in C /\ x # y /\ y \in f[x] /\ x \notin f[y] /\ o.parent[y] = x /\ y \in f[y]
      /\ y = o.right[x] <=> y \in f[o.right[x]]
      /\ x \notin f[o.right[x]] /\ x \in f[x]
  BY LinksOf
<1>2. y \notin f[o.right[y]] /\ x \notin f[o.right[y]]
  BY <1>1, LinksOf
<1>3. ASSUME NEW z \in C, z # y PROVE y \in f[z] <=> x \in f[z]
  <2>1. ASSUME x \in f[z] PROVE y \in f[z]
    BY <1>1, <2>1, BelowTransitive
  <2>2. ASSUME y \in f[z] PROVE x \in f[z]
    BY <1>1, <1>3, <2>2, ParentBelow
  <2> QED
    BY <2>1, <2>2
<1>4. ASSUME NEW w \in C, w # x, w # y PROVE y \in f[o.right[w]] <=> x \in f[o.right[w]]
  <2>1. o.right[w] \in C \cup {NULL} /\ f[NULL] = {} /\ (o.right[w] # NULL => o.parent[o.right[w]] = w)
    BY LinksOf
  <2>2. o.right[w] # y
    BY <1>1, <1>4, <2>1
  <2> QED
    BY <1>3, <2>1, <2>2
<1> QED
  BY <1>1, <1>2, <1>3, <1>4

LEMMA NotBelowEachOther ==
    ASSUME NEW o, NEW C, NEW f, Shape(o, C, f), NEW a \in C, NEW b \in C, a # b, a \in f[b], b \in f[a]
    PROVE  FALSE
<1>1. f[a] \subseteq f[b] /\ f[b] \subseteq f[a]
  BY BelowTransitive
<1>2. PICK c \in {o.left[b], o.right[b]} : a \in f[c]
  BY LinksOf
<1>3. c \in C /\ b \notin f[c]
  BY <1>2, LinksOf
<1>4. f[a] \subseteq f[c]
  BY <1>2, <1>3, BelowTransitive
<1> QED
  BY <1>3, <1>4

\* Down a link, or up one: all marks but those of the two nodes are right.
LEMMA MarksMove ==
    ASSUME NEW o, NEW C, NEW f, Shape(o, C, f), NEW s \in C, NEW x \in f[s],
           NEW y \in {o.left[x], o.right[x]}, y # NULL
    PROVE  /\ x \in C /\ y \in f[s] /\ x # y /\ x \in Keys /\ y \in Keys
           /\ \A w \in Keys \ {x, y} : /\ (w \in f[s] /\ x \in f[w]) <=> (w \in f[s] /\ y \in f[w])
                                       /\ (w \in f[s] /\ x \in f[o.right[w]]) <=> (w \in f[s] /\ y \in f[o.right[w]])
           /\ y \in f[x] /\ (y \in f[o.right[x]] <=> y = o.right[x])
           /\ x \notin f[y] /\ x \notin f[o.right[y]]
<1>1. x \in C /\ f[x] \subseteq f[s] /\ f[s] \subseteq C /\ C \subseteq Keys
  BY BelowTransitive, BelowSelf DEF Shape
<1>2. /\ y \in C /\ x # y /\ y \in f[x] /\ x \notin f[y] /\ x \notin f[o.right[y]]
      /\ y = o.right[x] <=> y \in f[o.right[x]]
      /\ \A w \in C \ {x, y} : /\ y \in f[w] <=> x \in f[w]
                               /\ y \in f[o.right[w]] <=> x \in f[o.right[w]]
  BY <1>1, ChildBelowSame
<1> QED
  BY <1>1, <1>2

LEMMA IterateFromFirst ==
    ASSUME NEW o, NEW C, NEW f, NEW P, NEW K, NEW lv, NEW rv, NEW G, NEW H,
           Walk(o, C, f, P, K, G), IterateAt(o, f, P, K, lv, rv, G),
           G.pc = "head", G.current # NULL, ~lv[G.current], ~rv[G.current],
           H.from = G.from, H.current = G.current, H.failed = G.failed,
           IF G.failed THEN H.pc = "handed" /\ H.seen = G.seen
           ELSE H.pc = "called" /\ H.seen = Append(G.seen, G.current)
    PROVE  IterateAt(o, f, P, K, lv, rv, H) /\ Walk(o, C, f, P, K, H)
<1> DEFINE x == G.current
<1>1. /\ x \in f[G.from]
      /\ Marks(o, f, G.from, x, FALSE, FALSE, lv, rv) /\ Seen(P, G, FromHere(P, K, x))
  BY DEF IterateAt, Marks
<1>2. /\ IF G.failed THEN H.seen = G.seen ELSE H.seen = Append(G.seen, x)
      /\ H.pc \in {"called", "handed"} /\ (H.pc # "handed" => ~H.failed)
  OBVIOUS
<1>3. Seen(P, H, FromLeft(o, P, K, x)) /\ Walk(o, C, f, P, K, H)
  BY <1>1, <1>2, HandedOut
<1> QED
  BY <1>1, <1>2, <1>3 DEF IterateAt

LEMMA IterateFromHanded ==
    ASSUME NEW o, NEW C, NEW f, NEW P, NEW K, NEW lv, NEW rv, NEW G, NEW H,
           Walk(o, C, f, P, K, G), IterateAt(o, f, P, K, lv, rv, G), G.pc = "handed",
           H.from = G.from, H.failed = G.failed, H.seen = G.seen, H.pc = "head",
           H.current = (IF o.left[G.current] # NULL THEN o.left[G.current] ELSE G.current)
    PROVE  IterateAt(o, f, P, K, [lv EXCEPT ![G.current] = TRUE], rv, H) /\ Walk(o, C, f, P, K, H)
<1> SUFFICES ASSUME NEW l, l = [lv EXCEPT ![G.current] = TRUE]
             PROVE  IterateAt(o, f, P, K, l, rv, H) /\ Walk(o, C, f, P, K, H)
  OBVIOUS
<1> DEFINE x == G.current
           s == G.from
<1>1. /\ x \in f[s] /\ Marks(o, f, s, x, FALSE, FALSE, lv, rv) /\ Seen(P, G, FromLeft(o, P, K, x))
  BY DEF IterateAt
<1>2. Shape(o, C, f) /\ s \in C /\ x \in C /\ x \in Keys
  BY <1>1, WalkRoot
<1>3. Walk(o, C, f, P, K, H) /\ G.failed \in BOOLEAN
  <2>1. G.failed \in BOOLEAN
    BY DEF Walk
  <2> QED
    BY <2>1, WalkSame
<1>4. RestsLinked(o, P, K, x)
  BY <1>1, RestsLink
<1>5. /\ l \in [Keys -> BOOLEAN] /\ l[x] /\ \A w \in Keys : w # x => (l[w] <=> lv[w])
  BY <1>1, <1>2 DEF Marks
<1>6. CASE o.left[x] = NULL
  <2>1. Marks(o, f, s, x, TRUE, FALSE, l, rv)
    BY <1>1, <1>5 DEF Marks
  <2>2. Seen(P, H, FromRight(o, P, K, x))
    BY <1>1, <1>3, <1>4, <1>6, SeenSame DEF RestsLinked
  <2> QED
    BY <1>1, <1>3, <1>6, <2>1, <2>2 DEF IterateAt
<1>7. CASE o.left[x] # NULL
  <2> DEFINE y == o.left[x]
  <2>1. /\ y \in f[s] /\ x # y /\ y \in Keys
        /\ \A w \in Keys \ {x, y} : /\ (w \in f[s] /\ x \in f[w]) <=> (w \in f[s] /\ y \in f[w])
                                    /\ (w \in f[s] /\ x \in f[o.right[w]]) <=> (w \in f[s] /\ y \in f[o.right[w]])
        /\ y \in f[x] /\ (y \in f[o.right[x]] <=> y = o.right[x])
        /\ x \notin f[y] /\ x \notin f[o.right[y]]
    BY <1>1, <1>2, <1>7, MarksMove
  <2>2. y # o.right[x]
    BY <1>2, <1>7, LinksOf
  <2>3. Marks(o, f, s, y, FALSE, FALSE, l, rv)
    <3> HIDE DEF y
    <3> QED
      BY <1>1, <1>2, <1>5, <2>1, <2>2 DEF Marks
  <2>4. Seen(P, H, FromHere(P, K, y))
    BY <1>1, <1>3, <1>4, <1>7, SeenSame DEF RestsLinked
  <2> QED
    BY <1>1, <1>3, <1>7, <2>1, <2>3, <2>4 DEF IterateAt
<1> QED
  BY <1>6, <1>7

LEMMA IterateFromRight ==
    ASSUME NEW o, NEW C, NEW f, NEW P, NEW K, NEW lv, NEW rv, NEW G,
           Walk(o, C, f, P, K, G), IterateAt(o, f, P, K, lv, rv, G), G.pc = "head",
           G.current # NULL, lv[G.current], ~rv[G.current]
    PROVE  \A H : /\ H.from = G.from /\ H.failed = G.failed /\ H.seen = G.seen /\ H.pc = "head"
                  /\ H.current = (IF o.right[G.current] # NULL THEN o.right[G.current] ELSE G.current)
                  => /\ IterateAt(o, f, P, K, lv, [rv EXCEPT ![G.current] = TRUE], H)
                     /\ Walk(o, C, f, P, K, H)
<1> SUFFICES ASSUME NEW H, H.from = G.from, H.failed = G.failed, H.seen = G.seen, H.pc = "head",
                    H.current = (IF o.right[G.current] # NULL THEN o.right[G.current] ELSE G.current),
                    NEW r, r = [rv EXCEPT ![G.current] = TRUE]
             PROVE  IterateAt(o, f, P, K, lv, r, H) /\ Walk(o, C, f, P, K, H)
  OBVIOUS
<1> DEFINE x == G.current
           s == G.from
<1>1. /\ x \in f[s] /\ Marks(o, f, s, x, TRUE, FALSE, lv, rv) /\ Seen(P, G, FromRight(o, P, K, x))
  BY DEF IterateAt, Marks
<1>2. Shape(o, C, f) /\ s \in C /\ x \in C /\ x \in Keys
  BY <1>1, WalkRoot
<1>3. Walk(o, C, f, P, K, H) /\ G.failed \in BOOLEAN
  <2>1. G.failed \in BOOLEAN
    BY DEF Walk
  <2> QED
    BY <2>1, WalkSame
<1>4. RestsLinked(o, P, K, x)
  BY <1>1, RestsLink
<1>5. /\ r \in [Keys -> BOOLEAN] /\ r[x] /\ \A w \in Keys : w # x => (r[w] <=> rv[w])
  BY <1>1, <1>2 DEF Marks
<1>6. CASE o.right[x] = NULL
  <2>1. Marks(o, f, s, x, TRUE, TRUE, lv, r)
    BY <1>1, <1>5 DEF Marks
  <2>2. Seen(P, H, K[x])
    BY <1>1, <1>3, <1>4, <1>6, SeenSame DEF RestsLinked
  <2> QED
    BY <1>1, <1>3, <1>6, <2>1, <2>2 DEF IterateAt
<1>7. CASE o.right[x] # NULL
  <2> DEFINE y == o.right[x]
  <2>1. /\ y \in f[s] /\ x # y /\ y \in Keys
        /\ \A w \in Keys \ {x, y} : /\ (w \in f[s] /\ x \in f[w]) <=> (w \in f[s] /\ y \in f[w])
                                    /\ (w \in f[s] /\ x \in f[o.right[w]]) <=> (w \in f[s] /\ y \in f[o.right[w]])
        /\ y \in f[x] /\ (y \in f[o.right[x]] <=> y = o.right[x])
        /\ x \notin f[y] /\ x \notin f[o.right[y]]
    BY <1>1, <1>2, <1>7, MarksMove
  <2>2. y = o.right[x]
    OBVIOUS
  <2>3. Marks(o, f, s, y, FALSE, FALSE, lv, r)
    <3> HIDE DEF y
    <3> QED
      BY <1>1, <1>2, <1>5, <2>1, <2>2 DEF Marks
  <2>4. Seen(P, H, FromHere(P, K, y))
    BY <1>1, <1>3, <1>4, <1>7, SeenSame DEF RestsLinked
  <2> QED
    BY <1>1, <1>3, <1>7, <2>1, <2>3, <2>4 DEF IterateAt
<1> QED
  BY <1>6, <1>7

LEMMA IterateFromUp ==
    ASSUME NEW o, NEW C, NEW f, NEW P, NEW K, NEW lv, NEW rv, NEW G,
           Walk(o, C, f, P, K, G), IterateAt(o, f, P, K, lv, rv, G), G.pc = "head",
           G.current # NULL, lv[G.current], rv[G.current]
    PROVE  /\ G.current = G.from => /\ NoMarks([lv EXCEPT ![G.current] = FALSE], [rv EXCEPT ![G.current] = FALSE])
                                 /\ Seen(P, G, << >>)
           /\ G.current # G.from =>
                \A H : /\ H.from = G.from /\ H.failed = G.failed /\ H.seen = G.seen /\ H.pc = "head"
                       /\ H.current = o.parent[G.current]
                       => /\ IterateAt(o, f, P, K, [lv EXCEPT ![G.current] = FALSE],
                                       [rv EXCEPT ![G.current] = FALSE], H)
                          /\ Walk(o, C, f, P, K, H)
<1> SUFFICES ASSUME NEW l, l = [lv EXCEPT ![G.current] = FALSE], NEW r, r = [rv EXCEPT ![G.current] = FALSE]
             PROVE  /\ G.current = G.from => NoMarks(l, r) /\ Seen(P, G, << >>)
                    /\ G.current # G.from =>
                         \A H : /\ H.from = G.from /\ H.failed = G.failed /\ H.seen = G.seen /\ H.pc = "head"
                                /\ H.current = o.parent[G.current]
                                => IterateAt(o, f, P, K, l, r, H) /\ Walk(o, C, f, P, K, H)
  OBVIOUS
<1> DEFINE x == G.current
           s == G.from
<1>1. /\ x \in f[s] /\ Marks(o, f, s, x, TRUE, TRUE, lv, rv) /\ Seen(P, G, K[x])
  BY DEF IterateAt, Marks
<1>2. Shape(o, C, f) /\ s \in C /\ x \in C /\ x \in Keys /\ C \subseteq Keys
  BY <1>1, WalkRoot DEF Shape
<1>3. G.failed \in BOOLEAN
  BY DEF Walk
<1>4. /\ l \in [Keys -> BOOLEAN] /\ ~l[x] /\ \A w \in Keys : w # x => (l[w] <=> lv[w])
      /\ r \in [Keys -> BOOLEAN] /\ ~r[x] /\ \A w \in Keys : w # x => (r[w] <=> rv[w])
  BY <1>1, <1>2 DEF Marks
<1>5. CASE x = s
  <2>1. ASSUME NEW w \in Keys PROVE ~l[w] /\ ~r[w]
    <3>1. CASE w = s
      BY <1>4, <1>5, <3>1
    <3>2. CASE w # s /\ w \in f[s]
      <4>1. w \in C /\ f[o.right[w]] \subseteq f[w] /\ s \in C
        BY <1>2, <3>2, BelowTransitive, LinksOf
      <4>2. s \notin f[w]
        <5> SUFFICES ASSUME s \in f[w] PROVE FALSE
          OBVIOUS
        <5>1. s # w /\ w \in f[s]
          BY <3>2
        <5> QED
          BY <1>2, <4>1, <5>1, NotBelowEachOther
      <4> QED
        BY <1>1, <1>4, <1>5, <3>2, <4>1, <4>2 DEF Marks
    <3>3. CASE w \notin f[s]
      BY <1>1, <1>2, <1>4, <1>5, <3>3 DEF Marks
    <3> QED
      BY <3>1, <3>2, <3>3
  <2>2. NoMarks(l, r)
    BY <1>4, <2>1 DEF NoMarks
  <2>3. K[x] = << >>
    <3>1. Continues(o, f, P, s, << >>, K)
      BY <1>1, WalkRoot DEF Continued
    <3> QED
      BY <1>5, <3>1 DEF Continues
  <2> QED
    BY <1>1, <1>5, <2>2, <2>3
<1>6. CASE x # s
  <2> DEFINE y == o.parent[x]
  <2>1. y \in f[s] /\ y \in C /\ x \in {o.left[y], o.right[y]}
    <3>1. y \in f[s] /\ y \in C /\ \E d \in Sides : Child(o, y, d) = x
      BY <1>1, <1>2, <1>6, ParentBelow
    <3> QED
      BY <3>1 DEF Sides, Child
  <2>2. x # NULL
    BY <1>2, LinksOf
  <2>3. /\ x # y /\ y \in Keys
        /\ \A w \in Keys \ {x, y} : /\ (w \in f[s] /\ y \in f[w]) <=> (w \in f[s] /\ x \in f[w])
                                    /\ (w \in f[s] /\ y \in f[o.right[w]]) <=> (w \in f[s] /\ x \in f[o.right[w]])
        /\ x \in f[y] /\ (x \in f[o.right[y]] <=> x = o.right[y])
        /\ y \notin f[x] /\ y \notin f[o.right[x]]
    <3> HIDE DEF x, y
    <3> QED
      BY <1>2, <2>1, <2>2, MarksMove
  <2>4. RestsLinked(o, P, K, y)
    <3> HIDE DEF y
    <3> QED
      BY <2>1, RestsLink
  <2>5. Marks(o, f, s, y, TRUE, x = o.right[y], l, r)
    <3> HIDE DEF x, y, s
    <3> QED
      BY <1>1, <1>2, <1>4, <2>1, <2>3 DEF Marks
  <2>6. Continues(o, f, P, s, << >>, K)
    BY <1>1, WalkRoot DEF Continued
  <2>7. /\ x = o.left[y] => K[x] = FromRight(o, P, K, y)
        /\ x = o.right[y] => K[x] = K[y]
    <3> HIDE DEF x, y, s
    <3> QED
      BY <2>1, <2>2, <2>6 DEF Continues, FromRight
  <2>8. ASSUME NEW H, H.from = G.from, H.failed = G.failed, H.seen = G.seen, H.pc = "head", H.current = y
        PROVE  IterateAt(o, f, P, K, l, r, H) /\ Walk(o, C, f, P, K, H)
    <3>1. Walk(o, C, f, P, K, H)
      BY <1>3, <2>8, WalkSame
    <3>2. CASE x = o.right[y]
      <4>1. Seen(P, H, K[y])
        BY <1>1, <1>3, <2>7, <2>8, <3>2, SeenSame
      <4>2. Marks(o, f, s, y, TRUE, TRUE, l, r)
        BY <2>5, <3>2
      <4> QED
        BY <2>1, <2>8, <3>1, <4>1, <4>2 DEF IterateAt
    <3>3. CASE x # o.right[y]
      <4>1. Seen(P, H, FromRight(o, P, K, y))
        BY <1>1, <1>3, <2>1, <2>7, <2>8, <3>3, SeenSame
      <4>2. Marks(o, f, s, y, TRUE, FALSE, l, r)
        BY <2>5, <3>3
      <4> QED
        BY <2>1, <2>8, <3>1, <4>1, <4>2 DEF IterateAt
    <3> QED
      BY <3>2, <3>3
  <2> QED
    BY <1>6, <2>8
<1> QED
  BY <1>5, <1>6

LEMMA IterateFromCalled ==
    ASSUME NEW o, NEW C, NEW f, NEW P, NEW K, NEW lv, NEW rv, NEW G, NEW H,
           Walk(o, C, f, P, K, G), IterateAt(o, f, P, K, lv, rv, G), G.pc \in {"called", "answered"},
           H.from = G.from, H.current = G.current, H.seen = G.seen,
           \/ H.pc = "handed" /\ H.failed \in BOOLEAN
           \/ H.pc = "answered" /\ H.failed = G.failed
    PROVE  IterateAt(o, f, P, K, lv, rv, H) /\ Walk(o, C, f, P, K, H)
<1> DEFINE x == G.current
<1>1. /\ x \in f[G.from] /\ ~G.failed
      /\ Marks(o, f, G.from, x, FALSE, FALSE, lv, rv) /\ Seen(P, G, FromLeft(o, P, K, x))
  BY DEF IterateAt
<1>2. G.failed \in BOOLEAN /\ H.failed \in BOOLEAN
  BY DEF Walk
<1>3. Seen(P, H, FromLeft(o, P, K, x))
  BY <1>1, <1>2, SeenSame
<1>4. Walk(o, C, f, P, K, H)
  BY <1>2, WalkSame
<1> QED
  BY <1>1, <1>3, <1>4 DEF IterateAt

LEMMA IterateBegins ==
    ASSUME NEW o, NEW C, NEW f, NEW P, NEW K, NEW lv, NEW rv, NEW G, Walk(o, C, f, P, K, G), NoMarks(lv, rv),
           G.seen = << >>, G.current = G.from, G.pc = "head"
    PROVE  IterateAt(o, f, P, K, lv, rv, G)
<1>1. Shape(o, C, f) /\ G.from \in C \cup {NULL}
  BY DEF Walk
<1>2. CASE G.from = NULL
  BY <1>2, SeenNothing DEF IterateAt
<1>3. CASE G.from # NULL
  <2> DEFINE s == G.from
  <2>1. s \in C /\ s \in f[s] /\ C \subseteq Keys
    BY <1>1, <1>3, LinksOf DEF Shape
  <2>2. ASSUME NEW w \in Keys, w # s PROVE ~(w \in f[s] /\ s \in f[w]) /\ ~(w \in f[s] /\ s \in f[o.right[w]])
    <3>1. ASSUME w \in f[s] PROVE s \notin f[w] /\ s \notin f[o.right[w]]
      <4>1. w \in C
        BY <1>1, <2>1, <3>1, BelowTransitive
      <4>2. f[o.right[w]] \subseteq f[w]
        BY <1>1, <4>1, LinksOf
      <4>3. s \notin f[w]
        BY <1>1, <2>1, <2>2, <3>1, <4>1, NotBelowEachOther
      <4> QED
        BY <4>2, <4>3
    <3> QED
      BY <3>1
  <2>3. Marks(o, f, s, s, FALSE, FALSE, lv, rv)
    <3> HIDE DEF s
    <3> QED
      BY <2>1, <2>2 DEF Marks, NoMarks
  <2>4. Seen(P, G, FromHere(P, K, s))
    BY <1>3, SeenNothing
  <2> QED
    BY <2>1, <2>3, <2>4 DEF IterateAt
<1> QED
  BY <1>2, <1>3

-----------------------------------------------------------------------------
(***************************************************************************)
(* Destroy, at node r.  Where a link is as it was, nothing below it has    *)
(* been touched; where it is cut, all below it is freed, or r is there.    *)
(***************************************************************************)
Uncut(o, f, t, fr, r, x, d) ==
    /\ Child(t, x, d) = Child(o, x, d)
    /\ Child(o, x, d) # NULL => f[Child(o, x, d)] \cap fr = {} /\ r \notin f[Child(o, x, d)]

Cut(o, f, t, fr, r, x, d) ==
    /\ Child(t, x, d) = NULL /\ Child(o, x, d) # NULL
    /\ f[Child(o, x, d)] \subseteq fr \/ r \in f[Child(o, x, d)]

Reduced(o, C, f, t, fr, r) ==
    /\ t \in Trees /\ t.root = o.root /\ t.parent = o.parent
    /\ \A x \in C, d \in Sides : Uncut(o, f, t, fr, r, x, d) \/ Cut(o, f, t, fr, r, x, d)
    /\ fr \subseteq C /\ (\A x \in fr : f[x] \subseteq fr)
    /\ r \in C \cup {NULL} /\ r \notin fr

DestroyAt(o, C, f, t, fr, G) ==
    /\ Shape(o, C, f) /\ Reduced(o, C, f, t, fr, G.root) /\ G.seen \in Seq(Keys)
    /\ \/ /\ G.pc = "head" /\ (G.root = NULL => fr = C)
          /\ Len(G.seen) = Cardinality(fr)
       \/ /\ G.pc \in {"called", "answered", "handed"} /\ G.root \in C
          /\ \A d \in Sides : Child(t, G.root, d) = NULL
          /\ Len(G.seen) = Cardinality(fr) + 1

LEMMA ChildOf ==
    ASSUME NEW o, NEW C, NEW f, Shape(o, C, f), NEW x \in C, NEW d \in Sides, NEW c, c = Child(o, x, d)
    PROVE  /\ c \in C \cup {NULL} /\ f[c] \subseteq f[x] /\ x \notin f[c] /\ f[c] \subseteq C
           /\ c # NULL => c \in C /\ c \in f[c] /\ c \in f[x] /\ o.parent[c] = x /\ c # x
           /\ f[x] = {x} \cup f[Child(o, x, 0)] \cup f[Child(o, x, 1)]
<1>1. Linked(o, C, f, x)
  BY DEF Shape
<1>2. c \in C \cup {NULL} /\ (c # NULL => o.parent[c] = x) /\ f[x] = {x} \cup f[Child(o, x, 0)] \cup f[Child(o, x, 1)]
  BY <1>1 DEF Linked
<1>3. f[c] \subseteq f[x] /\ x \notin f[c] /\ c # x /\ f[x] \subseteq C
  BY BelowSelf
<1>4. c \in C => c \in f[c]
  BY BelowSelf
<1> QED
  BY <1>2, <1>3, <1>4

LEMMA DestroyBegins ==
    ASSUME NEW o, NEW C, NEW f, Shape(o, C, f), NEW G,
           G.seen = << >>, G.root = o.root, G.pc = "head"
    PROVE  DestroyAt(o, C, f, o, {}, G)
<1>1. o \in Trees /\ o.root \in C \cup {NULL} /\ f[o.root] = C /\ f[NULL] = {}
  BY DEF Shape
<1>2. ASSUME NEW x \in C, NEW d \in Sides PROVE Uncut(o, f, o, {}, o.root, x, d)
  <2>1. x \notin f[Child(o, x, d)] /\ Child(o, x, d) \in C \cup {NULL}
    BY ChildOf
  <2>2. ASSUME Child(o, x, d) # NULL, o.root \in f[Child(o, x, d)] PROVE FALSE
    <3>1. C \subseteq f[Child(o, x, d)]
      BY <1>1, <2>1, <2>2, BelowTransitive
    <3> QED
      BY <2>1, <3>1
  <2> QED
    BY <2>2 DEF Uncut
<1>3. Reduced(o, C, f, o, {}, o.root)
  BY <1>1, <1>2 DEF Reduced
<1>4. o.root = NULL => {} = C
  BY <1>1
<1>5. Len(<< >>) = 0 /\ << >> \in Seq(Keys) /\ Cardinality({}) = 0
  BY FS_EmptySet
<1> QED
  BY <1>3, <1>4, <1>5 DEF DestroyAt

LEMMA ReducedDown ==
    ASSUME NEW o, NEW C, NEW f, Shape(o, C, f), NEW t, NEW fr, NEW r \in C, Reduced(o, C, f, t, fr, r),
           NEW e \in Sides, Child(t, r, e) # NULL,
           NEW u, u \in Trees, u.root = t.root, u.parent = t.parent,
           \A x \in Keys, d \in Sides : Child(u, x, d) = IF x = r /\ d = e THEN NULL ELSE Child(t, x, d)
    PROVE  Reduced(o, C, f, u, fr, Child(t, r, e)) /\ Child(t, r, e) \in C
<1>1. PICK c : c = Child(o, r, e)
  OBVIOUS
<1>2. Uncut(o, f, t, fr, r, r, e)
  BY DEF Reduced, Cut
<1>3. c = Child(t, r, e) /\ c # NULL /\ f[c] \cap fr = {}
  BY <1>1, <1>2 DEF Uncut
<1>4. c \in C /\ c \in f[c] /\ c \in f[r] /\ o.parent[c] = r /\ c # r /\ C \subseteq Keys
  <2>1. C \subseteq Keys
    BY DEF Shape
  <2> QED
    <3>1. /\ c # NULL => c \in C /\ c \in f[c] /\ c \in f[r] /\ o.parent[c] = r /\ c # r
      BY <1>1, ChildOf
    <3> QED
      BY <1>3, <2>1, <3>1
<1>5. ASSUME NEW x \in C, NEW d \in Sides
      PROVE  Uncut(o, f, u, fr, c, x, d) \/ Cut(o, f, u, fr, c, x, d)
  <2>1. PICK b : b = Child(o, x, d)
    OBVIOUS
  <2>2. b \in C \cup {NULL} /\ (b # NULL => o.parent[b] = x) /\ f[NULL] = {}
    <3>1. b \in C \cup {NULL} /\ (b # NULL => o.parent[b] = x)
      BY <2>1, ChildOf
    <3>2. f[NULL] = {}
      BY DEF Shape
    <3> QED
      BY <3>1, <3>2
  <2>3. Child(u, x, d) = IF x = r /\ d = e THEN NULL ELSE Child(t, x, d)
    BY <1>4
  <2>4. CASE x = r /\ d = e
    BY <1>1, <1>3, <1>4, <2>1, <2>3, <2>4 DEF Cut
  <2>5. CASE ~(x = r /\ d = e) /\ Uncut(o, f, t, fr, r, x, d)
    <3>1. Child(u, x, d) = b /\ (b # NULL => f[b] \cap fr = {} /\ r \notin f[b])
      BY <2>1, <2>3, <2>5 DEF Uncut
    <3>2. ASSUME b # NULL, c \in f[b] PROVE FALSE
      <4>1. b \in C /\ r \notin f[b]
        BY <2>2, <3>1, <3>2
      <4>2. CASE c # b
        BY <1>4, <3>2, <4>1, <4>2, ParentBelow
      <4>3. CASE c = b
        <5>1. x = r /\ d # e
          BY <1>4, <2>2, <2>5, <3>2, <4>3
        <5>2. f[Child(o, r, 0)] \cap f[Child(o, r, 1)] = {}
          BY BelowSelf
        <5> QED
          BY <1>1, <1>4, <2>1, <4>3, <5>1, <5>2 DEF Sides
      <4> QED
        BY <4>2, <4>3
    <3> QED
      BY <2>1, <3>1, <3>2 DEF Uncut
  <2>6. CASE ~(x = r /\ d = e) /\ Cut(o, f, t, fr, r, x, d)
    <3>1. Child(u, x, d) = NULL /\ b # NULL /\ (f[b] \subseteq fr \/ r \in f[b])
      BY <2>1, <2>3, <2>6 DEF Cut
    <3>2. r \in f[b] => c \in f[b]
      BY <1>4, <2>2, BelowTransitive
    <3> QED
      BY <2>1, <3>1, <3>2 DEF Cut
  <2> QED
    BY <2>4, <2>5, <2>6 DEF Reduced
<1>6. Reduced(o, C, f, u, fr, c)
  BY <1>3, <1>4, <1>5 DEF Reduced
<1> QED
  BY <1>3, <1>4, <1>6

LEMMA ReducedFree ==
    ASSUME NEW o, NEW C, NEW f, Shape(o, C, f), NEW t, NEW fr, NEW r \in C, Reduced(o, C, f, t, fr, r),
           \A d \in Sides : Child(t, r, d) = NULL
    PROVE  /\ Reduced(o, C, f, t, fr \cup {r}, t.parent[r])
           /\ t.parent[r] = NULL => fr \cup {r} = C
           /\ r \notin fr /\ IsFiniteSet(fr)
<1>1. PICK q : q = o.parent[r]
  OBVIOUS
<1>2. PICK g : g = fr \cup {r}
  OBVIOUS
<1>3. t.parent[r] = q /\ r \notin fr /\ fr \subseteq C /\ g \subseteq C /\ \A x \in fr : f[x] \subseteq fr
  BY <1>1, <1>2 DEF Reduced
<1>4. ASSUME NEW d \in Sides PROVE f[Child(o, r, d)] \subseteq fr
  <2>1. PICK c : c = Child(o, r, d)
    OBVIOUS
  <2>2. c \in C \cup {NULL} /\ r \notin f[c] /\ f[NULL] = {}
    BY <2>1, ChildOf DEF Shape
  <2>3. Child(t, r, d) = NULL /\ (Uncut(o, f, t, fr, r, r, d) \/ Cut(o, f, t, fr, r, r, d))
    BY DEF Reduced
  <2> QED
    BY <2>1, <2>2, <2>3 DEF Uncut, Cut
<1>5. f[r] \subseteq g /\ r \in f[r]
  BY <1>2, <1>4, ChildOf, BelowSelf DEF Sides
<1>6. ASSUME NEW x \in g PROVE f[x] \subseteq g
  BY <1>2, <1>3, <1>5, <1>6
<1>7. CASE r = o.root
  <2>1. q = NULL /\ f[r] = C /\ NULL \notin C
    BY <1>1, <1>7, LinksOf DEF Shape
  <2>2. g = C
    BY <1>3, <1>5, <2>1
  <2>3. ASSUME NEW x \in C, NEW d \in Sides
        PROVE  Uncut(o, f, t, g, q, x, d) \/ Cut(o, f, t, g, q, x, d)
    <3>1. PICK b : b = Child(o, x, d)
      OBVIOUS
    <3>2. b \in C \cup {NULL} /\ f[b] \subseteq C /\ x \notin f[b]
      BY <3>1, ChildOf
    <3>3. CASE b = NULL
      BY <3>1, <3>3 DEF Reduced, Uncut, Cut
    <3>4. CASE b # NULL /\ Child(t, x, d) = NULL
      BY <2>2, <3>1, <3>2, <3>4 DEF Cut
    <3>5. CASE b # NULL /\ Child(t, x, d) # NULL
      <4>1. r \notin f[b] /\ f[b] \cap fr = {}
        BY <3>1, <3>5 DEF Reduced, Uncut, Cut
      <4>2. b \in f[b] /\ b \in C
        BY <3>1, <3>5, ChildOf
      <4> QED
        BY <1>2, <2>2, <4>1, <4>2
    <3> QED
      BY <3>3, <3>4, <3>5
  <2>4. Reduced(o, C, f, t, g, q)
    BY <1>6, <2>1, <2>2, <2>3 DEF Reduced
  <2> QED
    BY <1>2, <1>3, <2>2, <2>4, FS_Subset DEF Shape
<1>8. CASE r # o.root
  <2>1. /\ q \in C /\ r \in f[q] /\ q # r /\ NULL \notin C
    <3>1. o.root \in C /\ r \in f[o.root]
      BY DEF Shape
    <3>2. q \in C /\ r \in {Child(o, q, 0), Child(o, q, 1)}
      BY <1>1, <1>8, <3>1, ParentBelow DEF Sides
    <3>3. \A d \in Sides : Child(o, q, d) # NULL => Child(o, q, d) \in f[q] /\ Child(o, q, d) # q
      BY <3>2, ChildOf
    <3>4. NULL \notin C
      BY KeysAssumption DEF Shape
    <3> QED
      BY <3>2, <3>3, <3>4 DEF Sides
  <2>2. q \notin fr
    BY <1>3, <2>1
  <2>3. ASSUME NEW x \in C, NEW d \in Sides
        PROVE  Uncut(o, f, t, g, q, x, d) \/ Cut(o, f, t, g, q, x, d)
    <3>1. PICK b : b = Child(o, x, d)
      OBVIOUS
    <3>2. b \in C \cup {NULL} /\ f[NULL] = {} /\ (b # NULL => o.parent[b] = x /\ x \notin f[b])
      BY <3>1, ChildOf DEF Shape
    <3>3. CASE Uncut(o, f, t, fr, r, x, d)
      <4>1. Child(t, x, d) = b /\ (b # NULL => f[b] \cap fr = {} /\ r \notin f[b])
        BY <3>1, <3>3 DEF Uncut
      <4>2. b # NULL => q \notin f[b]
        <5> SUFFICES ASSUME b \in C, q \in f[b] PROVE r \in f[b]
          BY <3>2, <4>1
        <5> QED
          BY <2>1, BelowTransitive
      <4> QED
        BY <1>2, <3>1, <4>1, <4>2 DEF Uncut
    <3>4. CASE Cut(o, f, t, fr, r, x, d)
      <4>1. Child(t, x, d) = NULL /\ b # NULL /\ (f[b] \subseteq fr \/ r \in f[b])
        BY <3>1, <3>4 DEF Cut
      <4>2. CASE r = b
        BY <1>2, <1>5, <3>1, <4>1, <4>2 DEF Cut
      <4>3. CASE r # b /\ r \in f[b]
        <5>1. q \in f[b]
          BY <1>1, <3>2, <4>1, <4>3, ParentBelow
        <5> QED
          BY <3>1, <4>1, <5>1 DEF Cut
      <4>4. CASE r \notin f[b]
        BY <1>2, <3>1, <4>1, <4>4 DEF Cut
      <4> QED
        BY <4>2, <4>3, <4>4
    <3> QED
      BY <3>3, <3>4 DEF Reduced
  <2>4. Reduced(o, C, f, t, g, q)
    <3>1. q \notin g
      BY <1>2, <2>1, <2>2
    <3> QED
      BY <1>3, <1>6, <2>1, <2>3, <3>1 DEF Reduced
  <2> QED
    BY <1>2, <1>3, <2>1, <2>4, FS_Subset DEF Shape
<1> QED
  BY <1>7, <1>8

\* From a node that is not freed no link leads to one that is.
LEMMA ReducedSafe ==
    ASSUME NEW o, NEW C, NEW f, Shape(o, C, f), NEW t, NEW fr, NEW r, Reduced(o, C, f, t, fr, r)
    PROVE  /\ r # NULL => t.root \notin fr
           /\ t.root \in C \cup {NULL}
           /\ \A x \in C \ fr : /\ t.left[x] \in C \cup {NULL} /\ t.left[x] \notin fr
                                /\ t.right[x] \in C \cup {NULL} /\ t.right[x] \notin fr
<1>1. C \subseteq Keys /\ NULL \notin Keys /\ fr \subseteq C /\ t \in Trees /\ t.root = o.root /\ f[o.root] = C
      /\ o.root \in C \cup {NULL}
  BY KeysAssumption DEF Reduced, Shape
<1>2. ASSUME NEW x \in C, NEW d \in Sides
      PROVE  Child(t, x, d) \in C \cup {NULL} /\ Child(t, x, d) \notin fr
  <2>1. PICK b : b = Child(o, x, d)
    OBVIOUS
  <2>2. b \in C \cup {NULL} /\ (b # NULL => b \in f[b])
    BY <2>1, ChildOf
  <2> QED
    BY <1>1, <2>1, <2>2 DEF Reduced, Uncut, Cut
<1>3. ASSUME NEW x \in C
      PROVE  /\ t.left[x] \in C \cup {NULL} /\ t.left[x] \notin fr
             /\ t.right[x] \in C \cup {NULL} /\ t.right[x] \notin fr
  BY <1>1, <1>2, ChildIs DEF Sides
<1>4. ASSUME r # NULL, o.root \in fr PROVE FALSE
  BY <1>1, <1>4 DEF Reduced
<1> QED
  BY <1>1, <1>3, <1>4

-----------------------------------------------------------------------------
(***************************************************************************)
(* The frame of the thread that may do more than search.                   *)
(***************************************************************************)
OpNames == Traversals \cup {"search", "destroy"}
FrameLabels == {"enter", "head", "find", "unthread", "next", "down",
           "called", "answered", "handed", "done", "crashed"}
Wanted == Int \cup {NULL}
Spots == Keys \cup {NULL}
KeyLists == Seq(Keys)

FrameSet == [op : OpNames, pc : FrameLabels, from : Spots, key : Wanted, root : Spots,
             current : Spots, failed : BOOLEAN, seen : KeyLists]

\* What the fields of a frame are.
LEMMA FrameIs ==
    ASSUME NEW G \in FrameSet
    PROVE  /\ G.op \in {"morris", "iterate", "search", "destroy"} /\ G.op \in OpNames
           /\ {G.from, G.root, G.current} \subseteq Keys \cup {NULL}
           /\ G.key \in Int \cup {NULL} /\ G.failed \in BOOLEAN /\ G.seen \in Seq(Keys)
<1>1. /\ G.op \in OpNames /\ G.from \in Spots /\ G.root \in Spots /\ G.current \in Spots
      /\ G.key \in Wanted /\ G.failed \in BOOLEAN /\ G.seen \in KeyLists
  BY DEF FrameSet
<1>2. G.op \in {"morris", "iterate", "search", "destroy"}
  BY <1>1 DEF OpNames, Traversals
<1> QED
  BY <1>1, <1>2 DEF Spots, Wanted, KeyLists

NodesOf(o) == BelowIn(o)[o.root]

ContinuationOf(o, s) == CHOOSE K : Continued(o, BelowIn(o), PreorderIn(o), s, K)

Walked(o, G) == Walk(o, NodesOf(o), BelowIn(o), PreorderIn(o), ContinuationOf(o, G.from), G)

\* The tree is as it was.
Calm(o, t, lv, rv, fl, fr) == t = o /\ NoMarks(lv, rv) /\ fl = FALSE /\ fr = {}

\* The tree is destroyed.
Ended(o, t, lv, rv, fl, fr) ==
    /\ t \in Trees /\ t.root = NULL /\ NoMarks(lv, rv) /\ fl = FALSE
    /\ fr = NodesOf(o) /\ (fr = {} => t = o)

Entered(o, t, lv, rv, fl, fr, G) ==
    /\ G.pc = "enter" /\ Calm(o, t, lv, rv, fl, fr)
    /\ G.seen = << >> /\ ~G.failed /\ G.root = G.from /\ G.from \in NodesOf(o) \cup {NULL}
    /\ G.op = "destroy" => G.from = NULL

Returning(o, t, lv, rv, fl, fr, G) ==
    /\ G.pc = "done"
    /\ G.op \in Traversals => Calm(o, t, lv, rv, fl, fr) /\ Seen(PreorderIn(o), G, << >>)
    /\ G.op = "destroy" => Ended(o, t, lv, rv, fl, fr) /\ G.root = NULL /\ Len(G.seen) = Cardinality(fr)

InMorris(o, t, lv, rv, fl, fr, G) ==
    /\ fl = TRUE /\ fr = {} /\ NoMarks(lv, rv) /\ Walked(o, G)
    /\ MorrisAt(o, BelowIn(o), PreorderIn(o), ContinuationOf(o, G.from), t, G)

InIterate(o, t, lv, rv, fl, fr, G) ==
    /\ fl = TRUE /\ fr = {} /\ t = o /\ Walked(o, G)
    /\ IterateAt(o, BelowIn(o), PreorderIn(o), ContinuationOf(o, G.from), lv, rv, G)

InDestroy(o, t, lv, rv, fl, fr, G) ==
    /\ fl = TRUE /\ NoMarks(lv, rv) /\ (NodesOf(o) = {} => t = o)
    /\ DestroyAt(o, NodesOf(o), BelowIn(o), t, fr, G)

\* Where the call G is.
Working(o, t, lv, rv, fl, fr, G) ==
    \/ Entered(o, t, lv, rv, fl, fr, G)
    \/ Returning(o, t, lv, rv, fl, fr, G)
    \/ G.op = "morris" /\ InMorris(o, t, lv, rv, fl, fr, G)
    \/ G.op = "iterate" /\ InIterate(o, t, lv, rv, fl, fr, G)
    \/ G.op = "destroy" /\ InDestroy(o, t, lv, rv, fl, fr, G)

LEMMA Original ==
    ASSUME NEW o, WellFormed(o)
    PROVE  /\ Shape(o, NodesOf(o), BelowIn(o)) /\ o \in Trees
           /\ Preordered(o, NodesOf(o), PreorderIn(o))
           /\ NodesOf(o) \subseteq Keys /\ o.root \in NodesOf(o) \cup {NULL}
           /\ (o.root = NULL <=> NodesOf(o) = {})
<1>1. Shape(o, NodesOf(o), BelowIn(o)) /\ Whole(o, NodesOf(o))
  BY DEF WellFormed, IsTree, NodesOf
<1>2. Preordered(o, NodesOf(o), PreorderIn(o))
  BY <1>1, PreorderIs
<1>3. /\ o \in Trees /\ NodesOf(o) \subseteq Keys /\ o.root \in NodesOf(o) \cup {NULL}
      /\ BelowIn(o)[NULL] = {} /\ BelowIn(o)[o.root] = NodesOf(o)
  BY <1>1 DEF Shape
<1>4. NULL \notin Keys
  BY KeysAssumption
<1> QED
  BY <1>1, <1>2, <1>3, <1>4

LEMMA WalkedIs ==
    ASSUME NEW o, WellFormed(o), NEW G, G \in FrameSet, G.from \in NodesOf(o) \cup {NULL}
    PROVE  Walked(o, G)
<1>1. ASSUME G.from \in NodesOf(o)
      PROVE  Continued(o, BelowIn(o), PreorderIn(o), G.from, ContinuationOf(o, G.from))
  <2>1. << >> \in Seq(Keys)
    OBVIOUS
  <2>2. \E K : Continued(o, BelowIn(o), PreorderIn(o), G.from, K)
    BY <1>1, <2>1, Original, ContinuesExists DEF Continued
  <2> QED
    BY <2>2 DEF ContinuationOf
<1>2. G.seen \in Seq(Keys) /\ G.failed \in BOOLEAN
  BY FrameIs
<1> QED
  BY <1>1, <1>2, Original DEF Walked, Walk

\* What the links are, wherever a call is.
LEMMA MorrisTree ==
    ASSUME NEW o, WellFormed(o), NEW f, NEW P, NEW K, NEW t, NEW G, Walk(o, NodesOf(o), f, P, K, G),
           MorrisAt(o, f, P, K, t, G)
    PROVE  /\ t \in Trees /\ t.root = o.root /\ t.left = o.left
           /\ \A x \in NodesOf(o) : /\ t.right[x] \in NodesOf(o) \cup {NULL}
                                    /\ o.right[x] # NULL => t.right[x] = o.right[x]
<1>1. Shape(o, NodesOf(o), f) /\ o \in Trees
  BY Original DEF Walk
<1>2. CASE t = o
  BY <1>1, <1>2, LinksOf
<1>3. CASE t # o
  <2>1. G.root \in f[G.from]
    BY <1>3 DEF MorrisAt
  <2>2. G.root \in NodesOf(o) /\ Above(o, f, G.from, G.root) \subseteq NodesOf(o)
    BY <2>1, WalkRoot
  <2>3. PICK S : S \subseteq NodesOf(o) /\ Threaded(o, f, S, t)
    BY <1>3, <2>2 DEF MorrisAt, MorrisFirst, MorrisSecond
  <2>4. t \in Trees
    BY <2>3 DEF Threaded
  <2> QED
    BY <1>1, <2>3, <2>4, ThreadsLinks
<1> QED
  BY <1>2, <1>3

\* A search can start at the root and go on from every node that is not
\* freed; and it finds what it looks for.
Safe(o, t, fr) ==
    /\ t.root \in (NodesOf(o) \cup {NULL}) \ fr
    /\ \A x \in NodesOf(o) \ fr : /\ t.left[x] \in (NodesOf(o) \cup {NULL}) \ fr
                                  /\ t.right[x] \in (NodesOf(o) \cup {NULL}) \ fr

LinksKept(o, t) ==
    /\ t.root = o.root /\ t.left = o.left
    /\ \A x \in NodesOf(o) : o.right[x] # NULL => t.right[x] = o.right[x]

Typed(t, lv, rv, fl, fr) ==
    /\ t \in Trees /\ lv \in [Keys -> BOOLEAN] /\ rv \in [Keys -> BOOLEAN] /\ fl \in BOOLEAN
    /\ fr \subseteq Keys

LEMMA CalmIs ==
    ASSUME NEW o, WellFormed(o), NEW t, NEW lv, NEW rv, NEW fl, NEW fr, Calm(o, t, lv, rv, fl, fr)
    PROVE  Typed(t, lv, rv, fl, fr) /\ Safe(o, t, fr) /\ LinksKept(o, t)
<1>1. o \in Trees /\ o.root \in NodesOf(o) \cup {NULL} /\ Shape(o, NodesOf(o), BelowIn(o))
  BY Original
<1>2. \A x \in NodesOf(o) : o.left[x] \in NodesOf(o) \cup {NULL} /\ o.right[x] \in NodesOf(o) \cup {NULL}
  BY <1>1, LinksOf
<1>3. lv \in [Keys -> BOOLEAN] /\ rv \in [Keys -> BOOLEAN] /\ fl \in BOOLEAN /\ t = o /\ fr = {}
  BY DEF Calm, NoMarks
<1> QED
  BY <1>1, <1>2, <1>3 DEF Typed, Safe, LinksKept

LEMMA EndedIs ==
    ASSUME NEW o, WellFormed(o), NEW t, NEW lv, NEW rv, NEW fl, NEW fr, Ended(o, t, lv, rv, fl, fr)
    PROVE  Typed(t, lv, rv, fl, fr) /\ Safe(o, t, fr)
<1>1. NodesOf(o) \subseteq Keys /\ NULL \notin Keys
  BY Original, KeysAssumption
<1>2. lv \in [Keys -> BOOLEAN] /\ rv \in [Keys -> BOOLEAN]
  BY DEF Ended, NoMarks
<1> QED
  BY <1>1, <1>2 DEF Typed, Safe, Ended

LEMMA WorkingTree ==
    ASSUME NEW o, WellFormed(o), NEW t, NEW lv, NEW rv, NEW fl, NEW fr, NEW G,
           G.op \in Traversals \cup {"destroy"}, Working(o, t, lv, rv, fl, fr, G)
    PROVE  /\ Typed(t, lv, rv, fl, fr)
           /\ G.root \notin fr \/ G.op # "destroy"
           /\ G.op # "destroy" \/ G.pc # "head" => Safe(o, t, fr)
           /\ G.op # "destroy" => LinksKept(o, t) /\ fr = {}
<1>1. /\ o \in Trees /\ NodesOf(o) \subseteq Keys /\ NULL \notin Keys
      /\ o.root \in NodesOf(o) \cup {NULL}
  BY Original, KeysAssumption
<1>2. NoMarks(lv, rv) => lv \in [Keys -> BOOLEAN] /\ rv \in [Keys -> BOOLEAN]
  BY DEF NoMarks
<1>3. CASE Entered(o, t, lv, rv, fl, fr, G)
  <2>1. Calm(o, t, lv, rv, fl, fr)
    BY <1>3 DEF Entered
  <2> QED
    BY <2>1, CalmIs DEF Calm
<1>4. CASE Returning(o, t, lv, rv, fl, fr, G)
  <2>1. CASE G.op \in Traversals
    <3>1. Calm(o, t, lv, rv, fl, fr)
      BY <1>4, <2>1 DEF Returning
    <3> QED
      BY <3>1, CalmIs DEF Calm
  <2>2. CASE G.op = "destroy"
    <3>1. Ended(o, t, lv, rv, fl, fr) /\ G.root = NULL
      BY <1>4, <2>2 DEF Returning
    <3>2. G.root \notin fr
      BY <1>1, <3>1 DEF Ended
    <3> QED
      BY <2>2, <3>1, <3>2, EndedIs
  <2> QED
    BY <2>1, <2>2
<1>5. CASE G.op = "morris" /\ InMorris(o, t, lv, rv, fl, fr, G)
  <2>1. /\ fl = TRUE /\ fr = {} /\ NoMarks(lv, rv) /\ Walked(o, G)
        /\ MorrisAt(o, BelowIn(o), PreorderIn(o), ContinuationOf(o, G.from), t, G)
    BY <1>5 DEF InMorris
  <2>2. /\ t \in Trees /\ t.root = o.root /\ t.left = o.left
        /\ \A x \in NodesOf(o) : /\ t.right[x] \in NodesOf(o) \cup {NULL}
                                 /\ o.right[x] # NULL => t.right[x] = o.right[x]
    BY <2>1, MorrisTree DEF Walked
  <2>3. \A x \in NodesOf(o) : o.left[x] \in NodesOf(o) \cup {NULL}
    BY Original, LinksOf
  <2>4. Typed(t, lv, rv, fl, fr)
    BY <1>2, <2>1, <2>2 DEF Typed
  <2>5. LinksKept(o, t)
    BY <2>2 DEF LinksKept
  <2>6. Safe(o, t, fr)
    BY <1>1, <2>1, <2>2, <2>3 DEF Safe
  <2> QED
    BY <1>5, <2>1, <2>4, <2>5, <2>6
<1>6. CASE G.op = "iterate" /\ InIterate(o, t, lv, rv, fl, fr, G)
  <2>1. fl = TRUE /\ fr = {} /\ t = o
    BY <1>6 DEF InIterate
  <2>2. lv \in [Keys -> BOOLEAN] /\ rv \in [Keys -> BOOLEAN]
    BY <1>2, <1>6 DEF InIterate, IterateAt, Marks
  <2>3. \A x \in NodesOf(o) : o.left[x] \in NodesOf(o) \cup {NULL} /\ o.right[x] \in NodesOf(o) \cup {NULL}
    BY Original, LinksOf
  <2> QED
    BY <1>1, <1>6, <2>1, <2>2, <2>3 DEF Typed, Safe, LinksKept
<1>7. CASE G.op = "destroy" /\ InDestroy(o, t, lv, rv, fl, fr, G)
  <2>1. fl = TRUE /\ NoMarks(lv, rv) /\ DestroyAt(o, NodesOf(o), BelowIn(o), t, fr, G)
    BY <1>7 DEF InDestroy
  <2>2. Shape(o, NodesOf(o), BelowIn(o)) /\ Reduced(o, NodesOf(o), BelowIn(o), t, fr, G.root)
    BY <2>1 DEF DestroyAt
  <2>3. t \in Trees /\ fr \subseteq NodesOf(o) /\ G.root \notin fr
    BY <2>2 DEF Reduced
  <2>4. Typed(t, lv, rv, fl, fr)
    BY <1>1, <1>2, <2>1, <2>3 DEF Typed
  <2>5. ASSUME G.pc # "head" PROVE Safe(o, t, fr)
    <3>1. G.root \in NodesOf(o)
      BY <2>1, <2>5 DEF DestroyAt
    <3>2. G.root # NULL
      BY <1>1, <3>1
    <3>3. /\ t.root \notin fr /\ t.root \in NodesOf(o) \cup {NULL}
          /\ \A x \in NodesOf(o) \ fr : /\ t.left[x] \in NodesOf(o) \cup {NULL} /\ t.left[x] \notin fr
                                        /\ t.right[x] \in NodesOf(o) \cup {NULL} /\ t.right[x] \notin fr
      BY <2>2, <3>2, ReducedSafe
    <3> QED
      BY <3>3 DEF Safe
  <2> QED
    BY <1>7, <2>3, <2>4, <2>5
<1> QED
  BY <1>3, <1>4, <1>5, <1>6, <1>7 DEF Working

-----------------------------------------------------------------------------
(***************************************************************************)
(* The steps of a call that is not a search.                               *)
(***************************************************************************)
Now(G) == Working(original, tree, left_visited, right_visited, should_not_be_modified, freed, G)

\* The thread's call goes on as H.
GoesOn(t, G, H) ==
    /\ Becomes(t, H) /\ H \in FrameSet /\ H.op = G.op
    /\ original' = original /\ (G.op = "destroy" \/ freed' = freed)
    /\ Working(original', tree', left_visited', right_visited', should_not_be_modified', freed', H)

LEMMA WorkingIn ==
    ASSUME NEW o, NEW t, NEW lv, NEW rv, NEW fl, NEW fr, NEW G,
           Working(o, t, lv, rv, fl, fr, G)
    PROVE  /\ G.pc = "enter" => Entered(o, t, lv, rv, fl, fr, G)
           /\ G.pc = "done" => Returning(o, t, lv, rv, fl, fr, G)
           /\ G.pc \notin {"enter", "done"} =>
                /\ G.op = "morris" => InMorris(o, t, lv, rv, fl, fr, G)
                /\ G.op = "iterate" => InIterate(o, t, lv, rv, fl, fr, G)
                /\ G.op = "destroy" => InDestroy(o, t, lv, rv, fl, fr, G)
<1>1. InMorris(o, t, lv, rv, fl, fr, G) => G.pc \notin {"enter", "done"}
  BY DEF InMorris, MorrisAt, MorrisFirst, MorrisSecond
<1>2. InIterate(o, t, lv, rv, fl, fr, G) => G.pc \notin {"enter", "done"}
  BY DEF InIterate, IterateAt
<1>3. InDestroy(o, t, lv, rv, fl, fr, G) => G.pc \notin {"enter", "done"}
  BY DEF InDestroy, DestroyAt
<1>4. Entered(o, t, lv, rv, fl, fr, G) => G.pc = "enter"
  BY DEF Entered
<1>5. Returning(o, t, lv, rv, fl, fr, G) => G.pc = "done"
  BY DEF Returning
<1> QED
  BY <1>1, <1>2, <1>3, <1>4, <1>5 DEF Working

LEMMA BeginStep ==
    ASSUME WellFormed(original), NEW t \in Callers, NEW G, G = Top(t), G \in FrameSet, G.op # "search", Now(G),
           Begin(t)
    PROVE  \E H : GoesOn(t, G, H)
<1>1. G.pc = "enter" /\ should_not_be_modified' = TRUE
      /\ UNCHANGED <<original, tree, left_visited, right_visited, freed, calls>>
  BY DEF Begin, nodeVars
<1>2. Entered(original, tree, left_visited, right_visited, should_not_be_modified, freed, G)
  BY <1>1, WorkingIn DEF Now
<1>3. /\ tree = original /\ NoMarks(left_visited, right_visited) /\ freed = {}
      /\ G.seen = << >> /\ ~G.failed /\ G.from \in NodesOf(original) \cup {NULL}
      /\ G.op = "destroy" => G.from = NULL
  BY <1>2 DEF Entered, Calm
<1>4. PICK s : s = IF G.from = NULL THEN tree.root ELSE G.from
  OBVIOUS
<1>5. s \in NodesOf(original) \cup {NULL} /\ NodesOf(original) \subseteq Keys
  BY <1>3, <1>4, Original
<1>6. PICK H : H = [G EXCEPT !.pc = "head", !.from = s, !.root = s, !.current = s]
  OBVIOUS
<1>s. s \in Spots
  BY <1>5 DEF Spots
<1>t. "head" \in FrameLabels
  BY DEF FrameLabels
<1>7. /\ H \in FrameSet /\ H.op = G.op /\ H.pc = "head" /\ H.from = s /\ H.root = s /\ H.current = s
      /\ H.seen = G.seen /\ H.failed = G.failed
  BY <1>6, <1>s, <1>t DEF FrameSet
<1>8. Becomes(t, H)
  BY <1>4, <1>6 DEF Begin
<1>9. Walked(original, H)
  BY <1>5, <1>7, WalkedIs
<1>10. CASE G.op = "morris"
  <2>1. MorrisAt(original, BelowIn(original), PreorderIn(original), ContinuationOf(original, H.from), original, H)
    BY <1>3, <1>7, <1>9, MorrisBegins DEF Walked
  <2>2. InMorris(original', tree', left_visited', right_visited', should_not_be_modified', freed', H)
    BY <1>1, <1>3, <1>9, <2>1 DEF InMorris
  <2> QED
    BY <1>1, <1>7, <1>8, <1>10, <2>2 DEF GoesOn, Working
<1>11. CASE G.op = "iterate"
  <2>1. IterateAt(original, BelowIn(original), PreorderIn(original), ContinuationOf(original, H.from),
                  left_visited, right_visited, H)
    BY <1>3, <1>7, <1>9, IterateBegins DEF Walked
  <2>2. InIterate(original', tree', left_visited', right_visited', should_not_be_modified', freed', H)
    BY <1>1, <1>3, <1>9, <2>1 DEF InIterate
  <2> QED
    BY <1>1, <1>7, <1>8, <1>11, <2>2 DEF GoesOn, Working
<1>12. CASE G.op = "destroy"
  <2>1. DestroyAt(original, NodesOf(original), BelowIn(original), original, {}, H)
    BY <1>3, <1>4, <1>7, <1>12, Original, DestroyBegins
  <2>2. InDestroy(original', tree', left_visited', right_visited', should_not_be_modified', freed', H)
    BY <1>1, <1>3, <2>1 DEF InDestroy
  <2> QED
    BY <1>1, <1>7, <1>8, <1>12, <2>2 DEF GoesOn, Working
<1> QED
  BY <1>10, <1>11, <1>12, FrameIs

LEMMA MorrisNow ==
    ASSUME WellFormed(original), NEW G, G \in FrameSet, G.op = "morris", G.pc \notin {"enter", "done"}, Now(G)
    PROVE  /\ should_not_be_modified = TRUE /\ freed = {} /\ NoMarks(left_visited, right_visited)
           /\ Walk(original, NodesOf(original), BelowIn(original), PreorderIn(original),
                   ContinuationOf(original, G.from), G)
           /\ MorrisAt(original, BelowIn(original), PreorderIn(original), ContinuationOf(original, G.from), tree, G)
           /\ tree \in Trees /\ NodesOf(original) \subseteq Keys
<1>1. InMorris(original, tree, left_visited, right_visited, should_not_be_modified, freed, G)
  BY WorkingIn DEF Now
<1>2. G.op \in Traversals \cup {"destroy"}
  BY DEF Traversals
<1>3. tree \in Trees
  BY <1>2, WorkingTree DEF Now, Typed
<1>4. NodesOf(original) \subseteq Keys
  BY Original
<1> QED
  BY <1>1, <1>3, <1>4 DEF InMorris, Walked

\* The next step of a Morris traversal, whose frame is H after it.
LEMMA MorrisGoesOn ==
    ASSUME NEW t, NEW G, NEW H, H \in FrameSet, H.op = "morris", G.op = "morris", H.from = G.from, Becomes(t, H),
           should_not_be_modified = TRUE, freed = {}, NoMarks(left_visited, right_visited),
           UNCHANGED <<original, left_visited, right_visited, should_not_be_modified, freed>>,
           Walk(original, NodesOf(original), BelowIn(original), PreorderIn(original),
                ContinuationOf(original, G.from), H),
           MorrisAt(original, BelowIn(original), PreorderIn(original), ContinuationOf(original, G.from), tree', H)
    PROVE  GoesOn(t, G, H)
<1>1. InMorris(original', tree', left_visited', right_visited', should_not_be_modified', freed', H)
  BY DEF InMorris, Walked
<1> QED
  BY <1>1 DEF GoesOn, Working

LEMMA MorrisHeadStep ==
    ASSUME WellFormed(original), NEW t \in Callers, NEW G, G = Top(t), G \in FrameSet, Now(G), MorrisHead(t)
    PROVE  \E H : GoesOn(t, G, H)
<1>1. /\ G.op = "morris" /\ G.pc = "head" /\ G.root # NULL
      /\ UNCHANGED <<original, tree, left_visited, right_visited, should_not_be_modified, freed, calls>>
  BY DEF MorrisHead, In, Locals, nodeVars
<1>2. /\ should_not_be_modified = TRUE /\ freed = {} /\ NoMarks(left_visited, right_visited)
      /\ Walk(original, NodesOf(original), BelowIn(original), PreorderIn(original),
              ContinuationOf(original, G.from), G)
      /\ MorrisAt(original, BelowIn(original), PreorderIn(original), ContinuationOf(original, G.from), tree, G)
      /\ tree \in Trees
  BY <1>1, MorrisNow
<1>3. G.root \in Keys /\ tree.left[G.root] \in Keys \cup {NULL} /\ G.seen \in Seq(Keys)
  BY <1>1, <1>2, FrameIs DEF Trees, Pointers
<1>4. Append(G.seen, G.root) \in Seq(Keys)
  BY <1>3
<1>s. Append(G.seen, G.root) \in KeyLists /\ tree.left[G.root] \in Spots /\ NULL \in Spots
  BY <1>3, <1>4 DEF KeyLists, Spots
<1>t. "find" \in FrameLabels /\ "handed" \in FrameLabels /\ "called" \in FrameLabels
  BY DEF FrameLabels
<1>5. PICK H : H = IF tree.left[G.root] # NULL
                   THEN [G EXCEPT !.pc = "find", !.current = tree.left[G.root]]
                   ELSE IF G.failed THEN [G EXCEPT !.pc = "handed", !.current = NULL]
                   ELSE [G EXCEPT !.pc = "called", !.current = NULL, !.seen = Append(G.seen, G.root)]
  OBVIOUS
<1>6. /\ H \in FrameSet /\ H.op = "morris" /\ H.from = G.from /\ H.root = G.root /\ H.failed = G.failed
      /\ IF tree.left[G.root] # NULL
           THEN H.pc = "find" /\ H.current = tree.left[G.root] /\ H.seen = G.seen
           ELSE /\ H.current = NULL
                /\ IF G.failed THEN H.pc = "handed" /\ H.seen = G.seen
                   ELSE H.pc = "called" /\ H.seen = Append(G.seen, G.root)
  BY <1>1, <1>s, <1>t, <1>5 DEF FrameSet
<1>7. Becomes(t, H)
  BY <1>5 DEF MorrisHead, Becomes
<1>8. /\ MorrisAt(original, BelowIn(original), PreorderIn(original), ContinuationOf(original, G.from), tree, H)
      /\ Walk(original, NodesOf(original), BelowIn(original), PreorderIn(original),
              ContinuationOf(original, G.from), H)
  BY <1>1, <1>2, <1>6, MorrisFromHead
<1> QED
  BY <1>1, <1>2, <1>6, <1>7, <1>8, MorrisGoesOn

LEMMA MorrisPlace ==
    ASSUME NEW o, NEW C, NEW f, NEW P, NEW K, NEW t, NEW G, Walk(o, C, f, P, K, G),
           MorrisAt(o, f, P, K, t, G), G.pc # "head"
    PROVE  /\ G.root \in C
           /\ G.pc \in {"find", "unthread"} => G.current \in C
<1>1. G.root \in f[G.from]
  BY DEF MorrisAt
<1>2. G.root \in C /\ Shape(o, C, f)
  BY <1>1, WalkRoot
<1>3. CASE OnEdge(o, f, G.root, G.current)
  BY <1>2, <1>3, EdgeMoves
<1>4. CASE Precedes(o, f, G.root, G.current)
  <2>1. G.current \in f[o.left[G.root]]
    BY <1>4 DEF Precedes
  <2> QED
    BY <1>2, <2>1, LinksOf
<1>5. ASSUME G.pc \in {"find", "unthread"}
      PROVE  OnEdge(o, f, G.root, G.current) \/ Precedes(o, f, G.root, G.current)
  <2>1. CASE MorrisFirst(o, f, P, K, t, G)
    BY <1>5, <2>1 DEF MorrisFirst
  <2>2. CASE MorrisSecond(o, f, P, K, t, G)
    BY <1>5, <2>2 DEF MorrisSecond
  <2> QED
    BY <1>5, <2>1, <2>2 DEF MorrisAt
<1> QED
  BY <1>2, <1>3, <1>4, <1>5

\* The frame after Visit.
Visited(G, x) == IF G.failed THEN [G EXCEPT !.pc = "handed"]
                 ELSE [G EXCEPT !.pc = "called", !.seen = Append(@, x)]

LEMMA VisitedIs ==
    ASSUME NEW G \in FrameSet, NEW x \in Keys
    PROVE  LET H == Visited(G, x)
           IN /\ H \in FrameSet /\ H.op = G.op /\ H.from = G.from /\ H.root = G.root
              /\ H.current = G.current /\ H.failed = G.failed
              /\ IF G.failed THEN H.pc = "handed" /\ H.seen = G.seen
                 ELSE H.pc = "called" /\ H.seen = Append(G.seen, x)
<1>1. PICK s : s = Append(G.seen, x)
  OBVIOUS
<1>2. s \in KeyLists
  BY <1>1, FrameIs DEF KeyLists
<1>3. "handed" \in FrameLabels /\ "called" \in FrameLabels
  BY DEF FrameLabels
<1> QED
  BY <1>1, <1>2, <1>3 DEF FrameSet, Visited

LEMMA MorrisFindStep ==
    ASSUME WellFormed(original), NEW t \in Callers, NEW G, G = Top(t), G \in FrameSet, Now(G), MorrisFind(t)
    PROVE  \E H : GoesOn(t, G, H)
<1>1. /\ G.op = "morris" /\ G.pc = "find"
      /\ UNCHANGED <<original, tree, left_visited, right_visited, should_not_be_modified, freed, calls>>
  BY DEF MorrisFind, In, Locals, nodeVars
<1>2. /\ should_not_be_modified = TRUE /\ freed = {} /\ NoMarks(left_visited, right_visited)
      /\ Walk(original, NodesOf(original), BelowIn(original), PreorderIn(original),
              ContinuationOf(original, G.from), G)
      /\ MorrisAt(original, BelowIn(original), PreorderIn(original), ContinuationOf(original, G.from), tree, G)
      /\ tree \in Trees /\ NodesOf(original) \subseteq Keys
  BY <1>1, MorrisNow
<1>3. G.root \in Keys /\ G.current \in Keys
  BY <1>1, <1>2, MorrisPlace
<1>4. PICK next : next = tree.right[G.current]
  OBVIOUS
<1>5. next \in Spots /\ G.root # NULL
  BY <1>2, <1>3, <1>4, KeysAssumption DEF Trees, Pointers, Spots
<1>6. "unthread" \in FrameLabels
  BY DEF FrameLabels
<1>7. PICK H : H = CASE next = G.root -> [G EXCEPT !.pc = "unthread"]
                     [] next = NULL -> Visited(G, G.root)
                     [] OTHER -> [G EXCEPT !.current = next]
  OBVIOUS
<1>8. /\ H \in FrameSet /\ H.op = "morris" /\ H.from = G.from /\ H.root = G.root /\ H.failed = G.failed
      /\ CASE next = G.root -> H.pc = "unthread" /\ H.current = G.current /\ H.seen = G.seen
           [] next = NULL ->
                /\ H.current = G.current
                /\ IF G.failed THEN H.pc = "handed" /\ H.seen = G.seen
                   ELSE H.pc = "called" /\ H.seen = Append(G.seen, G.root)
           [] OTHER -> H.pc = "find" /\ H.current = next /\ H.seen = G.seen
  <2>1. CASE next = G.root
    <3>1. H = [G EXCEPT !.pc = "unthread"] /\ next # NULL
      BY <1>5, <1>7, <2>1
    <3>2. /\ H \in FrameSet /\ H.op = "morris" /\ H.from = G.from /\ H.root = G.root
          /\ H.failed = G.failed /\ H.pc = "unthread" /\ H.current = G.current /\ H.seen = G.seen
      BY <1>1, <1>6, <3>1 DEF FrameSet
    <3> QED
      BY <2>1, <3>1, <3>2
  <2>2. CASE next # G.root /\ next = NULL
    <3>1. H = Visited(G, G.root)
      BY <1>7, <2>2
    <3> QED
      BY <1>1, <1>3, <2>2, <3>1, VisitedIs
  <2>3. CASE next # G.root /\ next # NULL
    <3>1. H = [G EXCEPT !.current = next]
      BY <1>7, <2>3
    <3> QED
      BY <1>1, <1>5, <2>3, <3>1 DEF FrameSet
  <2> QED
    BY <2>1, <2>2, <2>3
<1>9. Becomes(t, H)
  <2>1. CASE next = G.root
    <3>1. next # NULL
      BY <1>5, <2>1
    <3>2. H = [G EXCEPT !.pc = "unthread"]
      BY <1>7, <2>1, <3>1
    <3> QED
      BY <1>4, <2>1, <3>1, <3>2 DEF MorrisFind
  <2>2. CASE next # G.root /\ next = NULL
    <3>1. H = Visited(G, G.root)
      BY <1>7, <2>2
    <3>2. Visit(t, Top(t).root)
      BY <1>4, <2>2 DEF MorrisFind
    <3> QED
      BY <3>1, <3>2 DEF Visit, Visited, Becomes, Hand
  <2>3. CASE next # G.root /\ next # NULL
    <3>1. H = [G EXCEPT !.current = next]
      BY <1>7, <2>3
    <3> QED
      BY <1>4, <2>3, <3>1 DEF MorrisFind
  <2> QED
    BY <2>1, <2>2, <2>3
<1>10. /\ MorrisAt(original, BelowIn(original), PreorderIn(original), ContinuationOf(original, G.from), tree, H)
       /\ Walk(original, NodesOf(original), BelowIn(original), PreorderIn(original),
               ContinuationOf(original, G.from), H)
  BY <1>1, <1>2, <1>4, <1>8, MorrisFromFind
<1> QED
  BY <1>1, <1>2, <1>8, <1>9, <1>10, MorrisGoesOn

LEMMA MorrisUnthreadStep ==
    ASSUME WellFormed(original), NEW t \in Callers, NEW G, G = Top(t), G \in FrameSet, Now(G), MorrisUnthread(t)
    PROVE  \E H : GoesOn(t, G, H)
<1>1. /\ G.op = "morris" /\ G.pc = "unthread" /\ tree' = WithRight(tree, G.current, NULL)
      /\ UNCHANGED <<original, left_visited, right_visited, should_not_be_modified, freed, calls>>
  BY DEF MorrisUnthread, In, WithRight
<1>2. /\ should_not_be_modified = TRUE /\ freed = {} /\ NoMarks(left_visited, right_visited)
      /\ Walk(original, NodesOf(original), BelowIn(original), PreorderIn(original),
              ContinuationOf(original, G.from), G)
      /\ MorrisAt(original, BelowIn(original), PreorderIn(original), ContinuationOf(original, G.from), tree, G)
  BY <1>1, MorrisNow
<1>3. PICK H : H = [G EXCEPT !.pc = "next"]
  OBVIOUS
<1>4. "next" \in FrameLabels
  BY DEF FrameLabels
<1>5. /\ H \in FrameSet /\ H.op = "morris" /\ H.pc = "next" /\ H.from = G.from /\ H.root = G.root
      /\ H.failed = G.failed /\ H.seen = G.seen
  BY <1>1, <1>3, <1>4 DEF FrameSet
<1>6. Becomes(t, H)
  BY <1>3 DEF MorrisUnthread
<1>7. /\ MorrisAt(original, BelowIn(original), PreorderIn(original), ContinuationOf(original, G.from), tree', H)
      /\ Walk(original, NodesOf(original), BelowIn(original), PreorderIn(original),
              ContinuationOf(original, G.from), H)
  BY <1>1, <1>2, <1>5, MorrisFromUnthread
<1> QED
  BY <1>1, <1>2, <1>5, <1>6, <1>7, MorrisGoesOn

LEMMA MorrisThreadStep ==
    ASSUME WellFormed(original), NEW t \in Callers, NEW G, G = Top(t), G \in FrameSet, Now(G), MorrisThread(t)
    PROVE  \E H : GoesOn(t, G, H)
<1>1. /\ G.op = "morris" /\ G.pc = "handed" /\ G.current # NULL /\ tree' = WithRight(tree, G.current, G.root)
      /\ UNCHANGED <<original, left_visited, right_visited, should_not_be_modified, freed, calls>>
  BY DEF MorrisThread, In, WithRight
<1>2. /\ should_not_be_modified = TRUE /\ freed = {} /\ NoMarks(left_visited, right_visited)
      /\ Walk(original, NodesOf(original), BelowIn(original), PreorderIn(original),
              ContinuationOf(original, G.from), G)
      /\ MorrisAt(original, BelowIn(original), PreorderIn(original), ContinuationOf(original, G.from), tree, G)
      /\ tree \in Trees /\ NodesOf(original) \subseteq Keys
  BY <1>1, MorrisNow
<1>3. PICK next : next = tree.left[G.root]
  OBVIOUS
<1>4. next \in Spots
  <2>1. G.root \in Keys
    BY <1>1, <1>2, MorrisPlace
  <2> QED
    BY <1>2, <1>3, <2>1 DEF Trees, Pointers, Spots
<1>5. PICK H : H = [G EXCEPT !.pc = "head", !.root = next]
  OBVIOUS
<1>6. "head" \in FrameLabels
  BY DEF FrameLabels
<1>7. /\ H \in FrameSet /\ H.op = "morris" /\ H.pc = "head" /\ H.from = G.from /\ H.root = next
      /\ H.failed = G.failed /\ H.seen = G.seen
  BY <1>1, <1>4, <1>5, <1>6 DEF FrameSet
<1>8. Becomes(t, H)
  BY <1>3, <1>5 DEF MorrisThread
<1>9. /\ MorrisAt(original, BelowIn(original), PreorderIn(original), ContinuationOf(original, G.from), tree', H)
      /\ Walk(original, NodesOf(original), BelowIn(original), PreorderIn(original),
              ContinuationOf(original, G.from), H)
  BY <1>1, <1>2, <1>3, <1>7, MorrisFromHanded
<1> QED
  BY <1>1, <1>2, <1>7, <1>8, <1>9, MorrisGoesOn

LEMMA MorrisNextStep ==
    ASSUME WellFormed(original), NEW t \in Callers, NEW G, G = Top(t), G \in FrameSet, Now(G), MorrisNext(t)
    PROVE  \E H : GoesOn(t, G, H)
<1>1. /\ G.op = "morris" /\ (G.pc = "next" \/ (G.pc = "handed" /\ G.current = NULL))
      /\ UNCHANGED <<original, tree, left_visited, right_visited, should_not_be_modified, freed, calls>>
  BY DEF MorrisNext, In, Locals, nodeVars
<1>2. /\ should_not_be_modified = TRUE /\ freed = {} /\ NoMarks(left_visited, right_visited)
      /\ Walk(original, NodesOf(original), BelowIn(original), PreorderIn(original),
              ContinuationOf(original, G.from), G)
      /\ MorrisAt(original, BelowIn(original), PreorderIn(original), ContinuationOf(original, G.from), tree, G)
      /\ tree \in Trees /\ NodesOf(original) \subseteq Keys
  BY <1>1, MorrisNow
<1>3. PICK next : next = tree.right[G.root]
  OBVIOUS
<1>4. next \in Spots
  <2>1. G.root \in Keys
    BY <1>1, <1>2, MorrisPlace
  <2> QED
    BY <1>2, <1>3, <2>1 DEF Trees, Pointers, Spots
<1>5. PICK H : H = [G EXCEPT !.pc = "head", !.root = next]
  OBVIOUS
<1>6. "head" \in FrameLabels
  BY DEF FrameLabels
<1>7. /\ H \in FrameSet /\ H.op = "morris" /\ H.pc = "head" /\ H.from = G.from /\ H.root = next
      /\ H.failed = G.failed /\ H.seen = G.seen
  BY <1>1, <1>4, <1>5, <1>6 DEF FrameSet
<1>8. Becomes(t, H)
  BY <1>3, <1>5 DEF MorrisNext
<1>9. /\ MorrisAt(original, BelowIn(original), PreorderIn(original), ContinuationOf(original, G.from), tree, H)
      /\ Walk(original, NodesOf(original), BelowIn(original), PreorderIn(original),
              ContinuationOf(original, G.from), H)
  BY <1>1, <1>2, <1>3, <1>7, MorrisFromNext
<1> QED
  BY <1>1, <1>2, <1>7, <1>8, <1>9, MorrisGoesOn

\* A traversal whose frame is H is over.
LEMMA TraversalOver ==
    ASSUME NEW t, NEW G, NEW H, H \in FrameSet, H.op = G.op, H.op \in Traversals, H.pc = "done", Becomes(t, H),
           tree' = original, NoMarks(left_visited', right_visited'), freed = {},
           should_not_be_modified' = FALSE, UNCHANGED <<original, freed>>,
           Seen(PreorderIn(original), H, << >>)
    PROVE  GoesOn(t, G, H)
<1>1. Calm(original', tree', left_visited', right_visited', should_not_be_modified', freed')
  BY DEF Calm
<1>2. H.op # "destroy"
  BY DEF Traversals
<1>3. Returning(original', tree', left_visited', right_visited', should_not_be_modified', freed', H)
  BY <1>1, <1>2 DEF Returning
<1> QED
  BY <1>3 DEF GoesOn, Working

LEMMA MorrisEndStep ==
    ASSUME WellFormed(original), NEW t \in Callers, NEW G, G = Top(t), G \in FrameSet, Now(G), MorrisEnd(t)
    PROVE  \E H : GoesOn(t, G, H)
<1>1. /\ G.op = "morris" /\ G.pc = "head" /\ G.root = NULL /\ should_not_be_modified' = FALSE
      /\ UNCHANGED <<original, tree, left_visited, right_visited, freed, calls>>
  BY DEF MorrisEnd, In, Finish, nodeVars
<1>2. /\ freed = {} /\ NoMarks(left_visited, right_visited)
      /\ Walk(original, NodesOf(original), BelowIn(original), PreorderIn(original),
              ContinuationOf(original, G.from), G)
      /\ MorrisAt(original, BelowIn(original), PreorderIn(original), ContinuationOf(original, G.from), tree, G)
  BY <1>1, MorrisNow
<1>3. tree = original /\ Seen(PreorderIn(original), G, << >>)
  BY <1>1, <1>2, MorrisEnds
<1>4. PICK H : H = [G EXCEPT !.pc = "done"]
  OBVIOUS
<1>5. "done" \in FrameLabels
  BY DEF FrameLabels
<1>6. /\ H \in FrameSet /\ H.op = "morris" /\ H.pc = "done" /\ H.from = G.from
      /\ H.failed = G.failed /\ H.seen = G.seen
  BY <1>1, <1>4, <1>5 DEF FrameSet
<1>7. Becomes(t, H)
  BY <1>4 DEF MorrisEnd, Finish
<1>8. Seen(PreorderIn(original), H, << >>)
  BY <1>3, <1>6 DEF Seen
<1>9. H.op \in Traversals
  BY <1>6 DEF Traversals
<1> QED
  BY <1>1, <1>2, <1>3, <1>6, <1>7, <1>8, <1>9, TraversalOver

LEMMA IterateNow ==
    ASSUME WellFormed(original), NEW G, G \in FrameSet, G.op = "iterate", G.pc \notin {"enter", "done"}, Now(G)
    PROVE  /\ should_not_be_modified = TRUE /\ freed = {} /\ tree = original
           /\ Walk(original, NodesOf(original), BelowIn(original), PreorderIn(original),
                   ContinuationOf(original, G.from), G)
           /\ IterateAt(original, BelowIn(original), PreorderIn(original), ContinuationOf(original, G.from),
                        left_visited, right_visited, G)
           /\ NodesOf(original) \subseteq Keys
<1>1. InIterate(original, tree, left_visited, right_visited, should_not_be_modified, freed, G)
  BY WorkingIn DEF Now
<1>2. NodesOf(original) \subseteq Keys
  BY Original
<1> QED
  BY <1>1, <1>2 DEF InIterate, Walked

LEMMA IterateGoesOn ==
    ASSUME NEW t, NEW G, NEW H, H \in FrameSet, H.op = "iterate", G.op = "iterate", H.from = G.from, Becomes(t, H),
           should_not_be_modified = TRUE, freed = {}, tree = original,
           UNCHANGED <<original, tree, should_not_be_modified, freed>>,
           Walk(original, NodesOf(original), BelowIn(original), PreorderIn(original),
                ContinuationOf(original, G.from), H),
           IterateAt(original, BelowIn(original), PreorderIn(original), ContinuationOf(original, G.from),
                     left_visited', right_visited', H)
    PROVE  GoesOn(t, G, H)
<1>1. InIterate(original', tree', left_visited', right_visited', should_not_be_modified', freed', H)
  BY DEF InIterate, Walked
<1> QED
  BY <1>1 DEF GoesOn, Working

\* Where iterate is.
LEMMA IteratePlace ==
    ASSUME NEW o, NEW C, NEW f, NEW P, NEW K, NEW lv, NEW rv, NEW G, Walk(o, C, f, P, K, G),
           IterateAt(o, f, P, K, lv, rv, G), G.current # NULL \/ G.pc = "handed"
    PROVE  G.current \in C /\ G.current \in Keys /\ G.current # NULL
<1>1. G.current \in f[G.from]
  BY DEF IterateAt
<1> QED
  BY <1>1, WalkRoot

LEMMA IterateNowhere ==
    ASSUME NEW o, NEW C, NEW f, NEW P, NEW K, NEW lv, NEW rv, NEW G, Walk(o, C, f, P, K, G),
           IterateAt(o, f, P, K, lv, rv, G), G.current = NULL
    PROVE  G.from = NULL /\ NoMarks(lv, rv) /\ Seen(P, G, << >>)
<1>1. G.current \notin f[G.from]
  BY WalkRoot
<1> QED
  BY <1>1 DEF IterateAt

LEMMA IterateNullStep ==
    ASSUME WellFormed(original), NEW t \in Callers, NEW G, G = Top(t), G \in FrameSet, Now(G), IterateNull(t)
    PROVE  \E H : GoesOn(t, G, H)
<1>1. /\ G.op = "iterate" /\ G.pc = "head" /\ G.current = NULL
      /\ UNCHANGED <<original, tree, left_visited, right_visited, should_not_be_modified, freed, calls>>
  BY DEF IterateNull, In, Locals, nodeVars
<1>2. /\ should_not_be_modified = TRUE /\ freed = {} /\ tree = original
      /\ Walk(original, NodesOf(original), BelowIn(original), PreorderIn(original),
              ContinuationOf(original, G.from), G)
      /\ IterateAt(original, BelowIn(original), PreorderIn(original), ContinuationOf(original, G.from),
                   left_visited, right_visited, G)
      /\ NodesOf(original) \subseteq Keys
  BY <1>1, IterateNow
<1>3. G.from = NULL /\ NoMarks(left_visited, right_visited) /\ Seen(PreorderIn(original), G, << >>)
  BY <1>1, <1>2, IterateNowhere
<1>4. PICK H : H = [G EXCEPT !.pc = "crashed"]
  OBVIOUS
<1>5. "crashed" \in FrameLabels
  BY DEF FrameLabels
<1>6. /\ H \in FrameSet /\ H.op = "iterate" /\ H.pc = "crashed" /\ H.from = G.from /\ H.current = G.current
      /\ H.failed = G.failed /\ H.seen = G.seen
  BY <1>1, <1>4, <1>5 DEF FrameSet
<1>7. Becomes(t, H)
  BY <1>4 DEF IterateNull
<1>8. Seen(PreorderIn(original), H, << >>)
  BY <1>3, <1>6 DEF Seen
<1>9. IterateAt(original, BelowIn(original), PreorderIn(original), ContinuationOf(original, G.from),
                left_visited', right_visited', H)
  BY <1>1, <1>3, <1>6, <1>8 DEF IterateAt
<1>10. Walk(original, NodesOf(original), BelowIn(original), PreorderIn(original),
            ContinuationOf(original, G.from), H)
  BY <1>2, <1>6 DEF Walk
<1> QED
  BY <1>1, <1>2, <1>6, <1>7, <1>9, <1>10, IterateGoesOn

LEMMA IterateFirstStep ==
    ASSUME WellFormed(original), NEW t \in Callers, NEW G, G = Top(t), G \in FrameSet, Now(G), IterateFirst(t)
    PROVE  \E H : GoesOn(t, G, H)
<1>1. /\ G.op = "iterate" /\ G.pc = "head" /\ G.current # NULL
      /\ ~left_visited[G.current] /\ ~right_visited[G.current]
      /\ UNCHANGED <<original, tree, left_visited, right_visited, should_not_be_modified, freed, calls>>
  BY DEF IterateFirst, Iterating, In, Locals, nodeVars
<1>2. /\ should_not_be_modified = TRUE /\ freed = {} /\ tree = original
      /\ Walk(original, NodesOf(original), BelowIn(original), PreorderIn(original),
              ContinuationOf(original, G.from), G)
      /\ IterateAt(original, BelowIn(original), PreorderIn(original), ContinuationOf(original, G.from),
                   left_visited, right_visited, G)
      /\ NodesOf(original) \subseteq Keys
  BY <1>1, IterateNow
<1>3. G.current \in Keys
  BY <1>1, <1>2, IteratePlace
<1>4. PICK H : H = Visited(G, G.current)
  OBVIOUS
<1>6. /\ H \in FrameSet /\ H.op = "iterate" /\ H.from = G.from /\ H.current = G.current /\ H.failed = G.failed
      /\ IF G.failed THEN H.pc = "handed" /\ H.seen = G.seen
         ELSE H.pc = "called" /\ H.seen = Append(G.seen, G.current)
  BY <1>1, <1>3, <1>4, VisitedIs
<1>7. Becomes(t, H)
  BY <1>4 DEF IterateFirst, Visit, Visited, Becomes, Hand
<1>8. /\ IterateAt(original, BelowIn(original), PreorderIn(original), ContinuationOf(original, G.from),
                   left_visited, right_visited, H)
      /\ Walk(original, NodesOf(original), BelowIn(original), PreorderIn(original),
              ContinuationOf(original, G.from), H)
  BY <1>1, <1>2, <1>6, IterateFromFirst
<1> QED
  BY <1>1, <1>2, <1>6, <1>7, <1>8, IterateGoesOn

LEMMA IterateLeftStep ==
    ASSUME WellFormed(original), NEW t \in Callers, NEW G, G = Top(t), G \in FrameSet, Now(G), IterateLeft(t)
    PROVE  \E H : GoesOn(t, G, H)
<1>1. /\ G.op = "iterate" /\ G.pc = "handed"
      /\ left_visited' = [left_visited EXCEPT ![G.current] = TRUE]
      /\ UNCHANGED <<original, tree, right_visited, should_not_be_modified, freed, calls>>
  BY DEF IterateLeft, In
<1>2. /\ should_not_be_modified = TRUE /\ freed = {} /\ tree = original
      /\ Walk(original, NodesOf(original), BelowIn(original), PreorderIn(original),
              ContinuationOf(original, G.from), G)
      /\ IterateAt(original, BelowIn(original), PreorderIn(original), ContinuationOf(original, G.from),
                   left_visited, right_visited, G)
      /\ NodesOf(original) \subseteq Keys
  BY <1>1, IterateNow
<1>3. G.current \in Keys /\ original \in Trees
  BY <1>1, <1>2, IteratePlace, Original
<1>4. PICK next : next = IF tree.left[G.current] # NULL THEN tree.left[G.current] ELSE G.current
  OBVIOUS
<1>5. next \in Spots
  BY <1>2, <1>3, <1>4 DEF Spots, Trees, Pointers
<1>6. PICK H : H = [G EXCEPT !.pc = "head", !.current = next]
  OBVIOUS
<1>7. "head" \in FrameLabels
  BY DEF FrameLabels
<1>8. /\ H \in FrameSet /\ H.op = "iterate" /\ H.pc = "head" /\ H.from = G.from /\ H.current = next
      /\ H.failed = G.failed /\ H.seen = G.seen
  BY <1>1, <1>5, <1>6, <1>7 DEF FrameSet
<1>9. Becomes(t, H)
  BY <1>4, <1>6 DEF IterateLeft
<1>10. H.current = (IF original.left[G.current] # NULL THEN original.left[G.current] ELSE G.current)
  BY <1>2, <1>4, <1>8
<1>11. /\ IterateAt(original, BelowIn(original), PreorderIn(original), ContinuationOf(original, G.from),
                   left_visited', right_visited, H)
      /\ Walk(original, NodesOf(original), BelowIn(original), PreorderIn(original),
              ContinuationOf(original, G.from), H)
  BY <1>1, <1>2, <1>8, <1>10, IterateFromHanded
<1> QED
  BY <1>1, <1>2, <1>8, <1>9, <1>11, IterateGoesOn

LEMMA IterateRightStep ==
    ASSUME WellFormed(original), NEW t \in Callers, NEW G, G = Top(t), G \in FrameSet, Now(G), IterateRight(t)
    PROVE  \E H : GoesOn(t, G, H)
<1>1. /\ G.op = "iterate" /\ G.pc = "head" /\ G.current # NULL
      /\ left_visited[G.current] /\ ~right_visited[G.current]
      /\ right_visited' = [right_visited EXCEPT ![G.current] = TRUE]
      /\ UNCHANGED <<original, tree, left_visited, should_not_be_modified, freed, calls>>
  BY DEF IterateRight, Iterating, In
<1>2. /\ should_not_be_modified = TRUE /\ freed = {} /\ tree = original
      /\ Walk(original, NodesOf(original), BelowIn(original), PreorderIn(original),
              ContinuationOf(original, G.from), G)
      /\ IterateAt(original, BelowIn(original), PreorderIn(original), ContinuationOf(original, G.from),
                   left_visited, right_visited, G)
      /\ NodesOf(original) \subseteq Keys
  BY <1>1, IterateNow
<1>3. G.current \in Keys /\ original \in Trees
  BY <1>1, <1>2, IteratePlace, Original
<1>4. PICK next : next = IF tree.right[G.current] # NULL THEN tree.right[G.current] ELSE G.current
  OBVIOUS
<1>5. next \in Spots
  BY <1>2, <1>3, <1>4 DEF Spots, Trees, Pointers
<1>6. PICK H : H = [G EXCEPT !.current = next]
  OBVIOUS
<1>8. /\ H \in FrameSet /\ H.op = "iterate" /\ H.pc = "head" /\ H.from = G.from /\ H.current = next
      /\ H.failed = G.failed /\ H.seen = G.seen
  BY <1>1, <1>5, <1>6 DEF FrameSet
<1>9. Becomes(t, H)
  BY <1>4, <1>6 DEF IterateRight
<1>10. H.current = (IF original.right[G.current] # NULL THEN original.right[G.current] ELSE G.current)
  BY <1>2, <1>4, <1>8
<1>w. /\ G.pc = "head" /\ G.current # NULL /\ left_visited[G.current] /\ ~right_visited[G.current]
  BY <1>1
<1>v. /\ IterateAt(original, BelowIn(original), PreorderIn(original), ContinuationOf(original, G.from),
                   left_visited, [right_visited EXCEPT ![G.current] = TRUE], H)
      /\ Walk(original, NodesOf(original), BelowIn(original), PreorderIn(original),
              ContinuationOf(original, G.from), H)
  BY <1>w, <1>2, <1>8, <1>10, IterateFromRight
<1>11. /\ IterateAt(original, BelowIn(original), PreorderIn(original), ContinuationOf(original, G.from),
                   left_visited, right_visited', H)
      /\ Walk(original, NodesOf(original), BelowIn(original), PreorderIn(original),
              ContinuationOf(original, G.from), H)
  BY <1>1, <1>v
<1> QED
  BY <1>1, <1>2, <1>8, <1>9, <1>11, IterateGoesOn

LEMMA IterateUpStep ==
    ASSUME WellFormed(original), NEW t \in Callers, NEW G, G = Top(t), G \in FrameSet, Now(G), IterateUp(t)
    PROVE  \E H : GoesOn(t, G, H)
<1>1. /\ G.op = "iterate" /\ G.pc = "head" /\ G.current # NULL
      /\ left_visited[G.current] /\ right_visited[G.current]
      /\ left_visited' = [left_visited EXCEPT ![G.current] = FALSE]
      /\ right_visited' = [right_visited EXCEPT ![G.current] = FALSE]
      /\ UNCHANGED <<original, tree, freed, calls>>
  BY DEF IterateUp, Iterating, In
<1>2. /\ should_not_be_modified = TRUE /\ freed = {} /\ tree = original
      /\ Walk(original, NodesOf(original), BelowIn(original), PreorderIn(original),
              ContinuationOf(original, G.from), G)
      /\ IterateAt(original, BelowIn(original), PreorderIn(original), ContinuationOf(original, G.from),
                   left_visited, right_visited, G)
      /\ NodesOf(original) \subseteq Keys
  BY <1>1, IterateNow
<1>3. /\ G.current = G.from => NoMarks(left_visited', right_visited') /\ Seen(PreorderIn(original), G, << >>)
      /\ G.current # G.from =>
           \A H : /\ H.from = G.from /\ H.failed = G.failed /\ H.seen = G.seen /\ H.pc = "head"
                  /\ H.current = original.parent[G.current]
                  => /\ IterateAt(original, BelowIn(original), PreorderIn(original),
                                  ContinuationOf(original, G.from), left_visited', right_visited', H)
                     /\ Walk(original, NodesOf(original), BelowIn(original), PreorderIn(original),
                             ContinuationOf(original, G.from), H)
  BY <1>1, <1>2, IterateFromUp
<1>4. CASE G.current = G.from
  <2>1. PICK H : H = [G EXCEPT !.pc = "done"]
    OBVIOUS
  <2>2. "done" \in FrameLabels
    BY DEF FrameLabels
  <2>3. /\ H \in FrameSet /\ H.op = "iterate" /\ H.pc = "done" /\ H.from = G.from
        /\ H.failed = G.failed /\ H.seen = G.seen
    BY <1>1, <2>1, <2>2 DEF FrameSet
  <2>4. Becomes(t, H) /\ should_not_be_modified' = FALSE
    BY <1>4, <2>1 DEF IterateUp, Finish
  <2>5. Seen(PreorderIn(original), H, << >>) /\ NoMarks(left_visited', right_visited')
    BY <1>3, <1>4, <2>3 DEF Seen
  <2>6. H.op \in Traversals
    BY <2>3 DEF Traversals
  <2> QED
    BY <1>1, <1>2, <2>3, <2>4, <2>5, <2>6, TraversalOver
<1>5. CASE G.current # G.from
  <2>1. PICK next : next = tree.parent[G.current]
    OBVIOUS
  <2>2. next \in Spots
    <3>1. G.current \in Keys /\ original \in Trees
      BY <1>1, <1>2, IteratePlace, Original
    <3> QED
      BY <1>2, <2>1, <3>1 DEF Spots, Trees, Pointers
  <2>3. PICK H : H = [G EXCEPT !.current = next]
    OBVIOUS
  <2>4. /\ H \in FrameSet /\ H.op = "iterate" /\ H.pc = "head" /\ H.from = G.from /\ H.current = next
        /\ H.failed = G.failed /\ H.seen = G.seen
    BY <1>1, <2>2, <2>3 DEF FrameSet
  <2>5. Becomes(t, H) /\ UNCHANGED should_not_be_modified
    BY <1>5, <2>1, <2>3 DEF IterateUp
  <2>6. H.current = original.parent[G.current]
    BY <1>2, <2>1, <2>4
  <2>7. /\ IterateAt(original, BelowIn(original), PreorderIn(original),
                     ContinuationOf(original, G.from), left_visited', right_visited', H)
        /\ Walk(original, NodesOf(original), BelowIn(original), PreorderIn(original),
                ContinuationOf(original, G.from), H)
    BY <1>3, <1>5, <2>4, <2>6
  <2> QED
    BY <1>1, <1>2, <2>4, <2>5, <2>7, IterateGoesOn
<1> QED
  BY <1>4, <1>5

\* The user function returns, or what it called does.
Resumes(G, H) ==
    /\ G \in FrameSet /\ H \in FrameSet /\ G.op # "search" /\ G.pc \in {"called", "answered"}
    /\ H.op = G.op /\ H.from = G.from /\ H.root = G.root /\ H.current = G.current /\ H.seen = G.seen
    /\ H.pc = "handed" \/ (H.pc = "answered" /\ H.failed = G.failed)

LEMMA CalledWorks ==
    ASSUME NEW o, WellFormed(o), NEW t, NEW lv, NEW rv, NEW fl, NEW fr, NEW G, NEW H,
           Working(o, t, lv, rv, fl, fr, G), Resumes(G, H)
    PROVE  Working(o, t, lv, rv, fl, fr, H)
<1> USE DEF Resumes
<1>1. /\ G.op = "morris" => InMorris(o, t, lv, rv, fl, fr, G)
      /\ G.op = "iterate" => InIterate(o, t, lv, rv, fl, fr, G)
      /\ G.op = "destroy" => InDestroy(o, t, lv, rv, fl, fr, G)
  BY WorkingIn
<1>2. H.failed \in BOOLEAN
  BY FrameIs
<1>3. \/ H.pc = "handed" /\ H.failed \in BOOLEAN
      \/ H.pc = "answered" /\ H.failed = G.failed
  BY <1>2
<1>4. CASE G.op = "morris"
  <2>1. /\ fl = TRUE /\ fr = {} /\ NoMarks(lv, rv)
        /\ Walk(o, NodesOf(o), BelowIn(o), PreorderIn(o), ContinuationOf(o, G.from), G)
        /\ MorrisAt(o, BelowIn(o), PreorderIn(o), ContinuationOf(o, G.from), t, G)
    BY <1>1, <1>4 DEF InMorris, Walked
  <2>2. /\ MorrisAt(o, BelowIn(o), PreorderIn(o), ContinuationOf(o, G.from), t, H)
        /\ Walk(o, NodesOf(o), BelowIn(o), PreorderIn(o), ContinuationOf(o, G.from), H)
    BY <1>3, <2>1, MorrisFromCalled
  <2>3. InMorris(o, t, lv, rv, fl, fr, H)
    BY <2>1, <2>2 DEF InMorris, Walked
  <2> QED
    BY <1>4, <2>3 DEF Working
<1>5. CASE G.op = "iterate"
  <2>1. /\ fl = TRUE /\ fr = {} /\ t = o
        /\ Walk(o, NodesOf(o), BelowIn(o), PreorderIn(o), ContinuationOf(o, G.from), G)
        /\ IterateAt(o, BelowIn(o), PreorderIn(o), ContinuationOf(o, G.from), lv, rv, G)
    BY <1>1, <1>5 DEF InIterate, Walked
  <2>2. /\ IterateAt(o, BelowIn(o), PreorderIn(o), ContinuationOf(o, G.from), lv, rv, H)
        /\ Walk(o, NodesOf(o), BelowIn(o), PreorderIn(o), ContinuationOf(o, G.from), H)
    BY <1>3, <2>1, IterateFromCalled
  <2>3. InIterate(o, t, lv, rv, fl, fr, H)
    BY <2>1, <2>2 DEF InIterate, Walked
  <2> QED
    BY <1>5, <2>3 DEF Working
<1>6. CASE G.op = "destroy"
  <2>1. InDestroy(o, t, lv, rv, fl, fr, H)
    BY <1>1, <1>3, <1>6 DEF InDestroy, DestroyAt
  <2> QED
    BY <1>6, <2>1 DEF Working
<1> QED
  BY <1>4, <1>5, <1>6, FrameIs

LEMMA UserReturnsStep ==
    ASSUME WellFormed(original), NEW t \in Callers, NEW G, G = Top(t), G \in FrameSet, G.op # "search", Now(G),
           UserReturns(t)
    PROVE  \E H : GoesOn(t, G, H)
<1>1. /\ G.pc \in {"called", "answered"}
      /\ UNCHANGED <<original, tree, left_visited, right_visited, should_not_be_modified, freed, calls>>
  BY DEF UserReturns, Locals, nodeVars
<1>2. PICK e \in BOOLEAN : Becomes(t, Answered(G, e))
  BY DEF UserReturns
<1>3. PICK H : H = Answered(G, e)
  OBVIOUS
<1>4. "handed" \in FrameLabels
  BY DEF FrameLabels
<1>5. /\ H \in FrameSet /\ H.op = G.op /\ H.from = G.from /\ H.root = G.root /\ H.current = G.current
      /\ H.seen = G.seen /\ H.pc = "handed"
  BY <1>3, <1>4 DEF FrameSet, Answered
<1>6. Resumes(G, H)
  BY <1>1, <1>5 DEF Resumes
<1>7. Working(original, tree, left_visited, right_visited, should_not_be_modified, freed, H)
  BY <1>6, CalledWorks DEF Now
<1> QED
  BY <1>1, <1>2, <1>3, <1>5, <1>7 DEF GoesOn

LEMMA DestroyNow ==
    ASSUME WellFormed(original), NEW G, G \in FrameSet, G.op = "destroy", G.pc \notin {"enter", "done"}, Now(G)
    PROVE  /\ should_not_be_modified = TRUE /\ NoMarks(left_visited, right_visited)
           /\ (NodesOf(original) = {} => tree = original)
           /\ DestroyAt(original, NodesOf(original), BelowIn(original), tree, freed, G)
           /\ tree \in Trees /\ NodesOf(original) \subseteq Keys
           /\ Shape(original, NodesOf(original), BelowIn(original))
           /\ Reduced(original, NodesOf(original), BelowIn(original), tree, freed, G.root)
<1>1. InDestroy(original, tree, left_visited, right_visited, should_not_be_modified, freed, G)
  BY WorkingIn DEF Now
<1>2. NodesOf(original) \subseteq Keys
  BY Original
<1>3. Reduced(original, NodesOf(original), BelowIn(original), tree, freed, G.root)
  BY <1>1 DEF InDestroy, DestroyAt
<1>4. tree \in Trees
  BY <1>3 DEF Reduced
<1> QED
  BY <1>1, <1>2, <1>3, <1>4 DEF InDestroy, DestroyAt

LEMMA DestroyGoesOn ==
    ASSUME NEW t, NEW G, NEW H, H \in FrameSet, H.op = "destroy", G.op = "destroy", Becomes(t, H),
           should_not_be_modified = TRUE, NoMarks(left_visited, right_visited),
           UNCHANGED <<original, left_visited, right_visited, should_not_be_modified>>,
           NodesOf(original) = {} => tree' = original,
           DestroyAt(original, NodesOf(original), BelowIn(original), tree', freed', H)
    PROVE  GoesOn(t, G, H)
<1>1. InDestroy(original', tree', left_visited', right_visited', should_not_be_modified', freed', H)
  BY DEF InDestroy
<1> QED
  BY <1>1 DEF GoesOn, Working

\* t with a link of x cut.
LEMMA CutIs ==
    ASSUME NEW t, t \in Trees, NEW x \in Keys, NEW e \in Sides, NEW u,
           u = IF e = 0 THEN [t EXCEPT !.left[x] = NULL] ELSE [t EXCEPT !.right[x] = NULL]
    PROVE  /\ u \in Trees /\ u.root = t.root /\ u.parent = t.parent
           /\ \A y \in Keys, d \in Sides : Child(u, y, d) = IF y = x /\ d = e THEN NULL ELSE Child(t, y, d)
<1>1. CASE e = 0
  <2>1. u = [t EXCEPT !.left[x] = NULL]
    BY <1>1
  <2> QED
    BY <1>1, <2>1 DEF Trees, Pointers, Child, Sides
<1>2. CASE e = 1
  <2>1. u = [t EXCEPT !.right[x] = NULL]
    BY <1>2
  <2> QED
    BY <1>2, <2>1 DEF Trees, Pointers, Child, Sides
<1> QED
  BY <1>1, <1>2 DEF Sides

LEMMA DestroyDownStep ==
    ASSUME WellFormed(original), NEW t \in Callers, NEW G, G = Top(t), G \in FrameSet, Now(G), DestroyDown(t)
    PROVE  \E H : GoesOn(t, G, H)
<1>1. /\ G.op = "destroy" /\ G.pc = "head" /\ G.root # NULL
      /\ UNCHANGED <<original, left_visited, right_visited, should_not_be_modified, freed, calls>>
  BY DEF DestroyDown, In
<1>2. /\ should_not_be_modified = TRUE /\ NoMarks(left_visited, right_visited)
      /\ DestroyAt(original, NodesOf(original), BelowIn(original), tree, freed, G)
      /\ tree \in Trees /\ NodesOf(original) \subseteq Keys
      /\ Shape(original, NodesOf(original), BelowIn(original))
      /\ Reduced(original, NodesOf(original), BelowIn(original), tree, freed, G.root)
  BY <1>1, DestroyNow
<1>3. G.root \in NodesOf(original) /\ G.root \in Keys
  BY <1>1, <1>2 DEF Reduced
<1>4. PICK e \in Sides : /\ Child(tree, G.root, e) # NULL
                         /\ tree' = IF e = 0 THEN [tree EXCEPT !.left[G.root] = NULL]
                                    ELSE [tree EXCEPT !.right[G.root] = NULL]
                         /\ Becomes(t, [G EXCEPT !.root = Child(tree, G.root, e)])
  <2>1. CASE tree.left[G.root] # NULL
    <3>1. /\ tree' = [tree EXCEPT !.left[G.root] = NULL]
          /\ Becomes(t, [G EXCEPT !.root = tree.left[G.root]])
      BY <2>1 DEF DestroyDown
    <3>2. Child(tree, G.root, 0) = tree.left[G.root] /\ 0 \in Sides
      BY DEF Child, Sides
    <3> QED
      BY <2>1, <3>1, <3>2
  <2>2. CASE tree.left[G.root] = NULL
    <3>1. /\ tree' = [tree EXCEPT !.right[G.root] = NULL]
          /\ Becomes(t, [G EXCEPT !.root = tree.right[G.root]])
          /\ tree.right[G.root] # NULL
      BY <2>2 DEF DestroyDown
    <3>2. Child(tree, G.root, 1) = tree.right[G.root] /\ 1 \in Sides /\ 1 # 0
      BY DEF Child, Sides
    <3> QED
      BY <3>1, <3>2
  <2> QED
    BY <2>1, <2>2
<1>5. /\ tree' \in Trees /\ tree'.root = tree.root /\ tree'.parent = tree.parent
      /\ \A y \in Keys, d \in Sides :
           Child(tree', y, d) = IF y = G.root /\ d = e THEN NULL ELSE Child(tree, y, d)
  BY <1>2, <1>3, <1>4, CutIs
<1>6. /\ Reduced(original, NodesOf(original), BelowIn(original), tree', freed, Child(tree, G.root, e))
      /\ Child(tree, G.root, e) \in NodesOf(original)
  <2>1. PICK u : u = tree'
    OBVIOUS
  <2>2. /\ u \in Trees /\ u.root = tree.root /\ u.parent = tree.parent
        /\ \A y \in Keys, d \in Sides :
             Child(u, y, d) = IF y = G.root /\ d = e THEN NULL ELSE Child(tree, y, d)
    BY <1>5, <2>1
  <2>3. Child(tree, G.root, e) # NULL
    BY <1>4
  <2>4. Reduced(original, NodesOf(original), BelowIn(original), u, freed, Child(tree, G.root, e))
        /\ Child(tree, G.root, e) \in NodesOf(original)
    BY <1>2, <1>3, <2>2, <2>3, ReducedDown
  <2> QED
    BY <2>1, <2>4
<1>7. PICK x : x = Child(tree, G.root, e)
  OBVIOUS
<1>8. x \in Spots /\ x # NULL
  BY <1>2, <1>6, <1>7, KeysAssumption DEF Spots
<1>9. PICK H : H = [G EXCEPT !.root = x]
  OBVIOUS
<1>10. H \in FrameSet /\ H.op = "destroy" /\ H.pc = "head" /\ H.root = x /\ H.seen = G.seen
  BY <1>1, <1>8, <1>9 DEF FrameSet
<1>11. Becomes(t, H)
  BY <1>4, <1>7, <1>9
<1>12. G.seen \in Seq(Keys) /\ Len(G.seen) = Cardinality(freed)
  BY <1>1, <1>2 DEF DestroyAt
<1>13. DestroyAt(original, NodesOf(original), BelowIn(original), tree', freed', H)
  BY <1>1, <1>2, <1>6, <1>7, <1>8, <1>10, <1>12 DEF DestroyAt
<1> QED
  BY <1>1, <1>2, <1>3, <1>10, <1>11, <1>13, DestroyGoesOn

LEMMA DestroyLeafStep ==
    ASSUME WellFormed(original), NEW t \in Callers, NEW G, G = Top(t), G \in FrameSet, Now(G), DestroyLeaf(t)
    PROVE  \E H : GoesOn(t, G, H)
<1>1. /\ G.op = "destroy" /\ G.pc = "head" /\ G.root # NULL
      /\ tree.left[G.root] = NULL /\ tree.right[G.root] = NULL
      /\ UNCHANGED <<original, tree, left_visited, right_visited, should_not_be_modified, freed, calls>>
  BY DEF DestroyLeaf, In, Locals, nodeVars
<1>2. /\ should_not_be_modified = TRUE /\ NoMarks(left_visited, right_visited)
      /\ (NodesOf(original) = {} => tree = original)
      /\ DestroyAt(original, NodesOf(original), BelowIn(original), tree, freed, G)
      /\ NodesOf(original) \subseteq Keys
      /\ Shape(original, NodesOf(original), BelowIn(original))
      /\ Reduced(original, NodesOf(original), BelowIn(original), tree, freed, G.root)
  BY <1>1, DestroyNow
<1>3. G.root \in NodesOf(original) /\ G.root \in Keys
  BY <1>1, <1>2 DEF Reduced
<1>4. G.seen \in Seq(Keys) /\ Len(G.seen) = Cardinality(freed)
  BY <1>1, <1>2 DEF DestroyAt
<1>5. PICK s : s = Append(G.seen, G.root)
  OBVIOUS
<1>6. s \in Seq(Keys) /\ Len(s) = Cardinality(freed) + 1
  BY <1>3, <1>4, <1>5
<1>7. s \in KeyLists
  BY <1>6 DEF KeyLists
<1>8. "called" \in FrameLabels
  BY DEF FrameLabels
<1>9. PICK H : H = [G EXCEPT !.pc = "called", !.seen = s]
  OBVIOUS
<1>10. H \in FrameSet /\ H.op = "destroy" /\ H.pc = "called" /\ H.root = G.root /\ H.seen = s
  BY <1>1, <1>7, <1>8, <1>9 DEF FrameSet
<1>11. Becomes(t, H)
  BY <1>5, <1>9 DEF DestroyLeaf, Hand
<1>12. \A d \in Sides : Child(tree, G.root, d) = NULL
  BY <1>1 DEF Child, Sides
<1>13. DestroyAt(original, NodesOf(original), BelowIn(original), tree', freed', H)
  BY <1>1, <1>2, <1>3, <1>6, <1>10, <1>12 DEF DestroyAt
<1> QED
  BY <1>1, <1>2, <1>10, <1>11, <1>13, DestroyGoesOn

LEMMA DestroyFreeStep ==
    ASSUME WellFormed(original), NEW t \in Callers, NEW G, G = Top(t), G \in FrameSet, Now(G), DestroyFree(t)
    PROVE  \E H : GoesOn(t, G, H)
<1>1. /\ G.op = "destroy" /\ G.pc = "handed" /\ freed' = freed \cup {G.root}
      /\ UNCHANGED <<original, tree, left_visited, right_visited, should_not_be_modified, calls>>
  BY DEF DestroyFree, In, nodeVars
<1>2. /\ should_not_be_modified = TRUE /\ NoMarks(left_visited, right_visited)
      /\ (NodesOf(original) = {} => tree = original)
      /\ DestroyAt(original, NodesOf(original), BelowIn(original), tree, freed, G)
      /\ NodesOf(original) \subseteq Keys
      /\ Shape(original, NodesOf(original), BelowIn(original))
      /\ Reduced(original, NodesOf(original), BelowIn(original), tree, freed, G.root)
  BY <1>1, DestroyNow
<1>3. /\ G.root \in NodesOf(original) /\ \A d \in Sides : Child(tree, G.root, d) = NULL
      /\ G.seen \in Seq(Keys) /\ Len(G.seen) = Cardinality(freed) + 1
  BY <1>1, <1>2 DEF DestroyAt
<1>4. PICK x : x = tree.parent[G.root]
  OBVIOUS
<1>5. /\ Reduced(original, NodesOf(original), BelowIn(original), tree, freed \cup {G.root}, x)
      /\ x = NULL => freed \cup {G.root} = NodesOf(original)
      /\ G.root \notin freed /\ IsFiniteSet(freed)
  <2>1. PICK r \in NodesOf(original) : r = G.root
    BY <1>3
  <2>2. /\ Reduced(original, NodesOf(original), BelowIn(original), tree, freed \cup {r}, tree.parent[r])
        /\ tree.parent[r] = NULL => freed \cup {r} = NodesOf(original)
        /\ r \notin freed /\ IsFiniteSet(freed)
    <3>1. /\ Shape(original, NodesOf(original), BelowIn(original))
          /\ Reduced(original, NodesOf(original), BelowIn(original), tree, freed, r)
          /\ \A d \in Sides : Child(tree, r, d) = NULL
      BY <1>2, <1>3, <2>1
    <3> QED
      BY <3>1, ReducedFree
  <2> QED
    BY <1>4, <2>1, <2>2
<1>6. Cardinality(freed \cup {G.root}) = Cardinality(freed) + 1
  BY <1>5, FS_AddElement
<1>7. x \in Spots
  BY <1>2, <1>5 DEF Reduced, Spots
<1>8. "head" \in FrameLabels
  BY DEF FrameLabels
<1>9. PICK H : H = [G EXCEPT !.pc = "head", !.root = x]
  OBVIOUS
<1>10. H \in FrameSet /\ H.op = "destroy" /\ H.pc = "head" /\ H.root = x /\ H.seen = G.seen
  BY <1>1, <1>7, <1>8, <1>9 DEF FrameSet
<1>11. Becomes(t, H)
  BY <1>4, <1>9 DEF DestroyFree
<1>12. DestroyAt(original, NodesOf(original), BelowIn(original), tree', freed', H)
  BY <1>1, <1>2, <1>3, <1>5, <1>6, <1>10 DEF DestroyAt
<1> QED
  BY <1>1, <1>2, <1>10, <1>11, <1>12, DestroyGoesOn

LEMMA RootCleared ==
    ASSUME NEW t, t \in Trees, NEW u, u = [t EXCEPT !.root = NULL]
    PROVE  u \in Trees /\ u.root = NULL /\ (t.root = NULL => u = t)
BY DEF Trees

LEMMA DestroyEndStep ==
    ASSUME WellFormed(original), NEW t \in Callers, NEW G, G = Top(t), G \in FrameSet, Now(G), DestroyEnd(t)
    PROVE  \E H : GoesOn(t, G, H)
<1>1. /\ G.op = "destroy" /\ G.pc = "head" /\ G.root = NULL /\ should_not_be_modified' = FALSE
      /\ tree' = [tree EXCEPT !.root = NULL]
      /\ UNCHANGED <<original, left_visited, right_visited, freed, calls>>
  BY DEF DestroyEnd, In, Finish
<1>2. /\ NoMarks(left_visited, right_visited)
      /\ (NodesOf(original) = {} => tree = original)
      /\ DestroyAt(original, NodesOf(original), BelowIn(original), tree, freed, G)
      /\ tree \in Trees
  BY <1>1, DestroyNow
<1>3. freed = NodesOf(original) /\ Len(G.seen) = Cardinality(freed)
  BY <1>1, <1>2 DEF DestroyAt
<1>4. tree' \in Trees /\ tree'.root = NULL /\ (tree.root = NULL => tree' = tree)
  BY <1>1, <1>2, RootCleared
<1>5. freed = {} => tree' = original
  BY <1>2, <1>3, <1>4, Original
<1>6. "done" \in FrameLabels
  BY DEF FrameLabels
<1>7. PICK H : H = [G EXCEPT !.pc = "done"]
  OBVIOUS
<1>8. H \in FrameSet /\ H.op = "destroy" /\ H.pc = "done" /\ H.root = NULL /\ H.seen = G.seen
  BY <1>1, <1>6, <1>7 DEF FrameSet
<1>9. Becomes(t, H)
  BY <1>7 DEF DestroyEnd, Finish
<1>10. Ended(original', tree', left_visited', right_visited', should_not_be_modified', freed')
  BY <1>1, <1>2, <1>3, <1>4, <1>5 DEF Ended
<1>11. Returning(original', tree', left_visited', right_visited', should_not_be_modified', freed', H)
  BY <1>1, <1>3, <1>8, <1>10 DEF Returning, Traversals
<1> QED
  BY <1>1, <1>8, <1>9, <1>11 DEF GoesOn, Working

-----------------------------------------------------------------------------
(***************************************************************************)
(* The searches, which may go on while a call of another thread, or of     *)
(* their own, is in its user function or between two of its steps.         *)
(***************************************************************************)
Sought(o, t, fr, F) ==
    /\ F.op = "search" /\ F.pc \in {"enter", "down", "done"} /\ F.key \in Int
    /\ F.current \in (NodesOf(o) \cup {NULL}) \ fr
    /\ LinksKept(o, t) => /\ F.pc = "down" /\ F.key \in NodesOf(o) => F.key \in BelowIn(o)[F.current]
                          /\ F.pc = "done" => (F.failed <=> F.key \notin NodesOf(o))

LEMMA SearchBegins ==
    ASSUME NEW o, WellFormed(o), NEW t, NEW fr, Safe(o, t, fr), NEW F, NEW H, Sought(o, t, fr, F),
           H.op = "search", H.pc = "down", H.key = F.key, H.current = t.root
    PROVE  Sought(o, t, fr, H)
<1>1. BelowIn(o)[o.root] = NodesOf(o)
  BY DEF NodesOf
<1> QED
  BY <1>1 DEF Sought, Safe, LinksKept

LEMMA SearchGoesDown ==
    ASSUME NEW o, WellFormed(o), NEW t, NEW fr, Safe(o, t, fr), NEW F, NEW H, Sought(o, t, fr, F),
           F.pc = "down", F.current # NULL, F.current # F.key,
           H.op = "search", H.pc = "down", H.key = F.key,
           H.current = (IF F.key < F.current THEN t.left[F.current] ELSE t.right[F.current])
    PROVE  Sought(o, t, fr, H)
<1> DEFINE x == F.current
           k == F.key
<1>1. x \in NodesOf(o) \ fr /\ k \in Int /\ k # x /\ x # NULL
  BY DEF Sought
<1>2. Shape(o, NodesOf(o), BelowIn(o))
  BY Original
<1>3. /\ x \in Int /\ BelowIn(o)[NULL] = {}
      /\ BelowIn(o)[x] = {x} \cup BelowIn(o)[o.left[x]] \cup BelowIn(o)[o.right[x]]
      /\ \A y \in BelowIn(o)[o.left[x]] : y \in Int /\ y < x
      /\ \A y \in BelowIn(o)[o.right[x]] : y \in Int /\ x < y
  <2> HIDE DEF x, k
  <2> QED
    BY <1>1, <1>2, LinksOf
<1>4. H.current \in (NodesOf(o) \cup {NULL}) \ fr
  BY <1>1 DEF Safe
<1>5. ASSUME LinksKept(o, t), k \in NodesOf(o)
      PROVE  k \in BelowIn(o)[H.current]
  <2>1. k \in BelowIn(o)[x]
    BY <1>5 DEF Sought
  <2>2. CASE k < x
    <3>1. H.current = o.left[x]
      BY <1>5, <2>2 DEF LinksKept
    <3>2. k \notin BelowIn(o)[o.right[x]]
      BY <1>1, <1>3, <2>2
    <3> QED
      BY <1>1, <1>3, <2>1, <3>1, <3>2
  <2>3. CASE ~(k < x)
    <3>1. k \in BelowIn(o)[o.right[x]]
      BY <1>1, <1>3, <2>1, <2>3
    <3>2. o.right[x] # NULL
      BY <1>3, <3>1
    <3>3. H.current = o.right[x]
      BY <1>1, <1>5, <2>3, <3>2 DEF LinksKept
    <3> QED
      BY <3>1, <3>3
  <2> QED
    BY <2>2, <2>3
<1> QED
  BY <1>1, <1>4, <1>5 DEF Sought

LEMMA SearchEnds ==
    ASSUME NEW o, WellFormed(o), NEW t, NEW fr, NEW F, NEW H, Sought(o, t, fr, F),
           F.pc = "down", F.current = NULL \/ F.current = F.key,
           H.op = "search", H.pc = "done", H.key = F.key, H.current = F.current,
           H.failed <=> F.current = NULL
    PROVE  Sought(o, t, fr, H)
<1>1. BelowIn(o)[NULL] = {} /\ NodesOf(o) \subseteq Keys /\ NULL \notin Keys
  BY Original, KeysAssumption DEF Shape
<1> QED
  BY <1>1 DEF Sought

\* The links do not change for a search.
SameForSearch ==
    /\ original' = original /\ freed' = freed
    /\ tree' = tree \/ (LinksKept(original, tree) /\ LinksKept(original, tree'))

LEMMA SoughtStays ==
    ASSUME SameForSearch, NEW F, Sought(original, tree, freed, F)
    PROVE  Sought(original', tree', freed', F)
<1>1. CASE tree' = tree
  BY <1>1 DEF SameForSearch
<1>2. CASE tree' # tree
  <2>1. LinksKept(original, tree) /\ original' = original /\ freed' = freed
    BY <1>2 DEF SameForSearch
  <2> QED
    BY <2>1 DEF Sought
<1> QED
  BY <1>1, <1>2

-----------------------------------------------------------------------------
(***************************************************************************)
(* The inductive invariant, for the thread T that alone may do more than   *)
(* search.                                                                 *)
(***************************************************************************)
Alone(T) ==
    /\ \A u \in Callers \ {T} : Ops[u] \subseteq {"search"}
    /\ \A op \in Traversals \cup {"destroy"} : Nested[op] \subseteq {"search"}

MayOnlySearch(u) ==
    stack[u] = << >> \/ (Len(stack[u]) = 1 /\ Sought(original, tree, freed, stack[u][1]))

OthersIdle(T) == \A u \in Callers \ {T} : stack[u] = << >>

Quiet(T) ==
    \/ Calm(original, tree, left_visited, right_visited, should_not_be_modified, freed)
    \/ /\ Ended(original, tree, left_visited, right_visited, should_not_be_modified, freed)
       /\ freed # {} /\ OthersIdle(T) /\ stack[T] = << >>

Busy(T, G) == G.op # "search" /\ Now(G) /\ (G.op = "destroy" => OthersIdle(T))

Main(T) ==
    \/ MayOnlySearch(T) /\ Quiet(T)
    \/ Len(stack[T]) = 1 /\ Busy(T, stack[T][1])
    \/ /\ Len(stack[T]) = 2 /\ Busy(T, stack[T][2])
       /\ stack[T][2].pc = "called" /\ Sought(original, tree, freed, stack[T][1])

Stacks == stack \in [Callers -> Seq(FrameSet)]

WalkInv(T) ==
    /\ original \in Originals /\ Stacks
    /\ \A u \in Callers \ {T} : MayOnlySearch(u)
    /\ Main(T)

LEMMA WalkWellFormed ==
    ASSUME original \in Originals
    PROVE  WellFormed(original)
BY OriginalsAssumption

\* What Becomes does to the stacks.
LEMMA BecomesIs ==
    ASSUME Stacks, NEW t \in Callers, stack[t] # << >>, NEW e \in FrameSet, Becomes(t, e)
    PROVE  /\ Stacks' /\ \A u \in Callers \ {t} : stack'[u] = stack[u]
           /\ Len(stack'[t]) = Len(stack[t]) /\ stack'[t][1] = e
           /\ Len(stack[t]) = 2 => stack'[t][2] = stack[t][2]
<1>1. PICK s \in Seq(FrameSet) : s = stack[t]
  BY DEF Stacks
<1>2. Len(s) \in Nat /\ 1 \in 1 .. Len(s) /\ s # << >>
  BY <1>1
<1>3. PICK r : r = [s EXCEPT ![1] = e]
  OBVIOUS
<1>4. r \in Seq(FrameSet) /\ Len(r) = Len(s) /\ \A i \in 1 .. Len(s) : r[i] = IF i = 1 THEN e ELSE s[i]
  BY <1>2, <1>3, ExceptSeq
<1>5. stack' = [stack EXCEPT ![t] = r]
  BY <1>1, <1>3 DEF Becomes, Stacks
<1>6. stack' \in [Callers -> Seq(FrameSet)] /\ stack'[t] = r /\ \A u \in Callers \ {t} : stack'[u] = stack[u]
  BY <1>4, <1>5 DEF Stacks
<1>7. r[1] = e /\ (Len(s) = 2 => r[2] = s[2])
  BY <1>2, <1>4
<1> QED
  BY <1>1, <1>4, <1>6, <1>7 DEF Stacks

-----------------------------------------------------------------------------
(***************************************************************************)
(* Every step keeps the invariant.                                         *)
(***************************************************************************)
\* The steps of a call other than a search, but for its return.
Steps(t) ==
    \/ Begin(t) \/ UserReturns(t)
    \/ MorrisHead(t) \/ MorrisFind(t) \/ MorrisUnthread(t) \/ MorrisThread(t)
    \/ MorrisNext(t) \/ MorrisEnd(t)
    \/ IterateNull(t) \/ IterateFirst(t) \/ IterateLeft(t) \/ IterateRight(t) \/ IterateUp(t)
    \/ DestroyDown(t) \/ DestroyLeaf(t) \/ DestroyFree(t) \/ DestroyEnd(t)

LEMMA StepsGoOn ==
    ASSUME WellFormed(original), NEW t \in Callers, NEW G, G = Top(t), G \in FrameSet, G.op # "search", Now(G),
           Steps(t)
    PROVE  \E H : GoesOn(t, G, H)
<1>1. CASE Begin(t)
  BY <1>1, BeginStep
<1>2. CASE UserReturns(t)
  BY <1>2, UserReturnsStep
<1>3. CASE MorrisHead(t)
  BY <1>3, MorrisHeadStep
<1>4. CASE MorrisFind(t)
  BY <1>4, MorrisFindStep
<1>5. CASE MorrisUnthread(t)
  BY <1>5, MorrisUnthreadStep
<1>6. CASE MorrisThread(t)
  BY <1>6, MorrisThreadStep
<1>7. CASE MorrisNext(t)
  BY <1>7, MorrisNextStep
<1>8. CASE MorrisEnd(t)
  BY <1>8, MorrisEndStep
<1>9. CASE IterateNull(t)
  BY <1>9, IterateNullStep
<1>10. CASE IterateFirst(t)
  BY <1>10, IterateFirstStep
<1>11. CASE IterateLeft(t)
  BY <1>11, IterateLeftStep
<1>12. CASE IterateRight(t)
  BY <1>12, IterateRightStep
<1>13. CASE IterateUp(t)
  BY <1>13, IterateUpStep
<1>14. CASE DestroyDown(t)
  BY <1>14, DestroyDownStep
<1>15. CASE DestroyLeaf(t)
  BY <1>15, DestroyLeafStep
<1>16. CASE DestroyFree(t)
  BY <1>16, DestroyFreeStep
<1>17. CASE DestroyEnd(t)
  BY <1>17, DestroyEndStep
<1> QED
  BY <1>1, <1>2, <1>3, <1>4, <1>5, <1>6, <1>7, <1>8, <1>9, <1>10, <1>11, <1>12, <1>13, <1>14,
     <1>15, <1>16, <1>17 DEF Steps

\* What the thread that may only search is in.
LEMMA TopFrame ==
    ASSUME NEW T \in Callers, WalkInv(T), NEW t \in Callers, stack[t] # << >>
    PROVE  /\ Top(t) \in FrameSet /\ Top(t) = stack[t][1]
           /\ Top(t).op = "search" => Sought(original, tree, freed, Top(t))
           /\ Top(t).op # "search" => t = T /\ Len(stack[t]) = 1 /\ Busy(T, Top(t))
<1>1. stack[t] \in Seq(FrameSet)
  BY DEF WalkInv, Stacks
<1>2. stack[t][1] \in FrameSet
  <2>1. 1 \in 1 .. Len(stack[t])
    BY <1>1
  <2> QED
    BY <1>1, <2>1
<1>3. Top(t) = stack[t][1]
  BY DEF Top
<1>4. CASE MayOnlySearch(t)
  BY <1>2, <1>3, <1>4 DEF MayOnlySearch, Sought
<1>5. CASE ~MayOnlySearch(t)
  <2>1. t = T
    BY <1>5 DEF WalkInv
  <2>2. \/ Len(stack[T]) = 1 /\ Busy(T, stack[T][1])
        \/ Sought(original, tree, freed, stack[T][1])
    BY <1>5, <2>1 DEF WalkInv, Main
  <2> QED
    BY <1>2, <1>3, <2>1, <2>2 DEF Busy, Sought
<1> QED
  BY <1>4, <1>5

LEMMA OthersStay ==
    ASSUME SameForSearch, NEW u \in Callers, stack'[u] = stack[u], MayOnlySearch(u)
    PROVE  MayOnlySearch(u)'
BY SoughtStays DEF MayOnlySearch

LEMMA StepsKeep ==
    ASSUME NEW T \in Callers, WalkInv(T), NEW t \in Callers, stack[t] # << >>, Top(t).op # "search", Steps(t)
    PROVE  WalkInv(T)'
<1>1. WellFormed(original) /\ Stacks /\ original \in Originals
  BY WalkWellFormed DEF WalkInv
<1>2. PICK G : G = Top(t)
  OBVIOUS
<1>3. G \in FrameSet /\ G.op # "search" /\ t = T /\ Len(stack[t]) = 1 /\ Busy(T, G)
  BY <1>2, TopFrame
<1>4. Now(G) /\ (G.op = "destroy" => OthersIdle(T))
  BY <1>3 DEF Busy
<1>5. PICK H : GoesOn(t, G, H)
  BY <1>1, <1>2, <1>3, <1>4, StepsGoOn
<1>6. /\ Becomes(t, H) /\ H \in FrameSet /\ H.op = G.op
      /\ original' = original /\ (G.op = "destroy" \/ freed' = freed)
      /\ Now(H)'
  BY <1>5 DEF GoesOn, Now
<1>7. /\ Stacks' /\ \A u \in Callers \ {t} : stack'[u] = stack[u]
      /\ Len(stack'[t]) = Len(stack[t]) /\ stack'[t][1] = H
  BY <1>1, <1>6, BecomesIs
<1>8. Main(T)'
  BY <1>3, <1>4, <1>6, <1>7 DEF Main, Busy, OthersIdle
<1>9. ASSUME NEW u \in Callers \ {T}
      PROVE  MayOnlySearch(u)'
  <2>1. CASE G.op = "destroy"
    BY <1>3, <1>4, <1>7, <2>1 DEF OthersIdle, MayOnlySearch
  <2>2. CASE G.op # "destroy"
    <3>1. G.op \in Traversals \cup {"destroy"} /\ H.op \in Traversals \cup {"destroy"}
      BY <1>3, <1>6, FrameIs DEF Traversals
    <3>2. LinksKept(original, tree)
      BY <1>1, <1>4, <2>2, <3>1, WorkingTree DEF Now
    <3>3. Working(original, tree', left_visited', right_visited', should_not_be_modified', freed', H)
      BY <1>6 DEF Now
    <3>4. LinksKept(original, tree')
      BY <1>1, <1>6, <2>2, <3>1, <3>3, WorkingTree
    <3>5. SameForSearch
      BY <1>6, <2>2, <3>2, <3>4 DEF SameForSearch
    <3>6. stack'[u] = stack[u] /\ MayOnlySearch(u)
      BY <1>3, <1>7 DEF WalkInv
    <3> QED
      BY <3>5, <3>6, OthersStay
  <2> QED
    BY <2>1, <2>2
<1> QED
  BY <1>1, <1>6, <1>7, <1>8, <1>9 DEF WalkInv

\* What every state is but between two steps of destroy.
LEMMA WalkSafe ==
    ASSUME NEW T \in Callers, WalkInv(T), NEW t \in Callers, stack[t] # << >>, Top(t).op = "search"
    PROVE  Safe(original, tree, freed)
<1>1. WellFormed(original)
  BY WalkWellFormed DEF WalkInv
<1>2. CASE Quiet(T)
  BY <1>1, <1>2, CalmIs, EndedIs DEF Quiet
<1>3. ASSUME NEW G, Busy(T, G), G.pc = "called" \/ G.op # "destroy", G.op \in OpNames
      PROVE  Safe(original, tree, freed)
  <2>1. G.op \in Traversals \cup {"destroy"} /\ Now(G) /\ (G.pc # "head" \/ G.op # "destroy")
    BY <1>3 DEF Busy, OpNames
  <2> QED
    BY <1>1, <2>1, WorkingTree DEF Now
<1>4. CASE Len(stack[T]) = 1 /\ Busy(T, stack[T][1])
  <2>1. stack[T][1] \in FrameSet
    <3>1. stack[T] \in Seq(FrameSet) /\ 1 \in 1 .. Len(stack[T])
      BY <1>4 DEF WalkInv, Stacks
    <3> QED
      BY <3>1
  <2>2. t # T
    BY <1>4 DEF Top, Busy
  <2>3. ~OthersIdle(T)
    BY <2>2 DEF OthersIdle
  <2>4. stack[T][1].op # "destroy"
    BY <1>4, <2>3 DEF Busy
  <2> QED
    BY <1>3, <1>4, <2>1, <2>4, FrameIs
<1>5. CASE Len(stack[T]) = 2 /\ Busy(T, stack[T][2]) /\ stack[T][2].pc = "called"
  <2>1. stack[T][2] \in FrameSet
    <3>1. stack[T] \in Seq(FrameSet) /\ 2 \in 1 .. Len(stack[T])
      BY <1>5 DEF WalkInv, Stacks
    <3> QED
      BY <3>1
  <2> QED
    BY <1>3, <1>5, <2>1, FrameIs
<1> QED
  BY <1>2, <1>4, <1>5 DEF WalkInv, Main

\* A step of a search, whose frame is H after it.
LEMMA SearchGoesOn ==
    ASSUME NEW T \in Callers, WalkInv(T), NEW t \in Callers, stack[t] # << >>, Top(t).op = "search",
           NEW H, H \in FrameSet, Becomes(t, H), Sought(original, tree, freed, H), Locals
    PROVE  WalkInv(T)'
<1>1. Stacks /\ original \in Originals
  BY DEF WalkInv
<1>2. UNCHANGED <<original, tree, left_visited, right_visited, should_not_be_modified, freed>>
  BY DEF Locals, nodeVars
<1>3. /\ Stacks' /\ \A u \in Callers \ {t} : stack'[u] = stack[u]
      /\ Len(stack'[t]) = Len(stack[t]) /\ stack'[t][1] = H
      /\ Len(stack[t]) = 2 => stack'[t][2] = stack[t][2]
  BY <1>1, BecomesIs
<1>4. SameForSearch
  BY <1>2 DEF SameForSearch
<1>5. ASSUME NEW u \in Callers, MayOnlySearch(u)
      PROVE  MayOnlySearch(u)'
  <2>1. CASE u = t
    BY <1>2, <1>3, <1>5, <2>1 DEF MayOnlySearch
  <2>2. CASE u # t
    BY <1>3, <1>4, <1>5, <2>2, OthersStay
  <2> QED
    BY <2>1, <2>2
<1>6. ASSUME NEW G
      PROVE  Now(G) => Now(G)'
  BY <1>2 DEF Now
<1>7. ASSUME NEW u \in Callers, stack[u] = << >>
      PROVE  stack'[u] = << >>
  BY <1>3, <1>7
<1>8. OthersIdle(T) => OthersIdle(T)'
  BY <1>7 DEF OthersIdle
<1>9. Main(T)'
  <2>1. CASE MayOnlySearch(T) /\ Quiet(T)
    <3>1. Quiet(T)'
      BY <1>2, <1>7, <1>8, <2>1 DEF Quiet
    <3> QED
      BY <1>5, <2>1, <3>1 DEF Main
  <2>2. CASE Len(stack[T]) = 1 /\ Busy(T, stack[T][1])
    <3>1. t # T
      BY <2>2 DEF Top, Busy
    <3>2. stack'[T] = stack[T]
      BY <1>3, <3>1
    <3> QED
      BY <1>6, <1>8, <2>2, <3>2 DEF Main, Busy
  <2>3. CASE /\ Len(stack[T]) = 2 /\ Busy(T, stack[T][2])
             /\ stack[T][2].pc = "called" /\ Sought(original, tree, freed, stack[T][1])
    <3> PICK G : G = stack[T][2]
      OBVIOUS
    <3>1. Len(stack'[T]) = 2 /\ stack'[T][2] = G /\ Sought(original, tree, freed, stack'[T][1])
      BY <1>3, <2>3
    <3>2. Busy(T, G)'
      BY <1>6, <1>8, <2>3 DEF Busy
    <3>3. Sought(original', tree', freed', stack'[T][1])
      BY <1>2, <3>1
    <3> QED
      BY <2>3, <3>1, <3>2, <3>3 DEF Main
  <2> QED
    BY <2>1, <2>2, <2>3 DEF WalkInv, Main
<1>10. ASSUME NEW u \in Callers \ {T}
       PROVE  MayOnlySearch(u)'
  BY <1>5, <1>10 DEF WalkInv
<1> QED
  BY <1>1, <1>2, <1>3, <1>9, <1>10 DEF WalkInv

LEMMA SearchStep ==
    ASSUME NEW T \in Callers, WalkInv(T), NEW t \in Callers, SearchEnter(t) \/ SearchDown(t)
    PROVE  WalkInv(T)'
<1>1. stack[t] # << >> /\ Top(t).op = "search" /\ Locals
  BY DEF SearchEnter, SearchDown, In
<1>2. PICK F : F = Top(t)
  OBVIOUS
<1>3. F \in FrameSet /\ Sought(original, tree, freed, F) /\ F.op = "search"
  BY <1>1, <1>2, TopFrame
<1>4. Safe(original, tree, freed) /\ WellFormed(original)
  BY <1>1, WalkSafe, WalkWellFormed DEF WalkInv
<1>5. NodesOf(original) \cup {NULL} \subseteq Spots
  BY <1>4, Original DEF Spots
<1>6. "down" \in FrameLabels /\ "done" \in FrameLabels
  BY DEF FrameLabels
<1>7. CASE SearchEnter(t)
  <2>1. PICK x : x = tree.root
    OBVIOUS
  <2>2. x \in Spots
    BY <1>4, <1>5, <2>1 DEF Safe
  <2>3. PICK H : H = [F EXCEPT !.pc = "down", !.current = x]
    OBVIOUS
  <2>4. H \in FrameSet /\ H.op = "search" /\ H.pc = "down" /\ H.key = F.key /\ H.current = x
    BY <1>3, <1>6, <2>2, <2>3 DEF FrameSet
  <2>5. Becomes(t, H)
    BY <1>2, <1>7, <2>1, <2>3 DEF SearchEnter
  <2>6. Sought(original, tree, freed, H)
    BY <1>3, <1>4, <2>1, <2>4, SearchBegins
  <2> QED
    BY <1>1, <2>4, <2>5, <2>6, SearchGoesOn
<1>8. CASE SearchDown(t) /\ F.current \in {NULL, F.key}
  <2>1. PICK b \in BOOLEAN : b = (F.current = NULL)
    OBVIOUS
  <2>2. PICK H : H = [F EXCEPT !.pc = "done", !.failed = b]
    OBVIOUS
  <2>3. /\ H \in FrameSet /\ H.op = "search" /\ H.pc = "done" /\ H.key = F.key
        /\ H.current = F.current /\ H.failed = b
    BY <1>3, <1>6, <2>2 DEF FrameSet
  <2>4. Becomes(t, H)
    BY <1>2, <1>8, <2>1, <2>2 DEF SearchDown
  <2>5. F.pc = "down"
    BY <1>2, <1>8 DEF SearchDown, In
  <2>6. Sought(original, tree, freed, H)
    BY <1>3, <1>4, <1>8, <2>1, <2>3, <2>5, SearchEnds
  <2> QED
    BY <1>1, <2>3, <2>4, <2>6, SearchGoesOn
<1>9. CASE SearchDown(t) /\ F.current \notin {NULL, F.key}
  <2>1. PICK x : x = IF F.key < F.current THEN tree.left[F.current] ELSE tree.right[F.current]
    OBVIOUS
  <2>2. x \in Spots
    <3>1. F.current \in NodesOf(original) \ freed
      BY <1>3, <1>9 DEF Sought
    <3> QED
      BY <1>4, <1>5, <2>1, <3>1 DEF Safe
  <2>3. PICK H : H = [F EXCEPT !.current = x]
    OBVIOUS
  <2>4. F.pc = "down"
    BY <1>2, <1>9 DEF SearchDown, In
  <2>5. H \in FrameSet /\ H.op = "search" /\ H.pc = "down" /\ H.key = F.key /\ H.current = x
    BY <1>3, <2>2, <2>3, <2>4 DEF FrameSet
  <2>6. Becomes(t, H)
    BY <1>2, <1>9, <2>1, <2>3 DEF SearchDown
  <2>7. Sought(original, tree, freed, H)
    BY <1>3, <1>4, <1>9, <2>1, <2>4, <2>5, SearchGoesDown
  <2> QED
    BY <1>1, <2>5, <2>6, <2>7, SearchGoesOn
<1> QED
  BY <1>7, <1>8, <1>9

LEMMA WalkTyped ==
    ASSUME NEW T \in Callers, WalkInv(T)
    PROVE  Typed(tree, left_visited, right_visited, should_not_be_modified, freed)
<1>1. WellFormed(original)
  BY WalkWellFormed DEF WalkInv
<1>2. CASE Quiet(T)
  BY <1>1, <1>2, CalmIs, EndedIs DEF Quiet
<1>3. ASSUME NEW G, Busy(T, G), G.op \in OpNames
      PROVE  Typed(tree, left_visited, right_visited, should_not_be_modified, freed)
  <2>1. G.op \in Traversals \cup {"destroy"} /\ Now(G)
    BY <1>3 DEF Busy, OpNames
  <2> QED
    BY <1>1, <2>1, WorkingTree DEF Now
<1>4. ASSUME NEW i \in 1 .. Len(stack[T])
      PROVE  stack[T][i].op \in OpNames
  <2>1. stack[T] \in Seq(FrameSet)
    BY DEF WalkInv, Stacks
  <2>2. stack[T][i] \in FrameSet
    BY <2>1
  <2> QED
    BY <2>2, FrameIs
<1>5. CASE Len(stack[T]) = 1 /\ Busy(T, stack[T][1])
  BY <1>3, <1>4, <1>5
<1>6. CASE Len(stack[T]) = 2 /\ Busy(T, stack[T][2])
  BY <1>3, <1>4, <1>6
<1> QED
  BY <1>2, <1>5, <1>6 DEF WalkInv, Main

\* What a call and a return do to the stacks.
LEMMA PushIs ==
    ASSUME Stacks, NEW t \in Callers, NEW e \in FrameSet, stack' = [stack EXCEPT ![t] = <<e>> \o @]
    PROVE  /\ Stacks' /\ \A u \in Callers \ {t} : stack'[u] = stack[u]
           /\ Len(stack'[t]) = Len(stack[t]) + 1 /\ stack'[t][1] = e
           /\ Len(stack[t]) = 1 => stack'[t][2] = stack[t][1]
<1>1. PICK s \in Seq(FrameSet) : s = stack[t]
  BY DEF Stacks
<1>2. PICK r : r = <<e>> \o s
  OBVIOUS
<1>3. r \in Seq(FrameSet) /\ Len(r) = Len(s) + 1
  BY <1>2, ConsIs
<1>4. r[1] = e /\ (Len(s) = 1 => r[2] = s[1])
  BY <1>2
<1>5. stack' = [stack EXCEPT ![t] = r]
  BY <1>1, <1>2
<1>6. stack' \in [Callers -> Seq(FrameSet)] /\ stack'[t] = r /\ \A u \in Callers \ {t} : stack'[u] = stack[u]
  BY <1>3, <1>5 DEF Stacks
<1> QED
  BY <1>1, <1>3, <1>4, <1>6 DEF Stacks

LEMMA PopIs ==
    ASSUME Stacks, NEW t \in Callers, NEW e \in FrameSet, Len(stack[t]) = 2,
           stack' = [stack EXCEPT ![t] = <<e>> \o SubSeq(stack[t], 3, Len(stack[t]))]
    PROVE  /\ Stacks' /\ \A u \in Callers \ {t} : stack'[u] = stack[u]
           /\ Len(stack'[t]) = 1 /\ stack'[t][1] = e
<1>1. PICK s \in Seq(FrameSet) : s = stack[t]
  BY DEF Stacks
<1>2. PICK z : z = SubSeq(s, 3, Len(s))
  OBVIOUS
<1>3. z \in Seq(FrameSet) /\ Len(z) = 0
  BY <1>1, <1>2
<1>4. PICK r : r = <<e>> \o z
  OBVIOUS
<1>5. r \in Seq(FrameSet) /\ Len(r) = 1 /\ r[1] = e
  BY <1>3, <1>4
<1>6. stack' = [stack EXCEPT ![t] = r]
  BY <1>1, <1>2, <1>4
<1>7. stack' \in [Callers -> Seq(FrameSet)] /\ stack'[t] = r /\ \A u \in Callers \ {t} : stack'[u] = stack[u]
  BY <1>5, <1>6 DEF Stacks
<1> QED
  BY <1>5, <1>7 DEF Stacks

\* A frame at the beginning of its call.
Fresh(F, op, from, key) ==
    /\ F \in FrameSet /\ F.op = op /\ F.pc = "enter" /\ F.from = from /\ F.key = key /\ F.root = from
    /\ F.current = NULL /\ F.failed = FALSE /\ F.seen = << >>

LEMMA FrameBegins ==
    ASSUME NEW op \in OpNames, NEW from \in Spots, NEW key \in Wanted
    PROVE  Fresh(Frame(op, from, key), op, from, key)
<1>1. PICK s \in KeyLists : s = << >>
  <2>1. << >> \in Seq(Keys)
    OBVIOUS
  <2> QED
    BY <2>1 DEF KeyLists
<1>2. NULL \in Spots
  BY DEF Spots
<1>3. "enter" \in FrameLabels
  BY DEF FrameLabels
<1>4. Frame(op, from, key) = [op |-> op, pc |-> "enter", from |-> from, key |-> key,
                              root |-> from, current |-> NULL, failed |-> FALSE, seen |-> s]
  BY <1>1 DEF Frame
<1> QED
  BY <1>1, <1>2, <1>3, <1>4 DEF FrameSet, Fresh

\* A call can be made only before the nodes are destroyed, and not while
\* destroy runs but by its user function.
LEMMA MayEnterIs ==
    ASSUME NEW T \in Callers, WalkInv(T), NEW t \in Callers, NEW op, MayEnter(t, op)
    PROVE  /\ Quiet(T) => Calm(original, tree, left_visited, right_visited, should_not_be_modified, freed)
           /\ stack[t] = << >> =>
                /\ op \in Ops[t] /\ (op = "destroy" => \A u \in Callers : stack[u] = << >>)
                /\ \A u \in Callers : \A i \in 1 .. Len(stack[u]) : stack[u][i].op # "destroy"
           /\ stack[t] # << >> => Top(t).pc = "called" /\ op \in Nested[Top(t).op]
<1>1. Quiet(T) => Calm(original, tree, left_visited, right_visited, should_not_be_modified, freed)
  BY DEF MayEnter, Quiet, Ended
<1>2. ASSUME stack[t] = << >>
      PROVE  \A u \in Callers : \A i \in 1 .. Len(stack[u]) : stack[u][i].op # "destroy"
  <2>1. ~Running("destroy")
    BY <1>2 DEF MayEnter
  <2>2. ASSUME NEW u \in Callers
        PROVE  DOMAIN stack[u] = 1 .. Len(stack[u])
    <3>1. stack[u] \in Seq(FrameSet)
      BY DEF WalkInv, Stacks
    <3> QED
      BY <3>1
  <2> QED
    BY <2>1, <2>2 DEF Running
<1> QED
  BY <1>1, <1>2 DEF MayEnter

\* A search begins on top of what t is in.
LEMMA SearchCalled ==
    ASSUME NEW T \in Callers, WalkInv(T), NEW t \in Callers, NEW key \in SearchKeys, MayEnter(t, "search"),
           stack' = [stack EXCEPT ![t] = <<Frame("search", NULL, key)>> \o @],
           UNCHANGED <<original, nodeVars, should_not_be_modified, freed>>
    PROVE  WalkInv(T)'
<1>1. Stacks /\ original \in Originals /\ WellFormed(original)
  BY WalkWellFormed DEF WalkInv
<1>2. UNCHANGED <<original, tree, left_visited, right_visited, should_not_be_modified, freed>>
  BY DEF nodeVars
<1>3. PICK F : F = Frame("search", NULL, key)
  OBVIOUS
<1>4. F \in FrameSet /\ F.op = "search" /\ F.pc = "enter" /\ F.key = key /\ F.current = NULL
  <2>1. "search" \in OpNames /\ NULL \in Spots /\ key \in Wanted
    BY SearchAssumption DEF OpNames, Spots, Wanted
  <2>2. Fresh(F, "search", NULL, key)
    BY <1>3, <2>1, FrameBegins
  <2> QED
    BY <2>2 DEF Fresh
<1>5. Sought(original, tree, freed, F)
  <2>1. NULL \notin freed
    BY WalkTyped, KeysAssumption DEF Typed
  <2> QED
    BY <1>4, <2>1, SearchAssumption DEF Sought
<1>6. /\ Stacks' /\ \A u \in Callers \ {t} : stack'[u] = stack[u]
      /\ Len(stack'[t]) = Len(stack[t]) + 1 /\ stack'[t][1] = F
      /\ Len(stack[t]) = 1 => stack'[t][2] = stack[t][1]
  BY <1>1, <1>3, <1>4, PushIs
<1>7. SameForSearch
  BY <1>2 DEF SameForSearch
<1>8. ASSUME NEW u \in Callers, u # t, MayOnlySearch(u)
      PROVE  MayOnlySearch(u)'
  BY <1>6, <1>7, <1>8, OthersStay
<1>9. ASSUME NEW G
      PROVE  Now(G) => Now(G)'
  BY <1>2 DEF Now
<1>10. Calm(original, tree, left_visited, right_visited, should_not_be_modified, freed) => Quiet(T)'
  BY <1>2 DEF Quiet
<1>11. CASE stack[t] = << >>
  <2>1. Len(stack'[t]) = 1 /\ Sought(original', tree', freed', stack'[t][1])
    BY <1>2, <1>5, <1>6, <1>11
  <2>2. MayOnlySearch(t)'
    BY <2>1 DEF MayOnlySearch
  <2>3. \A u \in Callers \ {T} : MayOnlySearch(u)'
    BY <1>8, <2>2 DEF WalkInv
  <2>4. Main(T)'
    <3>1. CASE MayOnlySearch(T) /\ Quiet(T)
      <4>1. Quiet(T)'
        BY <1>10, <3>1, MayEnterIs
      <4>2. MayOnlySearch(T)'
        BY <1>8, <2>2, <3>1
      <4> QED
        BY <4>1, <4>2 DEF Main
    <3>2. CASE Len(stack[T]) = 1 /\ Busy(T, stack[T][1])
      <4>1. T # t /\ stack'[T] = stack[T]
        BY <1>6, <1>11, <3>2
      <4>2. stack[T][1].op # "destroy"
        BY <1>11, <3>2, MayEnterIs
      <4> PICK G : G = stack[T][1]
        OBVIOUS
      <4>3. Busy(T, G)'
        BY <1>9, <3>2, <4>2 DEF Busy
      <4> QED
        BY <3>2, <4>1, <4>3 DEF Main
    <3>3. CASE /\ Len(stack[T]) = 2 /\ Busy(T, stack[T][2])
               /\ stack[T][2].pc = "called" /\ Sought(original, tree, freed, stack[T][1])
      <4>1. T # t /\ stack'[T] = stack[T]
        BY <1>6, <1>11, <3>3
      <4>2. stack[T][2].op # "destroy"
        BY <1>11, <3>3, MayEnterIs
      <4> PICK G : G = stack[T][2]
        OBVIOUS
      <4>3. Busy(T, G)'
        BY <1>9, <3>3, <4>2 DEF Busy
      <4>4. Sought(original', tree', freed', stack'[T][1])
        BY <1>2, <3>3, <4>1
      <4> QED
        BY <3>3, <4>1, <4>3, <4>4 DEF Main
    <3> QED
      BY <3>1, <3>2, <3>3 DEF WalkInv, Main
  <2> QED
    BY <1>1, <1>2, <1>6, <2>3, <2>4 DEF WalkInv
<1>12. CASE stack[t] # << >>
  <2>1. Top(t).pc = "called" /\ Top(t) = stack[t][1]
    BY <1>12, MayEnterIs DEF Top
  <2>2. Top(t).op # "search"
    BY <1>12, <2>1, TopFrame DEF Sought
  <2>3. t = T /\ Len(stack[T]) = 1 /\ Busy(T, Top(t))
    BY <1>12, <2>2, TopFrame
  <2> PICK G : G = Top(t)
    OBVIOUS
  <2>4. Len(stack'[T]) = 2 /\ stack'[T][1] = F /\ stack'[T][2] = G /\ G.pc = "called"
    BY <1>6, <2>1, <2>3
  <2>5. OthersIdle(T) => OthersIdle(T)'
    BY <1>6, <2>3 DEF OthersIdle
  <2>6. Busy(T, G)'
    BY <1>9, <2>3, <2>5 DEF Busy
  <2>7. Sought(original', tree', freed', stack'[T][1])
    BY <1>2, <1>5, <2>4
  <2>8. Main(T)'
    BY <2>4, <2>6, <2>7 DEF Main
  <2>9. \A u \in Callers \ {T} : MayOnlySearch(u)'
    BY <1>8, <2>3 DEF WalkInv
  <2> QED
    BY <1>1, <1>2, <1>6, <2>8, <2>9 DEF WalkInv
<1> QED
  BY <1>11, <1>12

\* T begins one of its other calls.
LEMMA OtherCalled ==
    ASSUME NEW T \in Callers, WalkInv(T), NEW op \in Traversals \cup {"destroy"}, MayEnter(T, op),
           stack[T] = << >>, NEW from, from \in Nodes \cup {NULL}, op = "destroy" => from = NULL,
           stack' = [stack EXCEPT ![T] = <<Frame(op, from, NULL)>> \o @],
           UNCHANGED <<original, nodeVars, should_not_be_modified, freed>>
    PROVE  WalkInv(T)'
<1>1. Stacks /\ original \in Originals /\ WellFormed(original)
  BY WalkWellFormed DEF WalkInv
<1>2. UNCHANGED <<original, tree, left_visited, right_visited, should_not_be_modified, freed>>
  BY DEF nodeVars
<1>3. PICK F : F = Frame(op, from, NULL)
  OBVIOUS
<1>4. from \in NodesOf(original) \cup {NULL}
  BY DEF NodesOf, Nodes
<1>5. /\ F \in FrameSet /\ F.op = op /\ F.pc = "enter" /\ F.from = from /\ F.root = from
      /\ F.failed = FALSE /\ F.seen = << >>
  <2>1. op \in OpNames /\ from \in Spots /\ NULL \in Wanted
    BY <1>1, <1>4, Original DEF OpNames, Spots, Wanted
  <2>2. Fresh(F, op, from, NULL)
    BY <1>3, <2>1, FrameBegins
  <2> QED
    BY <2>2 DEF Fresh
<1>6. Calm(original, tree, left_visited, right_visited, should_not_be_modified, freed)
  <2>1. Quiet(T)
    BY DEF WalkInv, Main
  <2> QED
    BY <2>1, MayEnterIs
<1>7. Entered(original, tree, left_visited, right_visited, should_not_be_modified, freed, F)
  BY <1>4, <1>5, <1>6 DEF Entered
<1>8. Now(F) /\ F.op # "search"
  BY <1>5, <1>7 DEF Now, Working, Traversals
<1>9. /\ Stacks' /\ \A u \in Callers \ {T} : stack'[u] = stack[u]
      /\ Len(stack'[T]) = Len(stack[T]) + 1 /\ stack'[T][1] = F
  BY <1>1, <1>3, <1>5, PushIs
<1>10. Len(stack'[T]) = 1
  BY <1>9
<1>11. F.op = "destroy" => OthersIdle(T)'
  BY <1>5, <1>9, MayEnterIs DEF OthersIdle
<1>12. Now(F)'
  BY <1>2, <1>8 DEF Now
<1>13. Main(T)'
  BY <1>8, <1>9, <1>10, <1>11, <1>12 DEF Main, Busy
<1>14. SameForSearch
  BY <1>2 DEF SameForSearch
<1>15. \A u \in Callers \ {T} : MayOnlySearch(u)'
  BY <1>9, <1>14, OthersStay DEF WalkInv
<1> QED
  BY <1>1, <1>2, <1>9, <1>13, <1>15 DEF WalkInv

LEMMA WalkCallStep ==
    ASSUME NEW T \in Callers, Alone(T), WalkInv(T), NEW t \in Callers,
           NEW op \in Traversals \cup {"search", "destroy"}, Call(t, op)
    PROVE  WalkInv(T)'
<1>1. MayEnter(t, op) /\ UNCHANGED <<original, nodeVars, should_not_be_modified, freed>>
  BY DEF Call
<1>2. PICK from \in (IF op \in Traversals THEN {NULL} \cup Nodes ELSE {NULL}),
           key \in (IF op = "search" THEN SearchKeys ELSE {NULL}) :
           stack' = [stack EXCEPT ![t] = <<Frame(op, from, key)>> \o @]
  BY DEF Call
<1>3. ASSUME stack[t] # << >>
      PROVE  op = "search"
  <2>1. Top(t).pc = "called" /\ op \in Nested[Top(t).op]
    BY <1>1, <1>3, MayEnterIs
  <2>2. Top(t).op # "search"
    BY <1>3, <2>1, TopFrame DEF Sought
  <2>3. Top(t) \in FrameSet
    BY <1>3, TopFrame
  <2>4. Top(t).op \in Traversals \cup {"destroy"}
    BY <2>2, <2>3, FrameIs DEF Traversals
  <2> QED
    BY <2>1, <2>4 DEF Alone
<1>4. CASE op = "search"
  <2>1. from = NULL /\ key \in SearchKeys
    BY <1>2, <1>4 DEF Traversals
  <2> QED
    BY <1>1, <1>2, <1>4, <2>1, SearchCalled
<1>5. CASE op # "search"
  <2>1. stack[t] = << >> /\ op \in Traversals \cup {"destroy"} /\ key = NULL
    BY <1>2, <1>3, <1>5
  <2>2. op \in Ops[t]
    BY <1>1, <2>1, MayEnterIs
  <2>3. t = T
    BY <1>5, <2>2 DEF Alone
  <2>4. from \in Nodes \cup {NULL} /\ (op = "destroy" => from = NULL)
    BY <1>2 DEF Traversals
  <2> QED
    BY <1>1, <1>2, <2>1, <2>3, <2>4, OtherCalled
<1> QED
  BY <1>4, <1>5

LEMMA ReturnStep ==
    ASSUME NEW T \in Callers, WalkInv(T), NEW t \in Callers, Return(t)
    PROVE  WalkInv(T)'
<1>1. Stacks /\ original \in Originals /\ WellFormed(original)
  BY WalkWellFormed DEF WalkInv
<1>2. /\ stack[t] # << >> /\ Top(t).pc = "done" /\ Top(t) = stack[t][1]
      /\ UNCHANGED <<original, tree, left_visited, right_visited, should_not_be_modified, freed>>
      /\ stack' = [stack EXCEPT ![t] =
                     IF Len(stack[t]) = 1 THEN << >>
                     ELSE <<[stack[t][2] EXCEPT !.pc = "answered"]>> \o SubSeq(stack[t], 3, Len(stack[t]))]
  BY DEF Return, nodeVars, Top
<1>3. SameForSearch
  BY <1>2 DEF SameForSearch
<1>4. ASSUME NEW G
      PROVE  Now(G) => Now(G)'
  BY <1>2 DEF Now
<1>5. CASE Len(stack[t]) = 1
  <2>1. Stacks' /\ stack'[t] = << >> /\ \A u \in Callers \ {t} : stack'[u] = stack[u]
    <3>1. << >> \in Seq(FrameSet)
      OBVIOUS
    <3>2. stack' = [stack EXCEPT ![t] = << >>]
      BY <1>2, <1>5
    <3> QED
      BY <1>1, <3>1, <3>2 DEF Stacks
  <2>2. ASSUME NEW u \in Callers, MayOnlySearch(u)
        PROVE  MayOnlySearch(u)'
    <3>1. CASE u = t
      BY <2>1, <3>1 DEF MayOnlySearch
    <3>2. CASE u # t
      BY <1>3, <2>1, <2>2, <3>2, OthersStay
    <3> QED
      BY <3>1, <3>2
  <2>3. OthersIdle(T) => OthersIdle(T)'
    BY <2>1 DEF OthersIdle
  <2>4. Main(T)'
    <3>1. CASE MayOnlySearch(T) /\ Quiet(T)
      <4>1. Quiet(T)'
        BY <1>2, <2>1, <2>3, <3>1 DEF Quiet
      <4> QED
        BY <2>2, <3>1, <4>1 DEF Main
    <3>2. CASE Len(stack[T]) = 1 /\ Busy(T, stack[T][1]) /\ t # T
      <4>1. stack'[T] = stack[T]
        BY <2>1, <3>2
      <4> PICK G : G = stack[T][1]
        OBVIOUS
      <4>2. Busy(T, G)'
        BY <1>4, <2>3, <3>2 DEF Busy
      <4> QED
        BY <3>2, <4>1, <4>2 DEF Main
    <3>3. CASE /\ Len(stack[T]) = 2 /\ Busy(T, stack[T][2])
               /\ stack[T][2].pc = "called" /\ Sought(original, tree, freed, stack[T][1])
      <4>1. T # t /\ stack'[T] = stack[T]
        BY <1>5, <2>1, <3>3
      <4> PICK G : G = stack[T][2]
        OBVIOUS
      <4>2. Busy(T, G)'
        BY <1>4, <2>3, <3>3 DEF Busy
      <4>3. Sought(original', tree', freed', stack'[T][1])
        BY <1>2, <3>3, <4>1
      <4> QED
        BY <3>3, <4>1, <4>2, <4>3 DEF Main
    <3>4. CASE Len(stack[T]) = 1 /\ Busy(T, stack[T][1]) /\ t = T
      <4> PICK G : G = stack[T][1]
        OBVIOUS
      <4>1. G \in FrameSet /\ G.pc = "done"
        BY <1>2, <3>4, TopFrame
      <4>2. Returning(original, tree, left_visited, right_visited, should_not_be_modified, freed, G)
        BY <3>4, <4>1, WorkingIn DEF Busy, Now
      <4>3. G.op \in Traversals \/ G.op = "destroy"
        BY <3>4, <4>1, FrameIs DEF Busy, Traversals
      <4>4. \/ Calm(original, tree, left_visited, right_visited, should_not_be_modified, freed)
            \/ /\ Ended(original, tree, left_visited, right_visited, should_not_be_modified, freed)
               /\ OthersIdle(T)
        BY <3>4, <4>2, <4>3 DEF Returning, Busy
      <4>5. Quiet(T)'
        <5>1. CASE Calm(original, tree, left_visited, right_visited, should_not_be_modified, freed)
          BY <1>2, <5>1 DEF Quiet
        <5>2. CASE /\ Ended(original, tree, left_visited, right_visited, should_not_be_modified, freed)
                   /\ OthersIdle(T) /\ freed # {}
          <6>1. OthersIdle(T)' /\ stack'[T] = << >>
            BY <2>1, <2>3, <3>4, <5>2
          <6> QED
            BY <1>2, <5>2, <6>1 DEF Quiet
        <5>3. CASE /\ Ended(original, tree, left_visited, right_visited, should_not_be_modified, freed)
                   /\ freed = {}
          <6>1. Calm(original, tree, left_visited, right_visited, should_not_be_modified, freed)
            BY <5>3 DEF Ended, Calm
          <6> QED
            BY <1>2, <6>1 DEF Quiet
        <5> QED
          BY <4>4, <5>1, <5>2, <5>3
      <4>6. MayOnlySearch(T)'
        BY <2>1, <3>4 DEF MayOnlySearch
      <4> QED
        BY <4>5, <4>6 DEF Main
    <3> QED
      BY <3>1, <3>2, <3>3, <3>4 DEF WalkInv, Main
  <2> QED
    BY <1>1, <1>2, <2>1, <2>2, <2>4 DEF WalkInv
<1>6. CASE Len(stack[t]) # 1
  <2>1. ~MayOnlySearch(t)
    BY <1>2, <1>6 DEF MayOnlySearch
  <2>2. /\ t = T /\ Len(stack[T]) = 2 /\ Busy(T, stack[T][2])
        /\ stack[T][2].pc = "called"
    BY <1>6, <2>1 DEF WalkInv, Main
  <2> PICK G : G = stack[T][2]
    OBVIOUS
  <2>3. G \in FrameSet /\ G.pc = "called" /\ Busy(T, G)
    <3>1. stack[T] \in Seq(FrameSet) /\ 2 \in 1 .. Len(stack[T])
      BY <1>1, <2>2 DEF Stacks
    <3>2. stack[T][2] \in FrameSet
      BY <3>1
    <3> QED
      BY <2>2, <3>2
  <2> PICK H : H = [G EXCEPT !.pc = "answered"]
    OBVIOUS
  <2>4. "answered" \in FrameLabels
    BY DEF FrameLabels
  <2>5. /\ H \in FrameSet /\ H.op = G.op /\ H.pc = "answered" /\ H.from = G.from /\ H.root = G.root
        /\ H.current = G.current /\ H.seen = G.seen /\ H.failed = G.failed
    BY <2>3, <2>4 DEF FrameSet
  <2>6. Now(H)
    <3>1. Resumes(G, H)
      BY <2>3, <2>5 DEF Resumes, Busy
    <3>2. Working(original, tree, left_visited, right_visited, should_not_be_modified, freed, G)
      BY <2>3 DEF Now, Busy
    <3>3. Working(original, tree, left_visited, right_visited, should_not_be_modified, freed, H)
      BY <1>1, <3>1, <3>2, CalledWorks
    <3> QED
      BY <3>3 DEF Now
  <2>7. stack' = [stack EXCEPT ![T] = <<H>> \o SubSeq(stack[T], 3, Len(stack[T]))]
    BY <1>2, <1>6, <2>2
  <2>8. /\ Stacks' /\ \A u \in Callers \ {T} : stack'[u] = stack[u]
        /\ Len(stack'[T]) = 1 /\ stack'[T][1] = H
    BY <1>1, <2>2, <2>5, <2>7, PopIs
  <2>9. OthersIdle(T) => OthersIdle(T)'
    BY <2>8 DEF OthersIdle
  <2>10. Busy(T, H)'
    BY <1>4, <2>3, <2>5, <2>6, <2>9 DEF Busy
  <2>11. Main(T)'
    BY <2>8, <2>10 DEF Main
  <2>12. \A u \in Callers \ {T} : MayOnlySearch(u)'
    BY <1>3, <2>8, OthersStay DEF WalkInv
  <2> QED
    BY <1>1, <1>2, <2>8, <2>11, <2>12 DEF WalkInv
<1> QED
  BY <1>5, <1>6

LEMMA WalkInitKeeps ==
    ASSUME NEW T \in Callers, WalkInit
    PROVE  WalkInv(T)
<1>1. original \in Originals /\ \A u \in Callers : stack[u] = << >>
  BY DEF WalkInit
<1>2. Stacks
  <2>1. << >> \in Seq(FrameSet)
    OBVIOUS
  <2> QED
    BY <2>1 DEF WalkInit, Stacks
<1>3. Calm(original, tree, left_visited, right_visited, should_not_be_modified, freed)
  BY DEF WalkInit, Calm, NoMarks
<1>4. \A u \in Callers : MayOnlySearch(u)
  BY <1>1 DEF MayOnlySearch
<1> QED
  BY <1>1, <1>2, <1>3, <1>4 DEF WalkInv, Main, Quiet

LEMMA StepsOf ==
    ASSUME NEW T \in Callers, WalkInv(T), NEW t \in Callers, Steps(t)
    PROVE  stack[t] # << >> /\ Top(t).op # "search"
<1>1. CASE Begin(t)
  BY <1>1 DEF Begin
<1>2. CASE UserReturns(t)
  <2>1. stack[t] # << >> /\ Top(t).pc \in {"called", "answered"}
    BY <1>2 DEF UserReturns
  <2> QED
    BY <2>1, TopFrame DEF Sought
<1>3. CASE MorrisHead(t) \/ MorrisFind(t) \/ MorrisUnthread(t) \/ MorrisThread(t) \/ MorrisNext(t) \/ MorrisEnd(t)
  BY <1>3 DEF MorrisHead, MorrisFind, MorrisUnthread, MorrisThread, MorrisNext, MorrisEnd, In
<1>4. CASE IterateNull(t) \/ IterateFirst(t) \/ IterateLeft(t) \/ IterateRight(t) \/ IterateUp(t)
  BY <1>4 DEF IterateNull, IterateFirst, IterateLeft, IterateRight, IterateUp, Iterating, In
<1>5. CASE DestroyDown(t) \/ DestroyLeaf(t) \/ DestroyFree(t) \/ DestroyEnd(t)
  BY <1>5 DEF DestroyDown, DestroyLeaf, DestroyFree, DestroyEnd, In
<1> QED
  BY <1>1, <1>2, <1>3, <1>4, <1>5 DEF Steps

LEMMA WalkStutters ==
    ASSUME NEW T \in Callers, WalkInv(T), UNCHANGED walkVars
    PROVE  WalkInv(T)'
<1>1. UNCHANGED <<original, tree, left_visited, right_visited, should_not_be_modified, freed, stack>>
  BY DEF walkVars, nodeVars
<1>2. SameForSearch
  BY <1>1 DEF SameForSearch
<1>3. \A u \in Callers : MayOnlySearch(u) => MayOnlySearch(u)'
  BY <1>1 DEF MayOnlySearch
<1>4. Quiet(T) => Quiet(T)'
  BY <1>1 DEF Quiet, OthersIdle
<1>5. ASSUME NEW G
      PROVE  Busy(T, G) => Busy(T, G)'
  BY <1>1 DEF Busy, Now, OthersIdle
<1>6. Main(T)'
  <2>1. CASE MayOnlySearch(T) /\ Quiet(T)
    BY <1>3, <1>4, <2>1 DEF Main
  <2>2. CASE Len(stack[T]) = 1 /\ Busy(T, stack[T][1])
    <3> PICK G : G = stack[T][1]
      OBVIOUS
    <3>1. Busy(T, G)' /\ stack' = stack
      BY <1>1, <1>5, <2>2
    <3> QED
      BY <2>2, <3>1 DEF Main
  <2>3. CASE /\ Len(stack[T]) = 2 /\ Busy(T, stack[T][2])
             /\ stack[T][2].pc = "called" /\ Sought(original, tree, freed, stack[T][1])
    <3> PICK G : G = stack[T][2]
      OBVIOUS
    <3>1. Busy(T, G)' /\ stack' = stack
      BY <1>1, <1>5, <2>3
    <3>2. Sought(original', tree', freed', stack'[T][1])
      BY <1>1, <2>3
    <3> QED
      BY <2>3, <3>1, <3>2 DEF Main
  <2> QED
    BY <2>1, <2>2, <2>3 DEF WalkInv, Main
<1> QED
  BY <1>1, <1>3, <1>6 DEF WalkInv, Stacks

LEMMA WalkNextKeeps ==
    ASSUME NEW T \in Callers, Alone(T), WalkInv(T), [WalkNext]_walkVars
    PROVE  WalkInv(T)'
<1>1. CASE WalkNext
  <2>1. PICK t \in Callers : Work(t) \/ (\E op \in Traversals \cup {"search", "destroy"} : Call(t, op))
    BY <1>1 DEF WalkNext
  <2>2. CASE Return(t)
    BY <2>2, ReturnStep
  <2>3. CASE SearchEnter(t) \/ SearchDown(t)
    BY <2>3, SearchStep
  <2>4. CASE Steps(t)
    BY <2>4, StepsOf, StepsKeep
  <2>5. CASE \E op \in Traversals \cup {"search", "destroy"} : Call(t, op)
    BY <2>5, WalkCallStep
  <2>6. Work(t) => Return(t) \/ SearchEnter(t) \/ SearchDown(t) \/ Steps(t)
    BY DEF Work, Steps
  <2> QED
    BY <2>1, <2>2, <2>3, <2>4, <2>5, <2>6
<1>2. CASE UNCHANGED walkVars
  BY <1>2, WalkStutters
<1> QED
  BY <1>1, <1>2

-----------------------------------------------------------------------------
(***************************************************************************)
(* What the invariant says of the calls.                                   *)
(***************************************************************************)
LEMMA FrameCases ==
    ASSUME NEW T \in Callers, WalkInv(T), NEW f \in Frames
    PROVE  /\ f \in FrameSet
           /\ Sought(original, tree, freed, f) \/ Busy(T, f)
           /\ \E u \in Callers : stack[u] # << >>
<1> PICK u \in Callers : \E i \in DOMAIN stack[u] : f = stack[u][i]
  BY DEF Frames
<1>1. PICK i \in DOMAIN stack[u] : f = stack[u][i]
  OBVIOUS
<1>2. stack[u] \in Seq(FrameSet)
  BY DEF WalkInv, Stacks
<1>3. i \in 1 .. Len(stack[u]) /\ f \in FrameSet /\ stack[u] # << >> /\ Len(stack[u]) \in Nat
  BY <1>1, <1>2
<1>4. CASE MayOnlySearch(u)
  <2>1. Len(stack[u]) = 1 /\ Sought(original, tree, freed, stack[u][1])
    BY <1>3, <1>4 DEF MayOnlySearch
  <2>2. i = 1
    BY <1>3, <2>1
  <2> QED
    BY <1>1, <1>3, <2>1, <2>2
<1>5. CASE ~MayOnlySearch(u)
  <2>1. u = T
    BY <1>5 DEF WalkInv
  <2>2. CASE Len(stack[T]) = 1 /\ Busy(T, stack[T][1])
    <3>1. i = 1
      BY <1>3, <2>1, <2>2
    <3> QED
      BY <1>1, <1>3, <2>1, <2>2, <3>1
  <2>3. CASE Len(stack[T]) = 2 /\ Busy(T, stack[T][2]) /\ Sought(original, tree, freed, stack[T][1])
    <3>1. i = 1 \/ i = 2
      BY <1>3, <2>1, <2>3
    <3> QED
      BY <1>1, <1>3, <2>1, <2>3, <3>1
  <2> QED
    BY <1>5, <2>1, <2>2, <2>3 DEF WalkInv, Main
<1> QED
  BY <1>4, <1>5

LEMMA KeptUnlessDestroyed ==
    ASSUME NEW T \in Callers, WalkInv(T), ~Running("destroy"), NEW u \in Callers, stack[u] # << >>
    PROVE  LinksKept(original, tree)
<1>1. WellFormed(original)
  BY WalkWellFormed DEF WalkInv
<1>2. CASE Quiet(T)
  BY <1>1, <1>2, CalmIs DEF Quiet, OthersIdle
<1>3. ASSUME NEW i \in 1 .. Len(stack[T]), Busy(T, stack[T][i])
      PROVE  LinksKept(original, tree)
  <2>1. stack[T] \in Seq(FrameSet)
    BY DEF WalkInv, Stacks
  <2>2. stack[T][i] \in FrameSet /\ i \in DOMAIN stack[T]
    BY <2>1
  <2>3. PICK G : G = stack[T][i]
    OBVIOUS
  <2>4. G.op # "destroy" /\ G.op # "search" /\ G \in FrameSet /\ Now(G)
    BY <1>3, <2>2, <2>3 DEF Running, Busy
  <2>5. G.op \in Traversals \cup {"destroy"}
    BY <2>4, FrameIs DEF Traversals
  <2> QED
    BY <1>1, <2>4, <2>5, WorkingTree DEF Now
<1>4. CASE Len(stack[T]) = 1 /\ Busy(T, stack[T][1])
  BY <1>3, <1>4
<1>5. CASE Len(stack[T]) = 2 /\ Busy(T, stack[T][2])
  BY <1>3, <1>5
<1> QED
  BY <1>2, <1>4, <1>5 DEF WalkInv, Main

LEMMA InvSearchIsRight ==
    ASSUME NEW T \in Callers, WalkInv(T)
    PROVE  SearchIsRight
<1>1. SUFFICES ASSUME NEW f \in Frames, f.op = "search", f.pc = "done", ~Running("destroy")
               PROVE  f.failed = (f.key \notin Nodes)
  BY DEF SearchIsRight
<1>2. f \in FrameSet /\ Sought(original, tree, freed, f)
  BY <1>1, FrameCases DEF Busy
<1>3. PICK u \in Callers : stack[u] # << >>
  BY FrameCases
<1>4. LinksKept(original, tree)
  BY <1>1, <1>3, KeptUnlessDestroyed
<1>5. f.failed <=> f.key \notin NodesOf(original)
  BY <1>1, <1>2, <1>4 DEF Sought
<1>6. f.failed \in BOOLEAN /\ Nodes = NodesOf(original)
  BY <1>2, FrameIs DEF Nodes, NodesOf
<1> QED
  BY <1>5, <1>6

LEMMA InvRestored ==
    ASSUME NEW T \in Callers, WalkInv(T)
    PROVE  Restored
<1>1. SUFFICES ASSUME \A t \in Callers : stack[t] = << >>, freed = {}
               PROVE  /\ tree = original
                      /\ \A x \in Keys : ~left_visited[x] /\ ~right_visited[x]
                      /\ ~should_not_be_modified
  BY DEF Restored
<1>2. Quiet(T)
  <2>1. Len(stack[T]) = 0
    BY <1>1
  <2> QED
    BY <2>1 DEF WalkInv, Main
<1>3. Calm(original, tree, left_visited, right_visited, should_not_be_modified, freed)
  BY <1>1, <1>2 DEF Quiet
<1> QED
  BY <1>3 DEF Calm, NoMarks

LEMMA InvEveryNodeVisited ==
    ASSUME NEW T \in Callers, WalkInv(T)
    PROVE  EveryNodeVisited
<1>1. SUFFICES ASSUME NEW f \in Frames, f.op \in Traversals, f.pc # "enter"
               PROVE  /\ Len(f.seen) <= Len(PreorderIn(original)[f.from])
                      /\ f.seen = SubSeq(PreorderIn(original)[f.from], 1, Len(f.seen))
                      /\ f.pc = "done" /\ ~f.failed => f.seen = PreorderIn(original)[f.from]
  BY DEF EveryNodeVisited
<1>2. f \in FrameSet /\ Now(f)
  BY <1>1, FrameCases DEF Sought, Busy, Traversals
<1>3. f.seen \in Seq(Keys) /\ f.failed \in BOOLEAN
  BY <1>2, FrameIs
<1>4. \E rest : Seen(PreorderIn(original), f, rest) /\ (f.pc = "done" => rest = << >>)
  <2>1. CASE f.pc = "done"
    <3>1. Returning(original, tree, left_visited, right_visited, should_not_be_modified, freed, f)
      BY <1>2, <2>1, WorkingIn DEF Now
    <3> QED
      BY <1>1, <3>1 DEF Returning
  <2>2. CASE f.pc # "done" /\ f.op = "morris"
    <3>1. InMorris(original, tree, left_visited, right_visited, should_not_be_modified, freed, f)
      BY <1>1, <1>2, <2>2, WorkingIn DEF Now
    <3> QED
      BY <2>2, <3>1 DEF InMorris, MorrisAt, MorrisFirst, MorrisSecond
  <2>3. CASE f.pc # "done" /\ f.op = "iterate"
    <3>1. InIterate(original, tree, left_visited, right_visited, should_not_be_modified, freed, f)
      BY <1>1, <1>2, <2>3, WorkingIn DEF Now
    <3> QED
      BY <2>3, <3>1 DEF InIterate, IterateAt
  <2> QED
    BY <1>1, <2>1, <2>2, <2>3 DEF Traversals
<1>5. PICK rest : Seen(PreorderIn(original), f, rest) /\ (f.pc = "done" => rest = << >>)
  BY <1>4
<1> QED
  BY <1>3, <1>5, SeenIsPrefix

LEMMA InvDestroyComplete ==
    ASSUME NEW T \in Callers, WalkInv(T)
    PROVE  DestroyComplete
<1>1. WellFormed(original)
  BY WalkWellFormed DEF WalkInv
<1>2. ASSUME NEW f \in Frames, f.op # "search"
      PROVE  f \in FrameSet /\ Now(f) /\ f.op \in Traversals \cup {"destroy"}
  <2>1. f \in FrameSet /\ Now(f)
    BY <1>2, FrameCases DEF Sought, Busy
  <2> QED
    BY <1>2, <2>1, FrameIs DEF Traversals
<1>3. ASSUME NEW f \in Frames
      PROVE  /\ {f.root, f.current} \subseteq Keys \cup {NULL} /\ f.seen \in Seq(Keys)
             /\ f.pc \in {"find", "unthread"} => f.current # NULL /\ f.root # NULL
  <2>1. f \in FrameSet
    BY FrameCases
  <2>2. ASSUME f.pc \in {"find", "unthread"}
        PROVE  f.current # NULL /\ f.root # NULL
    <3>1. f.op # "search"
      BY <2>2, FrameCases DEF Sought, Busy
    <3>2. Now(f) /\ f.op \in Traversals \cup {"destroy"}
      BY <1>2, <3>1
    <3>3. f.op # "iterate"
      <4>1. f.pc \notin {"enter", "done"}
        BY <2>2
      <4> SUFFICES ASSUME f.op = "iterate" PROVE FALSE
        OBVIOUS
      <4>2. InIterate(original, tree, left_visited, right_visited, should_not_be_modified, freed, f)
        BY <3>2, <4>1, WorkingIn DEF Now
      <4>3. f.pc \in {"head", "crashed", "called", "answered", "handed"}
        BY <4>2 DEF InIterate, IterateAt
      <4> QED
        BY <2>2, <4>3
    <3>4. f.op # "destroy"
      <4>1. f.pc \notin {"enter", "done"}
        BY <2>2
      <4> SUFFICES ASSUME f.op = "destroy" PROVE FALSE
        OBVIOUS
      <4>2. InDestroy(original, tree, left_visited, right_visited, should_not_be_modified, freed, f)
        BY <3>2, <4>1, WorkingIn DEF Now
      <4>3. f.pc \in {"head", "called", "answered", "handed"}
        BY <4>2 DEF InDestroy, DestroyAt
      <4> QED
        BY <2>2, <4>3
    <3>5. f.op = "morris"
      BY <3>2, <3>3, <3>4 DEF Traversals
    <3>6. /\ Walk(original, NodesOf(original), BelowIn(original), PreorderIn(original),
                  ContinuationOf(original, f.from), f)
          /\ MorrisAt(original, BelowIn(original), PreorderIn(original), ContinuationOf(original, f.from), tree, f)
          /\ NodesOf(original) \subseteq Keys
      BY <1>1, <2>1, <2>2, <3>2, <3>5, MorrisNow
    <3>7. f.current \in NodesOf(original) /\ f.root \in NodesOf(original)
      BY <2>2, <3>6, MorrisPlace
    <3> QED
      BY <3>6, <3>7, KeysAssumption
  <2> QED
    BY <2>1, <2>2, FrameIs
<1>4. WalkTypeOK
  <2>1. Typed(tree, left_visited, right_visited, should_not_be_modified, freed)
    BY WalkTyped
  <2> QED
    BY <1>3, <2>1 DEF WalkTypeOK, Typed
<1>5. NoUseAfterFree
  <2>1. ASSUME NEW f \in Frames, f.op = "destroy"
        PROVE  f.root \notin freed
    BY <1>1, <1>2, <2>1, WorkingTree DEF Now
  <2>2. ASSUME NEW f \in Frames, f.op = "search"
        PROVE  f.current \notin freed
    BY <2>2, FrameCases DEF Sought, Busy
  <2> QED
    BY <2>1, <2>2 DEF NoUseAfterFree
<1>6. ASSUME NEW f \in Frames, f.op = "destroy", f.pc = "done"
      PROVE  Len(f.seen) = Cardinality(freed) /\ freed = Nodes
  <2>1. Now(f)
    BY <1>2, <1>6
  <2>2. Returning(original, tree, left_visited, right_visited, should_not_be_modified, freed, f)
    BY <1>6, <2>1, WorkingIn DEF Now
  <2> QED
    BY <1>6, <2>2 DEF Returning, Ended, Nodes, NodesOf
<1> QED
  BY <1>4, <1>5, <1>6 DEF DestroyComplete

-----------------------------------------------------------------------------
\* The invariant that the calls keep.  At each step of the one thread that
\* does more than search it says where its call is and what the call has made
\* of the links, the marks and the flag; of every search, that it is above the
\* key it looks for if that is in the tree.  That two threads do not traverse
\* at once is needed: avl_tree_morris_traverse takes the read lock only.
THEOREM WalkInvariant ==
    ASSUME NEW T \in Callers, Alone(T)
    PROVE  WalkSpec => []WalkInv(T)
<1>1. WalkInit => WalkInv(T)
  BY WalkInitKeeps
<1>2. WalkInv(T) /\ [WalkNext]_walkVars => WalkInv(T)'
  BY WalkNextKeeps
<1> QED
  BY <1>1, <1>2, PTL DEF WalkSpec

\* avl_tree_morris_traverse and avl_tree_iterate, from any node of any AVL
\* tree, with user functions that search or fail at any time and with any
\* number of threads that search: what they hand out is the preorder of that
\* subtree, or the part of it up to the failure.
THEOREM OneWalkVisitsAll ==
    ASSUME NEW T \in Callers, Alone(T)
    PROVE  WalkSpec => []EveryNodeVisited
<1>1. WalkInv(T) => EveryNodeVisited
  BY InvEveryNodeVisited
<1> QED
  BY <1>1, WalkInvariant, PTL

\* When all calls have returned, no thread of a Morris traversal is left in the
\* tree, no mark of iterate is set and the flag is cleared, also after a user
\* function has failed.
THEOREM OneWalkRestores ==
    ASSUME NEW T \in Callers, Alone(T)
    PROVE  WalkSpec => []Restored
<1>1. WalkInv(T) => Restored
  BY InvRestored
<1> QED
  BY <1>1, WalkInvariant, PTL

\* avl_tree_search finds a key exactly if it is in the tree, whichever threads
\* a Morris traversal has put in its way and takes out again while it runs.
THEOREM SearchesBesideOneWalk ==
    ASSUME NEW T \in Callers, Alone(T)
    PROVE  WalkSpec => []SearchIsRight
<1>1. WalkInv(T) => SearchIsRight
  BY InvSearchIsRight
<1> QED
  BY <1>1, WalkInvariant, PTL

\* avl_tree_destroy hands out and frees every node, each once; neither it nor a
\* search by its handler reads a node that is freed, and a Morris traversal
\* reads through no null pointer.
THEOREM DestroyFreesAll ==
    ASSUME NEW T \in Callers, Alone(T)
    PROVE  WalkSpec => []DestroyComplete
<1>1. WalkInv(T) => DestroyComplete
  BY InvDestroyComplete
<1> QED
  BY <1>1, WalkInvariant, PTL
=============================================================================
