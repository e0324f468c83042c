----------------------------- MODULE ObjectsProofs -----------------------------
(***************************************************************************)
(* Proofs about the objects that stand on their own, for any values of     *)
(* their constants: the handles of the pointer lookup, the bits of the     *)
(* bit lists, the buffers of the buffer manager, the tlvs of the tlv       *)
(* manager, the counters of the memory monitor, and the files and objects  *)
(* of the object manager.                                                  *)
(***************************************************************************)
EXTENDS Objects, DataFacts

-----------------------------------------------------------------------------
(***************************************************************************)
(* PointerLookup                                                           *)
(***************************************************************************)
Sound == live \ collided

\* What a slot has: nothing, or the pointer of a store that nobody's handle
\* has cleared, under the number that the store was given.
SlotRight(s) ==
    LET e == pointer_entries[s]
    IN  \/ e = EMPTY_ENTRY
        \/ /\ e.pointer \in Sound
           /\ issued[e.pointer].index = s
           /\ e.pointer_number = issued[e.pointer].number

\* The numbers go round: that of the k-th store is k - 1 of the round.
HandlesRight ==
    /\ issued \in Seq([index : Slots, number : 0 .. MAX_ADDRESS_NUMBER - 1])
    /\ \A k \in DOMAIN issued : issued[k].number = (k - 1) % MAX_ADDRESS_NUMBER
    /\ UniqueNumber = Len(issued) % MAX_ADDRESS_NUMBER

LookupInv ==
    /\ LookupTypeOK
    /\ FreeSlotsExact
    /\ Slots = 0 .. Cardinality(Slots) - 1 /\ Cardinality(Slots) \in Nat
    /\ HandlesRight
    /\ \A s \in Slots : SlotRight(s)
    /\ \A k \in Sound : /\ pointer_entries[issued[k].index].pointer = k
                        /\ Matches(issued[k])
    /\ \A k \in collided : Alike(k) \ {k} # {}

\* FreeSlotsExact place by place.
FreePlaces == stack_idx .. Cardinality(Slots) - 1
FreeOnce == \A i, j \in FreePlaces : index_stack[i] = index_stack[j] => i = j
FreeAll == \A s : (\E i \in FreePlaces : index_stack[i] = s)
                    <=> s \in Slots /\ pointer_entries[s] = EMPTY_ENTRY

LEMMA FreeIs == FreeSlotsExact <=> FreeOnce /\ FreeAll
<1> DEFINE I == stack_idx .. Cardinality(Slots) - 1
           free == [i \in I |-> index_stack[i]]
           empty == {s \in Slots : pointer_entries[s] = EMPTY_ENTRY}
<1>1. IsInjective(free) <=> \A i, j \in I : index_stack[i] = index_stack[j] => i = j
  BY DEF IsInjective
<1>2. Range(free) = empty <=>
        \A s : (\E i \in I : index_stack[i] = s) <=> s \in Slots /\ pointer_entries[s] = EMPTY_ENTRY
  <2>1. Range(free) = {index_stack[i] : i \in I}
    BY DEF Range
  <2> HIDE DEF free, I
  <2>2. \A s : s \in Range(free) <=> \E i \in I : index_stack[i] = s
    BY <2>1
  <2>3. \A s : s \in empty <=> s \in Slots /\ pointer_entries[s] = EMPTY_ENTRY
    OBVIOUS
  <2> HIDE DEF empty
  <2>4. Range(free) = empty <=> \A s : s \in Range(free) <=> s \in empty
    OBVIOUS
  <2> QED
    BY <2>2, <2>3, <2>4
<1>3. FreeSlotsExact <=> IsInjective(free) /\ Range(free) = empty
  BY DEF FreeSlotsExact
<1> HIDE DEF free, empty
<1> QED
  BY <1>1, <1>2, <1>3 DEF FreeOnce, FreeAll, FreePlaces

LEMMA FreeIsNext == FreeSlotsExact' <=> FreeOnce' /\ FreeAll'
BY FreeIs, PTL

LEMMA EntryType ==
    ASSUME LookupInv
    PROVE  /\ MAX_ADDRESS_NUMBER \in Nat \ {0}
           /\ \A k \in DOMAIN issued : /\ issued[k].index \in Slots
                                       /\ issued[k].number \in 0 .. MAX_ADDRESS_NUMBER - 1
           /\ DOMAIN issued = 1 .. Len(issued) /\ Len(issued) \in Nat
           /\ Sound \subseteq DOMAIN issued
           /\ EMPTY_ENTRY.pointer_number = MAX_ADDRESS_NUMBER
           /\ EMPTY_ENTRY.pointer = NoPointer
<1>1. issued \in Seq([index : Slots, number : 0 .. MAX_ADDRESS_NUMBER - 1])
  BY DEF LookupInv, HandlesRight
<1>2. \A k \in DOMAIN issued : issued[k] \in [index : Slots, number : 0 .. MAX_ADDRESS_NUMBER - 1]
  <2> DEFINE R == [index : Slots, number : 0 .. MAX_ADDRESS_NUMBER - 1]
  <2> HIDE DEF R
  <2>1. issued \in Seq(R)
    BY <1>1 DEF R
  <2>2. \A k \in DOMAIN issued : issued[k] \in R
    BY <2>1
  <2> QED
    BY <2>2 DEF R
<1> QED
  BY <1>1, <1>2, LookupAssumption DEF LookupInv, LookupTypeOK, Sound, EMPTY_ENTRY

LEMMA InitLookup == LookupInit => LookupInv
<1> SUFFICES ASSUME LookupInit PROVE LookupInv
  OBVIOUS
<1>1. /\ pointer_entries = << >> /\ index_stack = << >> /\ issued = << >>
      /\ stack_idx = 0 /\ number_generator = 0 /\ live = {} /\ collided = {}
  BY DEF LookupInit
<1>2. Slots = {} /\ Cardinality(Slots) = 0 /\ DOMAIN issued = {} /\ DOMAIN index_stack = {}
  BY <1>1, FS_EmptySet DEF Slots
<1>3. MAX_ADDRESS_NUMBER \in Nat \ {0}
  BY LookupAssumption
<1>4. LookupTypeOK
  <2>1. pointer_entries \in [Slots -> [pointer_number : 0 .. MAX_ADDRESS_NUMBER,
                                       pointer : DOMAIN issued \cup {NoPointer}]]
    BY <1>1, <1>2
  <2>2. index_stack \in [Slots -> Slots]
    BY <1>1, <1>2
  <2>3. number_generator \in 0 .. MAX_ADDRESS_NUMBER /\ stack_idx \in 0 .. Cardinality(Slots)
    BY <1>1, <1>2, <1>3
  <2> QED
    BY <1>1, <2>1, <2>2, <2>3 DEF LookupTypeOK
<1>5. FreeSlotsExact
  BY <1>1, <1>2, FreeIs DEF FreeOnce, FreeAll, FreePlaces
<1>6. HandlesRight
  <2>1. UniqueNumber = 0
    BY <1>1, <1>3 DEF UniqueNumber
  <2>2. 0 % MAX_ADDRESS_NUMBER = 0
    BY <1>3
  <2>3. Len(issued) = 0
    BY <1>1
  <2> QED
    BY <1>1, <1>2, <2>1, <2>2, <2>3 DEF HandlesRight
<1> QED
  BY <1>1, <1>2, <1>4, <1>5, <1>6 DEF LookupInv, Sound

LEMMA InitTable ==
    ASSUME LookupInv, NEW size \in LookupSizes, pointer_lookup_init(size)
    PROVE  LookupInv'
<1>1. size \in Nat /\ size < MAX_ADDRESS_NUMBER /\ MAX_ADDRESS_NUMBER \in Nat \ {0}
  BY LookupAssumption DEF pointer_lookup_init
<1>2. Slots = {} /\ Cardinality(Slots) = 0 /\ issued = << >> /\ live = {} /\ collided = {} /\ stack_idx = 0
  <2>1. Slots = {}
    BY DEF pointer_lookup_init
  <2>2. DOMAIN issued = {}
    BY <2>1, EntryType
  <2>3. issued = << >>
    BY <2>2, EntryType
  <2>4. Cardinality(Slots) = 0
    BY <2>1, FS_EmptySet
  <2> QED
    BY <2>1, <2>2, <2>3, <2>4 DEF LookupInv, LookupTypeOK
<1>3. /\ Slots' = 0 .. size - 1
      /\ index_stack' = [i \in 0 .. size - 1 |-> i]
      /\ \A s \in Slots' : pointer_entries'[s] = EMPTY_ENTRY
      /\ UNCHANGED <<number_generator, stack_idx, issued, live, collided>>
  BY DEF pointer_lookup_init, histories, Slots
<1>4. Cardinality(Slots') = size
  <2>1. Cardinality(0 .. size - 1) = IF 0 > size - 1 THEN 0 ELSE size - 1 - 0 + 1
    BY <1>1, FS_Interval
  <2> QED
    BY <1>1, <1>3, <2>1
<1>5. LookupTypeOK'
  <2>1. EMPTY_ENTRY \in [pointer_number : 0 .. MAX_ADDRESS_NUMBER, pointer : DOMAIN issued \cup {NoPointer}]
    BY <1>1 DEF EMPTY_ENTRY
  <2>2. pointer_entries' \in [Slots' -> [pointer_number : 0 .. MAX_ADDRESS_NUMBER,
                                         pointer : DOMAIN issued \cup {NoPointer}]]
    BY <2>1 DEF pointer_lookup_init, Slots
  <2>3. index_stack' \in [Slots' -> Slots']
    BY <1>3
  <2>4. number_generator' \in 0 .. MAX_ADDRESS_NUMBER /\ stack_idx' \in 0 .. Cardinality(Slots')
    BY <1>1, <1>2, <1>3, <1>4 DEF LookupInv, LookupTypeOK
  <2> QED
    BY <1>2, <1>3, <2>2, <2>3, <2>4 DEF LookupTypeOK
<1>6. FreeSlotsExact'
  <2>1. stack_idx' .. Cardinality(Slots') - 1 = Slots'
    BY <1>2, <1>3, <1>4
  <2>2. \A i \in Slots' : index_stack'[i] = i
    BY <1>3
  <2> QED
    BY <1>3, <2>1, <2>2, FreeIsNext DEF FreeOnce, FreeAll, FreePlaces
<1>7. HandlesRight'
  <2>1. UniqueNumber' = UniqueNumber
    BY <1>3 DEF UniqueNumber
  <2>2. issued' = << >> /\ DOMAIN issued' = {}
    BY <1>2, <1>3
  <2> QED
    BY <1>3, <2>1, <2>2 DEF LookupInv, HandlesRight
<1>8. \A s \in Slots' : SlotRight(s)'
  BY <1>3 DEF SlotRight
<1> QED
  BY <1>1, <1>2, <1>3, <1>4, <1>5, <1>6, <1>7, <1>8 DEF LookupInv, Sound

\* A store takes a slot that was free and the next number of the round.
LEMMA StoreKeeps ==
    ASSUME LookupInv, pointer_lookup_store_pointer
    PROVE  LookupInv'
<1> DEFINE N == Cardinality(Slots)
           index == index_stack[stack_idx]
           store == Len(issued) + 1
           handle == [index |-> index, number |-> UniqueNumber]
           entry == [pointer_number |-> UniqueNumber, pointer |-> store]
<1>0. /\ FreeOnce /\ FreeAll /\ LookupTypeOK /\ HandlesRight /\ N \in Nat /\ Slots = 0 .. N - 1
      /\ \A s \in Slots : SlotRight(s)
      /\ \A k \in Sound : pointer_entries[issued[k].index].pointer = k /\ Matches(issued[k])
      /\ \A k \in collided : Alike(k) \ {k} # {}
  BY FreeIs DEF LookupInv
<1>1. /\ stack_idx < N
      /\ pointer_entries' = [pointer_entries EXCEPT ![index] = entry]
      /\ issued' = Append(issued, handle)
      /\ live' = live \cup {store}
      /\ stack_idx' = stack_idx + 1
      /\ number_generator' = UniqueNumber + 1
      /\ UNCHANGED <<index_stack, collided>>
  BY DEF pointer_lookup_store_pointer
<1>2. MAX_ADDRESS_NUMBER \in Nat \ {0} /\ Len(issued) \in Nat /\ DOMAIN issued = 1 .. Len(issued)
  BY EntryType
<1>3. UniqueNumber \in 0 .. MAX_ADDRESS_NUMBER - 1 /\ UniqueNumber = Len(issued) % MAX_ADDRESS_NUMBER
  BY <1>0, <1>2, ModRange DEF HandlesRight
<1>4. stack_idx \in FreePlaces /\ stack_idx \in Nat
  BY <1>0, <1>1 DEF FreePlaces, LookupTypeOK
<1>5. index \in Slots /\ pointer_entries[index] = EMPTY_ENTRY
  BY <1>0, <1>4 DEF FreeAll
<1>6. handle \in [index : Slots, number : 0 .. MAX_ADDRESS_NUMBER - 1]
  BY <1>3, <1>5
<1>7. Slots' = Slots /\ DOMAIN pointer_entries = Slots
  BY <1>1 DEF Slots
<1>8. /\ issued' \in Seq([index : Slots, number : 0 .. MAX_ADDRESS_NUMBER - 1])
      /\ Len(issued') = store /\ DOMAIN issued' = 1 .. store
      /\ \A k \in DOMAIN issued : issued'[k] = issued[k]
      /\ issued'[store] = handle
  <2> DEFINE R == [index : Slots, number : 0 .. MAX_ADDRESS_NUMBER - 1]
  <2>1. issued \in Seq(R) /\ handle \in R
    BY <1>0, <1>6 DEF HandlesRight
  <2> HIDE DEF R, handle
  <2>2. /\ issued' \in Seq(R) /\ Len(issued') = Len(issued) + 1
        /\ \A k \in 1 .. Len(issued) : issued'[k] = issued[k]
        /\ issued'[Len(issued) + 1] = handle
    BY <1>1, <2>1, AppendProperties
  <2> QED
    BY <1>2, <2>2 DEF R
<1>9. /\ pointer_entries'[index] = entry
      /\ \A s \in Slots \ {index} : pointer_entries'[s] = pointer_entries[s]
  BY <1>1, <1>5, <1>7
<1>10. entry # EMPTY_ENTRY
  BY <1>2, <1>3 DEF EMPTY_ENTRY
<1>11. store \notin DOMAIN issued /\ DOMAIN issued' = DOMAIN issued \cup {store}
  BY <1>2, <1>8
<1>12. Sound' = Sound \cup {store} /\ Sound \subseteq DOMAIN issued /\ store \notin Sound
  <2>1. collided \subseteq live /\ live \subseteq DOMAIN issued
    BY <1>0 DEF LookupTypeOK
  <2> QED
    BY <1>1, <1>11, <2>1 DEF Sound
<1>13. LookupTypeOK'
  <2> DEFINE E == [pointer_number : 0 .. MAX_ADDRESS_NUMBER, pointer : DOMAIN issued' \cup {NoPointer}]
  <2>1. entry \in E
    <3>1. UniqueNumber \in 0 .. MAX_ADDRESS_NUMBER
      BY <1>2, <1>3
    <3> QED
      BY <1>11, <3>1
  <2>2. pointer_entries \in [Slots -> E]
    BY <1>0, <1>11 DEF LookupTypeOK
  <2>3. pointer_entries' \in [Slots -> E]
    <3> HIDE DEF E, entry, index
    <3> QED
      BY <1>1, <2>1, <2>2
  <2>4. number_generator' \in 0 .. MAX_ADDRESS_NUMBER
    BY <1>1, <1>2, <1>3
  <2>5. stack_idx' \in 0 .. N
    BY <1>0, <1>1, <1>4
  <2> QED
    BY <1>0, <1>1, <1>7, <1>11, <2>3, <2>4, <2>5 DEF LookupTypeOK
<1>14. FreeSlotsExact'
  <2>1. FreePlaces' = FreePlaces \ {stack_idx}
    BY <1>0, <1>1, <1>4, <1>7 DEF FreePlaces
  <2>2. FreeOnce'
    BY <1>0, <1>1, <2>1 DEF FreeOnce
  <2>3. ASSUME NEW s
        PROVE  (\E i \in FreePlaces' : index_stack[i] = s) <=> s \in Slots /\ pointer_entries'[s] = EMPTY_ENTRY
    <3>1. CASE s = index
      <4>1. ~\E i \in FreePlaces' : index_stack[i] = s
        BY <1>0, <1>4, <2>1, <3>1 DEF FreeOnce
      <4> QED
        BY <1>9, <1>10, <3>1, <4>1
    <3>2. CASE s # index
      <4>1. (\E i \in FreePlaces' : index_stack[i] = s) <=> \E i \in FreePlaces : index_stack[i] = s
        BY <2>1, <3>2
      <4>2. s \in Slots => pointer_entries'[s] = pointer_entries[s]
        BY <1>9, <3>2
      <4> QED
        BY <1>0, <4>1, <4>2 DEF FreeAll
    <3> QED
      BY <3>1, <3>2
  <2>4. FreeAll'
    BY <1>1, <1>7, <2>3 DEF FreeAll
  <2> QED
    BY <2>2, <2>4, FreeIsNext
<1>15. HandlesRight'
  <2>1. UniqueNumber' = (Len(issued) + 1) % MAX_ADDRESS_NUMBER
    <3>1. (Len(issued) + 1) % MAX_ADDRESS_NUMBER =
            IF UniqueNumber + 1 = MAX_ADDRESS_NUMBER THEN 0 ELSE UniqueNumber + 1
      BY <1>2, <1>3, ModNext
    <3> QED
      BY <1>1, <1>2, <1>3, <3>1 DEF UniqueNumber
  <2>2. ASSUME NEW k \in DOMAIN issued' PROVE issued'[k].number = (k - 1) % MAX_ADDRESS_NUMBER
    <3>1. CASE k \in DOMAIN issued
      BY <1>0, <1>8, <3>1 DEF HandlesRight
    <3>2. CASE k = store
      <4>1. k - 1 = Len(issued)
        BY <1>2, <3>2
      <4> QED
        BY <1>3, <1>8, <3>2, <4>1
    <3> QED
      BY <1>11, <3>1, <3>2
  <2> QED
    BY <1>7, <1>8, <2>1, <2>2 DEF HandlesRight
<1> HIDE DEF handle, entry, index
<1>16. ASSUME NEW s \in Slots PROVE SlotRight(s)'
  <2>1. CASE s = index
    <3>1. pointer_entries'[s] = entry /\ entry.pointer = store /\ entry.pointer_number = UniqueNumber
      BY <1>9, <2>1 DEF entry
    <3>2. issued'[store].index = index /\ issued'[store].number = UniqueNumber
      BY <1>8 DEF handle
    <3> QED
      BY <1>12, <2>1, <3>1, <3>2 DEF SlotRight
  <2>2. CASE s # index
    <3>1. SlotRight(s) /\ pointer_entries'[s] = pointer_entries[s]
      BY <1>0, <1>9, <2>2
    <3>2. pointer_entries[s].pointer \in Sound =>
            /\ pointer_entries[s].pointer \in Sound'
            /\ issued'[pointer_entries[s].pointer] = issued[pointer_entries[s].pointer]
      BY <1>8, <1>12
    <3> QED
      BY <3>1, <3>2 DEF SlotRight
  <2> QED
    BY <2>1, <2>2
<1>17. ASSUME NEW k \in Sound'
       PROVE  /\ pointer_entries'[issued'[k].index].pointer = k
              /\ pointer_entries'[issued'[k].index].pointer_number = issued'[k].number
  <2>1. CASE k = store
    BY <1>8, <1>9, <2>1 DEF handle, entry
  <2>2. CASE k \in Sound
    <3>1. /\ issued'[k] = issued[k] /\ pointer_entries[issued[k].index].pointer = k
          /\ pointer_entries[issued[k].index].pointer_number = issued[k].number
          /\ issued[k].index \in Slots /\ issued[k].number \in 0 .. MAX_ADDRESS_NUMBER - 1
      BY <1>0, <1>8, <1>12, <2>2, EntryType DEF Matches
    <3>2. issued[k].index # index
      BY <1>2, <1>5, <3>1, EntryType
    <3> QED
      BY <1>9, <3>1, <3>2
  <2> QED
    BY <1>12, <2>1, <2>2
<1>18. ASSUME NEW k \in collided' PROVE Alike(k)' \ {k} # {}
  <2>1. k \in collided /\ k \in DOMAIN issued /\ Alike(k) \ {k} # {}
    BY <1>0, <1>1, <1>18 DEF LookupTypeOK
  <2>2. Alike(k) \subseteq Alike(k)'
    BY <1>8, <1>11, <2>1 DEF Alike
  <2> QED
    BY <2>1, <2>2
<1> QED
  BY <1>0, <1>7, <1>13, <1>14, <1>15, <1>16, <1>17, <1>18 DEF LookupInv, Matches

\* The handle of a store k that meets a number meets the slot of a store that
\* is alive: its own, or one that a round of numbers made alike.
LEMMA MatchIs ==
    ASSUME LookupInv, NEW k \in DOMAIN issued, Matches(issued[k])
    PROVE  LET s == issued[k].index
               j == pointer_entries[s].pointer
           IN  /\ s \in Slots /\ pointer_entries[s] # EMPTY_ENTRY
               /\ j \in Sound /\ issued[j].index = s
               /\ pointer_entries[s].pointer_number = issued[j].number
               /\ j \in Alike(k) /\ k \in Alike(j)
<1> DEFINE s == issued[k].index
           j == pointer_entries[s].pointer
<1>1. s \in Slots /\ issued[k].number \in 0 .. MAX_ADDRESS_NUMBER - 1 /\ MAX_ADDRESS_NUMBER \in Nat \ {0}
  BY EntryType
<1>2. pointer_entries[s] # EMPTY_ENTRY
  BY <1>1, EntryType DEF Matches
<1>3. /\ j \in Sound /\ issued[j].index = s
      /\ pointer_entries[s].pointer_number = issued[j].number
  BY <1>1, <1>2 DEF LookupInv, SlotRight
<1>4. j \in DOMAIN issued /\ issued[j].number = issued[k].number
  BY <1>3, EntryType DEF Matches
<1>5. (j - 1) % MAX_ADDRESS_NUMBER = (k - 1) % MAX_ADDRESS_NUMBER
  BY <1>4 DEF LookupInv, HandlesRight
<1> HIDE DEF j, s
<1>6. j \in Int /\ k \in Int /\ j - 1 \in Int /\ k - 1 \in Int
  BY <1>4, EntryType
<1>7. ((j - 1) - (k - 1)) % MAX_ADDRESS_NUMBER = 0 /\ ((k - 1) - (j - 1)) % MAX_ADDRESS_NUMBER = 0
  BY <1>1, <1>5, <1>6, ModSame
<1>8. (j - 1) - (k - 1) = j - k /\ (k - 1) - (j - 1) = k - j
  BY <1>6
<1>9. j \in Alike(k) /\ k \in Alike(j)
  BY <1>3, <1>4, <1>7, <1>8 DEF Alike, s
<1> QED
  BY <1>1, <1>2, <1>3, <1>9 DEF j, s

LEMMA ClearKeeps ==
    ASSUME LookupInv, NEW k \in DOMAIN issued, pointer_lookup_clear_pointer(k)
    PROVE  LookupInv'
<1> DEFINE N == Cardinality(Slots)
<1>0. /\ FreeOnce /\ FreeAll /\ LookupTypeOK /\ HandlesRight /\ N \in Nat /\ Slots = 0 .. N - 1
      /\ \A s \in Slots : SlotRight(s)
      /\ \A j \in Sound : pointer_entries[issued[j].index].pointer = j /\ Matches(issued[j])
      /\ \A j \in collided : Alike(j) \ {j} # {}
  BY FreeIs DEF LookupInv
<1>1. UNCHANGED <<number_generator, issued>> /\ live' = live \ {k}
  BY DEF pointer_lookup_clear_pointer
<1>2. UniqueNumber' = UniqueNumber
  BY <1>1 DEF UniqueNumber
<1>3. collided \subseteq live /\ live \subseteq DOMAIN issued
  BY <1>0 DEF LookupTypeOK
<1>4. CASE ~Matches(issued[k])
  <2>1. UNCHANGED <<pointer_entries, index_stack, stack_idx>> /\ collided' = collided \ {k}
    BY <1>4 DEF pointer_lookup_clear_pointer
  <2>2. Slots' = Slots /\ FreePlaces' = FreePlaces
    BY <2>1 DEF Slots, FreePlaces
  <2>3. k \notin Sound /\ Sound' = Sound
    BY <1>0, <1>1, <1>4, <2>1 DEF Sound
  <2>4. LookupTypeOK'
    BY <1>0, <1>1, <1>3, <2>1, <2>2 DEF LookupTypeOK
  <2>5. FreeSlotsExact'
    BY <1>0, <2>1, <2>2, FreeIsNext DEF FreeOnce, FreeAll
  <2>6. HandlesRight'
    BY <1>0, <1>1, <1>2, <2>2 DEF HandlesRight
  <2>7. /\ \A s \in Slots : SlotRight(s)'
        /\ \A j \in Sound' : pointer_entries'[issued'[j].index].pointer = j /\ Matches(issued[j])'
        /\ \A j \in collided' : Alike(j)' \ {j} # {}
    BY <1>0, <1>1, <2>1, <2>3 DEF SlotRight, Matches, Alike
  <2> QED
    BY <1>0, <2>2, <2>4, <2>5, <2>6, <2>7 DEF LookupInv
<1>5. CASE Matches(issued[k])
  <2> DEFINE slot == issued[k].index
             present == pointer_entries[slot].pointer
  <2>1. /\ slot \in Slots /\ pointer_entries[slot] # EMPTY_ENTRY
        /\ present \in Sound /\ issued[present].index = slot
        /\ present \in Alike(k) /\ k \in Alike(present)
    BY <1>5, MatchIs
  <2>2. /\ pointer_entries' = [pointer_entries EXCEPT ![slot] = EMPTY_ENTRY]
        /\ index_stack' = [index_stack EXCEPT ![stack_idx - 1] = slot]
        /\ stack_idx' = stack_idx - 1
        /\ collided' = (collided \cup {present}) \ {k}
    BY <1>5 DEF pointer_lookup_clear_pointer, pointer_lookup_get_pointer, Erased
  <2> HIDE DEF slot, present
  <2>3. stack_idx \in 1 .. N
    <3>1. stack_idx \in 0 .. N /\ index_stack \in [Slots -> Slots]
      BY <1>0 DEF LookupTypeOK
    <3>2. ASSUME stack_idx = 0 PROVE FALSE
      <4>1. FreePlaces = Slots
        BY <1>0, <3>2 DEF FreePlaces
      <4>2. index_stack \in [Slots -> Slots \ {slot}]
        BY <1>0, <2>1, <3>1, <4>1 DEF FreeAll
      <4>3. IsFiniteSet(Slots) /\ IsFiniteSet(Slots \ {slot}) /\ Cardinality(Slots \ {slot}) = N - 1
        <5>1. IsFiniteSet(Slots)
          BY <1>0, FS_Interval
        <5> QED
          BY <2>1, <5>1, FS_RemoveElement
      <4>4. \E x, y \in Slots : x # y /\ index_stack[x] = index_stack[y]
        BY <1>0, <4>2, <4>3, FS_PigeonHole
      <4> QED
        BY <1>0, <4>1, <4>4 DEF FreeOnce
    <3> QED
      BY <3>1, <3>2
  <2>4. Slots' = Slots /\ DOMAIN pointer_entries = Slots
    BY <2>2 DEF Slots
  <2>5. /\ pointer_entries'[slot] = EMPTY_ENTRY
        /\ \A s \in Slots \ {slot} : pointer_entries'[s] = pointer_entries[s]
    BY <2>1, <2>2, <2>4
  <2>6. /\ FreePlaces' = FreePlaces \cup {stack_idx - 1} /\ stack_idx - 1 \notin FreePlaces
        /\ stack_idx - 1 \in Slots
    BY <1>0, <2>2, <2>3, <2>4 DEF FreePlaces
  <2>7. /\ index_stack'[stack_idx - 1] = slot
        /\ \A i \in FreePlaces : index_stack'[i] = index_stack[i]
    <3>1. FreePlaces \subseteq Slots /\ index_stack \in [Slots -> Slots]
      BY <1>0, <2>3 DEF FreePlaces, LookupTypeOK
    <3> QED
      BY <2>2, <2>6, <3>1
  <2>8. \A i \in FreePlaces : index_stack[i] # slot
    BY <1>0, <2>1 DEF FreeAll
  <2>9. FreeSlotsExact'
    <3>1. FreeOnce'
      BY <1>0, <2>6, <2>7, <2>8 DEF FreeOnce
    <3>2. ASSUME NEW s
          PROVE  (\E i \in FreePlaces' : index_stack'[i] = s) <=> s \in Slots /\ pointer_entries'[s] = EMPTY_ENTRY
      <4>1. CASE s = slot
        BY <2>1, <2>5, <2>6, <2>7, <4>1
      <4>2. CASE s # slot
        <5>1. (\E i \in FreePlaces' : index_stack'[i] = s) <=> \E i \in FreePlaces : index_stack[i] = s
          BY <2>6, <2>7, <4>2
        <5>2. s \in Slots => pointer_entries'[s] = pointer_entries[s]
          BY <2>5, <4>2
        <5> QED
          BY <1>0, <5>1, <5>2 DEF FreeAll
      <4> QED
        BY <4>1, <4>2
    <3>3. FreeAll'
      BY <2>4, <3>2 DEF FreeAll
    <3> QED
      BY <3>1, <3>3, FreeIsNext
  <2>10. present \in DOMAIN issued /\ Sound' = Sound \ {present}
    <3>1. Sound' = (live \ {k}) \ ((collided \cup {present}) \ {k})
      BY <1>1, <2>2 DEF Sound
    <3>2. k \in Sound => k = present
      BY <1>0, <2>1 DEF present, slot
    <3> QED
      BY <1>3, <2>1, <3>1, <3>2 DEF Sound
  <2>11. LookupTypeOK'
    <3> DEFINE E == [pointer_number : 0 .. MAX_ADDRESS_NUMBER, pointer : DOMAIN issued \cup {NoPointer}]
    <3>1. EMPTY_ENTRY \in E
      BY EntryType DEF EMPTY_ENTRY
    <3>2. pointer_entries \in [Slots -> E]
      BY <1>0 DEF LookupTypeOK
    <3> HIDE DEF E
    <3>3. pointer_entries' \in [Slots -> E]
      BY <2>2, <3>1, <3>2
    <3>4. index_stack' \in [Slots -> Slots]
      BY <1>0, <2>1, <2>2 DEF LookupTypeOK
    <3>5. stack_idx' \in 0 .. N
      BY <1>0, <2>2, <2>3
    <3>6. collided' \subseteq live' /\ live' \subseteq DOMAIN issued
      BY <1>1, <1>3, <2>1, <2>2 DEF Sound
    <3> QED
      BY <1>0, <1>1, <2>4, <3>3, <3>4, <3>5, <3>6 DEF LookupTypeOK, E
  <2>12. HandlesRight'
    BY <1>0, <1>1, <1>2, <2>4 DEF HandlesRight
  <2>13. ASSUME NEW s \in Slots PROVE SlotRight(s)'
    <3>1. CASE s = slot
      BY <2>5, <3>1 DEF SlotRight
    <3>2. CASE s # slot
      <4>1. SlotRight(s) /\ pointer_entries'[s] = pointer_entries[s] /\ issued' = issued
        BY <1>0, <1>1, <2>5, <3>2
      <4>2. issued[pointer_entries[s].pointer].index = s =>  pointer_entries[s].pointer # present
        BY <2>1, <3>2
      <4> QED
        BY <2>10, <4>1, <4>2 DEF SlotRight
    <3> QED
      BY <3>1, <3>2
  <2>14. ASSUME NEW j \in Sound'
         PROVE  pointer_entries'[issued'[j].index].pointer = j /\ Matches(issued[j])'
    <3>1. j \in Sound /\ j # present /\ j \in DOMAIN issued
      BY <1>3, <2>10 DEF Sound
    <3>2. pointer_entries[issued[j].index].pointer = j /\ Matches(issued[j]) /\ issued[j].index \in Slots
      BY <1>0, <3>1, EntryType
    <3>3. issued[j].index # slot
      BY <3>1, <3>2 DEF present
    <3> QED
      BY <1>1, <2>5, <3>2, <3>3 DEF Matches
  <2>15. ASSUME NEW j \in collided' PROVE Alike(j)' \ {j} # {}
    <3>1. Alike(j)' = Alike(j)
      BY <1>1 DEF Alike
    <3>2. j \in collided \/ (j = present /\ j # k)
      BY <2>2
    <3> QED
      BY <1>0, <2>1, <3>1, <3>2
  <2> QED
    BY <1>0, <2>4, <2>9, <2>11, <2>12, <2>13, <2>14, <2>15 DEF LookupInv
<1> QED
  BY <1>4, <1>5

\* Destruction leaves what a lookup begins with.
LEMMA DestroyTable == pointer_lookup_destroy => LookupInv'
<1>1. pointer_lookup_destroy => LookupInit'
  BY DEF pointer_lookup_destroy, LookupInit
<1>2. LookupInit' => LookupInv'
  BY InitLookup, PTL
<1> QED
  BY <1>1, <1>2

LEMMA NextLookup == LookupInv /\ [LookupNext]_lookupVars => LookupInv'
<1> SUFFICES ASSUME LookupInv, [LookupNext]_lookupVars PROVE LookupInv'
  OBVIOUS
<1>1. CASE UNCHANGED lookupVars
  <2>1. /\ UNCHANGED <<pointer_entries, number_generator, index_stack, stack_idx>>
        /\ UNCHANGED <<issued, live, collided>>
    BY <1>1 DEF lookupVars
  <2>2. Slots' = Slots /\ Sound' = Sound /\ UniqueNumber' = UniqueNumber
    BY <2>1 DEF Slots, Sound, UniqueNumber
  <2>3. LookupTypeOK' /\ FreeSlotsExact'
    BY <2>1, <2>2, FreeIs, FreeIsNext DEF LookupInv, LookupTypeOK, FreeOnce, FreeAll, FreePlaces
  <2>4. HandlesRight'
    BY <2>1, <2>2 DEF LookupInv, HandlesRight
  <2>5. /\ \A s \in Slots : SlotRight(s)'
        /\ \A j \in Sound' : pointer_entries'[issued'[j].index].pointer = j /\ Matches(issued[j])'
        /\ \A j \in collided' : Alike(j)' \ {j} # {}
    BY <2>1, <2>2 DEF LookupInv, SlotRight, Matches, Alike
  <2> QED
    BY <2>2, <2>3, <2>4, <2>5 DEF LookupInv
<1> QED
  BY <1>1, InitTable, StoreKeeps, ClearKeeps, DestroyTable DEF LookupNext

LEMMA LookupInvSuffices == LookupInv => HandlesHold
<1> SUFFICES ASSUME LookupInv PROVE HandlesHold
  OBVIOUS
<1>1. \A k \in Sound : pointer_lookup_get_pointer(issued[k]) = k
  BY DEF LookupInv, pointer_lookup_get_pointer
<1>2. ASSUME NEW k \in DOMAIN issued \ Sound
      PROVE  LET got == pointer_lookup_get_pointer(issued[k])
             IN  got = NoPointer \/ got \in Alike(k) \cap live
  <2>1. CASE Matches(issued[k])
    BY <2>1, MatchIs DEF pointer_lookup_get_pointer, Sound
  <2>2. CASE ~Matches(issued[k])
    BY <2>2 DEF pointer_lookup_get_pointer
  <2> QED
    BY <2>1, <2>2
<1> QED
  BY <1>1, <1>2 DEF LookupInv, HandlesHold, Sound

-----------------------------------------------------------------------------
(***************************************************************************)
(* MemMonitor                                                              *)
(***************************************************************************)
\* What the first and the second update of a list add to a counter.
Part(u, i, c) == IF i <= Len(u) /\ u[i][1] = c THEN u[i][2] ELSE 0
Owes(u, c) == Part(u, 1, c) + Part(u, 2, c)

\* What all threads together have still to add to a counter.
Owing(c) == SumFunctionOnSet([t \in MonitorThreads |-> Owes(updates[t], c)], MonitorThreads)

Updates == {u \in Seq(Counters \X Int) : Len(u) <= 2}

UpdatesRight ==
    /\ MonitorTypeOK
    /\ updates \in [MonitorThreads -> Updates]
    /\ loaded \in [MonitorThreads -> Seq(Int)]
    /\ \A t \in MonitorThreads : loaded[t] # NotLoaded => updates[t] # << >>

\* One thread at most is between the read and the write of a counter that was
\* not raced for, and what it has read is still there.
LoadsRight ==
    \A t \in MonitorThreads :
      (loaded[t] # NotLoaded /\ updates[t][1][1] \notin raced) =>
        /\ loaded[t][1] = counters[updates[t][1][1]]
        /\ \A u \in MonitorThreads \ {t} :
             loaded[u] # NotLoaded => updates[u][1][1] # updates[t][1][1]

BytesRight == "bytes_used" \notin raced => counters["bytes_used"] + Owing("bytes_used") = BytesHeld

BlocksRight == {"allocations", "frees"} \cap raced = {} =>
                 (counters["allocations"] + Owing("allocations"))
                   - (counters["frees"] + Owing("frees")) = BlocksHeld

MonitorInv == UpdatesRight /\ LoadsRight /\ BytesRight /\ BlocksRight

LEMMA OwesType ==
    ASSUME NEW u \in Updates, NEW c
    PROVE  Part(u, 1, c) \in Int /\ Part(u, 2, c) \in Int /\ Owes(u, c) \in Int
<1>1. u \in Seq(Counters \X Int) /\ Len(u) <= 2 /\ Len(u) \in Nat
  BY DEF Updates
<1>2. ASSUME NEW i \in {1, 2} PROVE Part(u, i, c) \in Int
  <2>1. i <= Len(u) => u[i] \in Counters \X Int
    BY <1>1
  <2> QED
    BY <2>1 DEF Part
<1>3. Part(u, 1, c) \in Int /\ Part(u, 2, c) \in Int
  BY <1>2
<1> QED
  BY <1>3 DEF Owes

\* The first update of a list is the first to go.
LEMMA OwesTail ==
    ASSUME NEW u \in Updates, u # << >>
    PROVE  /\ u[1] \in Counters \X Int /\ Tail(u) \in Updates
           /\ \A c : Owes(u, c) = Owes(Tail(u), c) + (IF u[1][1] = c THEN u[1][2] ELSE 0)
<1>1. u \in Seq(Counters \X Int) /\ Len(u) \in {1, 2}
  <2>1. u \in Seq(Counters \X Int) /\ Len(u) <= 2
    BY DEF Updates
  <2>2. Len(u) \in Nat /\ Len(u) # 0
    BY <2>1, EmptySeq
  <2>3. Len(u) <= 2
    BY <2>1
  <2> QED
    <3> DEFINE n == Len(u)
    <3> HIDE DEF n
    <3>1. n \in Nat /\ n # 0 /\ n <= 2 => n \in {1, 2}
      OBVIOUS
    <3> QED
      BY <2>1, <2>2, <2>3, <3>1 DEF n
<1>2. /\ Tail(u) \in Seq(Counters \X Int) /\ Len(Tail(u)) = Len(u) - 1
      /\ u[1] \in Counters \X Int
      /\ (Len(u) = 2 => Tail(u)[1] = u[2])
  BY <1>1
<1>3. Tail(u) \in Updates
  BY <1>1, <1>2 DEF Updates
<1>4. ASSUME NEW c PROVE Owes(u, c) = Owes(Tail(u), c) + (IF u[1][1] = c THEN u[1][2] ELSE 0)
  <2> DEFINE w == Tail(u)
  <2>1. Part(u, 1, c) = IF u[1][1] = c THEN u[1][2] ELSE 0
    BY <1>1 DEF Part
  <2>2. Part(w, 1, c) = Part(u, 2, c)
    <3>1. CASE Len(u) = 2
      <4>1. Len(w) = 1 /\ w[1] = u[2]
        BY <1>2, <3>1
      <4> QED
        BY <3>1, <4>1 DEF Part
    <3>2. CASE Len(u) = 1
      <4>1. Len(w) = 0
        BY <1>2, <3>2
      <4> HIDE DEF w
      <4> QED
        BY <3>2, <4>1 DEF Part
    <3> QED
      BY <1>1, <3>1, <3>2
  <2>3. Part(w, 2, c) = 0
    <3>1. Len(w) \in {0, 1}
      BY <1>1, <1>2
    <3> HIDE DEF w
    <3> QED
      BY <3>1 DEF Part
  <2>4. Part(u, 1, c) \in Int /\ Part(u, 2, c) \in Int
    BY OwesType
  <2> HIDE DEF w
  <2>5. Owes(u, c) = Owes(w, c) + Part(u, 1, c)
    BY <2>2, <2>3, <2>4 DEF Owes
  <2> QED
    BY <2>1, <2>5 DEF w
<1> QED
  BY <1>2, <1>3, <1>4

LEMMA OwingChange ==
    ASSUME UpdatesRight, NEW t \in MonitorThreads, NEW u \in Updates,
           updates' = [updates EXCEPT ![t] = u], NEW c
    PROVE  /\ Owing(c) \in Int
           /\ Owing(c)' = Owing(c) - Owes(updates[t], c) + Owes(u, c)
<1> DEFINE f == [x \in MonitorThreads |-> Owes(updates[x], c)]
           g == [x \in MonitorThreads |-> Owes(updates'[x], c)]
<1>1. updates \in [MonitorThreads -> Updates] /\ IsFiniteSet(MonitorThreads)
  BY MonitorAssumption DEF UpdatesRight
<1>2. /\ updates'[t] = u
      /\ \A x \in MonitorThreads \ {t} : updates'[x] = updates[x]
      /\ \A x \in MonitorThreads : updates'[x] \in Updates /\ updates[x] \in Updates
  BY <1>1
<1>3. /\ \A x \in MonitorThreads : f[x] \in Int /\ g[x] \in Int
      /\ \A x \in MonitorThreads \ {t} : g[x] = f[x]
      /\ f[t] = Owes(updates[t], c) /\ g[t] = Owes(u, c)
  BY <1>2, OwesType
<1>4. Owing(c) = SumFunctionOnSet(f, MonitorThreads) /\ Owing(c)' = SumFunctionOnSet(g, MonitorThreads)
  BY DEF Owing
<1> HIDE DEF f, g
<1>5. SumFunctionOnSet(f, MonitorThreads) \in Int
  BY <1>1, <1>3, SumType
<1>6. SumFunctionOnSet(g, MonitorThreads) = SumFunctionOnSet(f, MonitorThreads) - f[t] + g[t]
  BY <1>1, <1>3, SumChange
<1> QED
  BY <1>3, <1>4, <1>5, <1>6

\* The bytes and the number of blocks held, as operators of who holds what.
Bytes(h) == SumFunction([b \in MonitorThreads \X BlockSizes |-> b[2] * h[b]])
Blocks(h) == SumFunction([b \in MonitorThreads \X BlockSizes |-> h[b]])

LEMMA HeldChange ==
    ASSUME NEW h \in [MonitorThreads \X BlockSizes -> Nat],
           NEW t \in MonitorThreads, NEW s \in BlockSizes, NEW n \in Nat
    PROVE  /\ Bytes(h) \in Int /\ Blocks(h) \in Int /\ s \in Nat
           /\ Bytes([h EXCEPT ![<<t, s>>] = n]) = Bytes(h) - s * h[<<t, s>>] + s * n
           /\ Blocks([h EXCEPT ![<<t, s>>] = n]) = Blocks(h) - h[<<t, s>>] + n
<1> DEFINE D == MonitorThreads \X BlockSizes
           e == <<t, s>>
           k == [h EXCEPT ![<<t, s>>] = n]
           f == [b \in D |-> b[2] * h[b]]
           g == [b \in D |-> b[2] * k[b]]
           i == [b \in D |-> h[b]]
           j == [b \in D |-> k[b]]
<1>1. e \in D /\ IsFiniteSet(D) /\ s \in Nat /\ e[2] = s
  BY MonitorAssumption, FS_Product
<1>2. k \in [D -> Nat] /\ k[e] = n /\ \A b \in D \ {e} : k[b] = h[b]
  BY <1>1
<1>3. \A b \in D : b[2] \in Nat
  BY MonitorAssumption
<1>4. \A b \in D : f[b] = b[2] * h[b] /\ g[b] = b[2] * k[b] /\ i[b] = h[b] /\ j[b] = k[b]
  OBVIOUS
<1>5. /\ Bytes(h) = SumFunctionOnSet(f, D) /\ Bytes(k) = SumFunctionOnSet(g, D)
      /\ Blocks(h) = SumFunctionOnSet(i, D) /\ Blocks(k) = SumFunctionOnSet(j, D)
  BY DEF Bytes, Blocks, SumFunction
<1>6. \A b \in D : h[b] \in Nat /\ k[b] \in Nat
  BY <1>2
<1> HIDE DEF D, e, k, f, g, i, j
<1>7. \A b \in D : f[b] \in Int /\ g[b] \in Int /\ i[b] \in Int /\ j[b] \in Int
  <2> SUFFICES ASSUME NEW b \in D PROVE f[b] \in Int /\ g[b] \in Int /\ i[b] \in Int /\ j[b] \in Int
    OBVIOUS
  <2>1. b[2] \in Nat /\ h[b] \in Nat /\ k[b] \in Nat
    BY <1>3, <1>6
  <2>2. b[2] * h[b] \in Int /\ b[2] * k[b] \in Int
    BY <2>1
  <2> QED
    BY <1>4, <2>1, <2>2
<1>8. \A b \in D \ {e} : g[b] = f[b] /\ j[b] = i[b]
  BY <1>2, <1>4
<1>9. /\ SumFunctionOnSet(g, D) = SumFunctionOnSet(f, D) - f[e] + g[e]
      /\ SumFunctionOnSet(j, D) = SumFunctionOnSet(i, D) - i[e] + j[e]
  BY <1>1, <1>7, <1>8, SumChange
<1>10. SumFunctionOnSet(f, D) \in Int /\ SumFunctionOnSet(i, D) \in Int
  BY <1>1, <1>7, SumType
<1>11. f[e] = s * h[e] /\ g[e] = s * n /\ i[e] = h[e] /\ j[e] = n
  BY <1>1, <1>2, <1>4
<1>12. /\ Bytes(k) = Bytes(h) - s * h[e] + s * n
       /\ Blocks(k) = Blocks(h) - h[e] + n
  BY <1>5, <1>9, <1>11
<1> QED
  BY <1>1, <1>5, <1>10, <1>12 DEF e, k

LEMMA HeldIs ==
    held \in [MonitorThreads \X BlockSizes -> Nat] => BytesHeld = Bytes(held) /\ BlocksHeld = Blocks(held)
<1> SUFFICES ASSUME held \in [MonitorThreads \X BlockSizes -> Nat]
             PROVE  BytesHeld = Bytes(held) /\ BlocksHeld = Blocks(held)
  OBVIOUS
<1>1. DOMAIN held = MonitorThreads \X BlockSizes /\ held = [b \in MonitorThreads \X BlockSizes |-> held[b]]
  OBVIOUS
<1> QED
  BY <1>1 DEF BytesHeld, BlocksHeld, Bytes, Blocks

LEMMA HeldIsNext ==
    held' \in [MonitorThreads \X BlockSizes -> Nat] => BytesHeld' = Bytes(held') /\ BlocksHeld' = Blocks(held')
<1>1. (held \in [MonitorThreads \X BlockSizes -> Nat] => BytesHeld = Bytes(held) /\ BlocksHeld = Blocks(held))'
  BY HeldIs, PTL
<1> QED
  BY <1>1 DEF Bytes, Blocks

\* A call adds what it owes and changes no counter yet.
LEMMA CallIs ==
    ASSUME MonitorInv, NEW t \in MonitorThreads, NEW p \in Counters \X Int, NEW q \in Counters \X Int,
           Call(t, <<p, q>>), held' \in [MonitorThreads \X BlockSizes -> Nat]
    PROVE  /\ UpdatesRight' /\ LoadsRight' /\ counters' = counters /\ raced' = raced
           /\ \A c \in Counters : /\ counters[c] \in Int /\ Owing(c) \in Int
                                /\ Owing(c)' = Owing(c) + (IF p[1] = c THEN p[2] ELSE 0)
                                                       + (IF q[1] = c THEN q[2] ELSE 0)
<1> DEFINE todo == <<p, q>>
<1>1. /\ UpdatesRight /\ LoadsRight /\ updates[t] = << >>
      /\ updates \in [MonitorThreads -> Updates]
      /\ updates' = [updates EXCEPT ![t] = todo]
      /\ counters' = counters /\ loaded' = loaded /\ raced' = raced
  BY DEF MonitorInv, UpdatesRight, Call
<1>2. todo \in Updates
  BY DEF Updates
<1>3. /\ updates' \in [MonitorThreads -> Updates] /\ updates'[t] # << >>
      /\ \A x \in MonitorThreads \ {t} : updates'[x] = updates[x]
  <2>1. todo # << >>
    OBVIOUS
  <2> QED
    BY <1>1, <1>2, <2>1
<1>4. loaded[t] = NotLoaded
  BY <1>1 DEF UpdatesRight
<1>5. UpdatesRight'
  BY <1>1, <1>3 DEF UpdatesRight, MonitorTypeOK
<1>6. LoadsRight'
  BY <1>1, <1>3, <1>4 DEF LoadsRight
<1>7. ASSUME NEW c \in Counters
      PROVE  /\ counters[c] \in Int /\ Owing(c) \in Int
             /\ Owing(c)' = Owing(c) + (IF p[1] = c THEN p[2] ELSE 0) + (IF q[1] = c THEN q[2] ELSE 0)
  <2>1. Owing(c) \in Int /\ Owing(c)' = Owing(c) - Owes(updates[t], c) + Owes(todo, c)
    BY <1>1, <1>2, OwingChange
  <2>2. Owes(updates[t], c) = 0
    BY <1>1 DEF Owes, Part
  <2>3. Part(todo, 1, c) = (IF p[1] = c THEN p[2] ELSE 0) /\ Part(todo, 2, c) = (IF q[1] = c THEN q[2] ELSE 0)
    BY DEF Part
  <2>4. Owes(todo, c) = (IF p[1] = c THEN p[2] ELSE 0) + (IF q[1] = c THEN q[2] ELSE 0)
    BY <2>3 DEF Owes
  <2>5. counters[c] \in Int /\ p[2] \in Int /\ q[2] \in Int
    BY <1>1 DEF UpdatesRight, MonitorTypeOK
  <2> HIDE DEF todo
  <2> QED
    BY <2>1, <2>2, <2>4, <2>5
<1> QED
  BY <1>1, <1>5, <1>6, <1>7

\* What is owed changes as what is held does.
LEMMA SumsMove ==
    ASSUME BytesRight, BlocksRight, counters' = counters, raced' = raced,
           \A c \in {"bytes_used", "allocations", "frees"} : counters[c] \in Int /\ Owing(c) \in Int,
           BytesHeld \in Int, BlocksHeld \in Int,
           NEW n \in Int, NEW a \in Int, NEW f \in Int,
           BytesHeld' = BytesHeld + n, BlocksHeld' = BlocksHeld + a - f,
           Owing("bytes_used")' = Owing("bytes_used") + n,
           Owing("allocations")' = Owing("allocations") + a,
           Owing("frees")' = Owing("frees") + f
    PROVE  BytesRight' /\ BlocksRight'
<1>1. BytesRight'
  BY DEF BytesRight
<1>2. ASSUME NEW x \in Int, NEW p \in Int, NEW y \in Int, NEW q \in Int, NEW b, (x + p) - (y + q) = b
      PROVE  (x + (p + a)) - (y + (q + f)) = b + a - f
  BY <1>2
<1>3. BlocksRight'
  <2>1. SUFFICES ASSUME {"allocations", "frees"} \cap raced' = {}
                 PROVE  (counters'["allocations"] + Owing("allocations")')
                           - (counters'["frees"] + Owing("frees")') = BlocksHeld'
    BY DEF BlocksRight
  <2>2. (counters["allocations"] + Owing("allocations")) - (counters["frees"] + Owing("frees")) = BlocksHeld
    BY <2>1 DEF BlocksRight
  <2> QED
    BY <2>2, <1>2
<1> QED
  BY <1>1, <1>3

LEMMA AllocateKeeps ==
    ASSUME MonitorInv, NEW t \in MonitorThreads, NEW size \in BlockSizes,
           mem_monitor_allocate(t, size)
    PROVE  MonitorInv'
<1>1. held \in [MonitorThreads \X BlockSizes -> Nat] /\ size \in Nat /\ held[<<t, size>>] \in Nat
  BY MonitorAssumption DEF MonitorInv, UpdatesRight, MonitorTypeOK
<1>2. /\ held' = [held EXCEPT ![<<t, size>>] = held[<<t, size>>] + 1]
      /\ held' \in [MonitorThreads \X BlockSizes -> Nat]
  BY <1>1 DEF mem_monitor_allocate
<1>3. /\ Bytes(held) \in Int /\ Blocks(held) \in Int
      /\ Bytes(held') = Bytes(held) - size * held[<<t, size>>] + size * (held[<<t, size>>] + 1)
      /\ Blocks(held') = Blocks(held) - held[<<t, size>>] + (held[<<t, size>>] + 1)
  <2> DEFINE n == held[<<t, size>>] + 1
             k == [held EXCEPT ![<<t, size>>] = n]
  <2>1. n \in Nat /\ held' = k
    BY <1>1, <1>2
  <2> HIDE DEF n
  <2>2. /\ Bytes(held) \in Int /\ Blocks(held) \in Int
        /\ Bytes(k) = Bytes(held) - size * held[<<t, size>>] + size * n
        /\ Blocks(k) = Blocks(held) - held[<<t, size>>] + n
    BY <1>1, <2>1, HeldChange
  <2> QED
    BY <2>1, <2>2 DEF n
<1>4. BytesHeld' = BytesHeld + size /\ BlocksHeld' = BlocksHeld + 1 /\ BytesHeld \in Int /\ BlocksHeld \in Int
  BY <1>1, <1>2, <1>3, HeldIs, HeldIsNext
<1>5. /\ UpdatesRight' /\ LoadsRight' /\ counters' = counters /\ raced' = raced
      /\ \A c \in Counters : /\ counters[c] \in Int /\ Owing(c) \in Int
                           /\ Owing(c)' = Owing(c) + (IF "bytes_used" = c THEN size ELSE 0)
                                                  + (IF "allocations" = c THEN 1 ELSE 0)
  BY <1>1, <1>2, CallIs DEF mem_monitor_allocate, Counters
<1>6. /\ Owing("bytes_used")' = Owing("bytes_used") + size
      /\ Owing("allocations")' = Owing("allocations") + 1 /\ Owing("frees")' = Owing("frees")
      /\ \A c \in {"bytes_used", "allocations", "frees"} : counters[c] \in Int /\ Owing(c) \in Int
  BY <1>1, <1>5 DEF Counters
<1>7. BytesHeld' = BytesHeld + size /\ BlocksHeld' = BlocksHeld + 1 - 0 /\ Owing("frees")' = Owing("frees") + 0
  BY <1>4, <1>6
<1>8. BytesRight' /\ BlocksRight'
  BY <1>1, <1>4, <1>5, <1>6, <1>7, SumsMove DEF MonitorInv
<1> QED
  BY <1>5, <1>8 DEF MonitorInv

LEMMA MonitorFreeKeeps ==
    ASSUME MonitorInv, NEW t \in MonitorThreads, NEW size \in BlockSizes,
           mem_monitor_free(t, size)
    PROVE  MonitorInv'
<1>1. /\ held \in [MonitorThreads \X BlockSizes -> Nat] /\ size \in Nat
      /\ held[<<t, size>>] \in Nat /\ held[<<t, size>>] > 0
  BY MonitorAssumption DEF MonitorInv, UpdatesRight, MonitorTypeOK, mem_monitor_free
<1>2. /\ held' = [held EXCEPT ![<<t, size>>] = held[<<t, size>>] - 1]
      /\ held' \in [MonitorThreads \X BlockSizes -> Nat] /\ held[<<t, size>>] - 1 \in Nat
  BY <1>1 DEF mem_monitor_free
<1>3. /\ Bytes(held) \in Int /\ Blocks(held) \in Int
      /\ Bytes(held') = Bytes(held) - size * held[<<t, size>>] + size * (held[<<t, size>>] - 1)
      /\ Blocks(held') = Blocks(held) - held[<<t, size>>] + (held[<<t, size>>] - 1)
  <2> DEFINE n == held[<<t, size>>] - 1
             k == [held EXCEPT ![<<t, size>>] = n]
  <2>1. n \in Nat /\ held' = k
    BY <1>1, <1>2
  <2> HIDE DEF n
  <2>2. /\ Bytes(held) \in Int /\ Blocks(held) \in Int
        /\ Bytes(k) = Bytes(held) - size * held[<<t, size>>] + size * n
        /\ Blocks(k) = Blocks(held) - held[<<t, size>>] + n
    BY <1>1, <2>1, HeldChange
  <2> QED
    BY <2>1, <2>2 DEF n
<1>4. BytesHeld' = BytesHeld - size /\ BlocksHeld' = BlocksHeld - 1 /\ BytesHeld \in Int /\ BlocksHeld \in Int
  BY <1>1, <1>2, <1>3, HeldIs, HeldIsNext
<1>5. /\ UpdatesRight' /\ LoadsRight' /\ counters' = counters /\ raced' = raced
      /\ \A c \in Counters : /\ counters[c] \in Int /\ Owing(c) \in Int
                           /\ Owing(c)' = Owing(c) + (IF "bytes_used" = c THEN -size ELSE 0)
                                                  + (IF "frees" = c THEN 1 ELSE 0)
  BY <1>1, <1>2, CallIs DEF mem_monitor_free, Counters
<1>6. /\ Owing("bytes_used")' = Owing("bytes_used") - size
      /\ Owing("allocations")' = Owing("allocations") /\ Owing("frees")' = Owing("frees") + 1
      /\ \A c \in {"bytes_used", "allocations", "frees"} : counters[c] \in Int /\ Owing(c) \in Int
  BY <1>1, <1>5 DEF Counters
<1>7. /\ BytesHeld' = BytesHeld + (-size) /\ BlocksHeld' = BlocksHeld + 0 - 1 /\ -size \in Int
      /\ Owing("bytes_used")' = Owing("bytes_used") + (-size)
      /\ Owing("allocations")' = Owing("allocations") + 0
  BY <1>1, <1>4, <1>6
<1>8. BytesRight' /\ BlocksRight'
  BY <1>4, <1>5, <1>6, <1>7, SumsMove DEF MonitorInv
<1> QED
  BY <1>5, <1>8 DEF MonitorInv

LEMMA ReallocateKeeps ==
    ASSUME MonitorInv, NEW t \in MonitorThreads, NEW size \in BlockSizes, NEW new_size \in BlockSizes,
           mem_monitor_reallocate(t, size, new_size)
    PROVE  MonitorInv'
<1> DEFINE a == held[<<t, size>>]
           b == held[<<t, new_size>>]
           h == [held EXCEPT ![<<t, size>>] = a - 1]
<1>1. /\ held \in [MonitorThreads \X BlockSizes -> Nat] /\ size \in Nat /\ new_size \in Nat
      /\ a \in Nat /\ b \in Nat /\ a > 0 /\ a - 1 \in Nat /\ size # new_size
  BY MonitorAssumption DEF MonitorInv, UpdatesRight, MonitorTypeOK, mem_monitor_reallocate
<1>2. h \in [MonitorThreads \X BlockSizes -> Nat] /\ h[<<t, new_size>>] = b
  BY <1>1
<1>3. /\ held' = [h EXCEPT ![<<t, new_size>>] = b + 1]
      /\ held' \in [MonitorThreads \X BlockSizes -> Nat] /\ b + 1 \in Nat
  BY <1>1, <1>2 DEF mem_monitor_reallocate
<1>4. /\ Bytes(held) \in Int /\ Blocks(held) \in Int
      /\ Bytes(h) = Bytes(held) - size * a + size * (a - 1)
      /\ Blocks(h) = Blocks(held) - a + (a - 1)
  <2> DEFINE n == a - 1
             k == [held EXCEPT ![<<t, size>>] = n]
  <2>1. n \in Nat /\ h = k /\ held[<<t, size>>] = a
    BY <1>1
  <2> HIDE DEF n, h
  <2>2. /\ Bytes(held) \in Int /\ Blocks(held) \in Int
        /\ Bytes(k) = Bytes(held) - size * held[<<t, size>>] + size * n
        /\ Blocks(k) = Blocks(held) - held[<<t, size>>] + n
    <3>1. held \in [MonitorThreads \X BlockSizes -> Nat]
      BY <1>1
    <3> QED
      BY <2>1, <3>1, HeldChange, ZenonT(60)
  <2> QED
    BY <2>1, <2>2 DEF n
<1>5. /\ Bytes(held') = Bytes(h) - new_size * b + new_size * (b + 1)
      /\ Blocks(held') = Blocks(h) - b + (b + 1)
  <2> DEFINE n == b + 1
             k == [h EXCEPT ![<<t, new_size>>] = n]
  <2>1. n \in Nat /\ held' = k
    BY <1>1, <1>3
  <2> HIDE DEF n, h
  <2>2. /\ Bytes(k) = Bytes(h) - new_size * h[<<t, new_size>>] + new_size * n
        /\ Blocks(k) = Blocks(h) - h[<<t, new_size>>] + n
    BY <1>2, <2>1, HeldChange
  <2> QED
    BY <1>2, <2>1, <2>2 DEF n
<1> HIDE DEF h, a, b
<1>6. /\ BytesHeld' = BytesHeld - size + new_size /\ BlocksHeld' = BlocksHeld
      /\ BytesHeld \in Int /\ BlocksHeld \in Int
  <2>1. size * (a - 1) = size * a - size /\ new_size * (b + 1) = new_size * b + new_size
        /\ size * a \in Int /\ new_size * b \in Int
    BY <1>1
  <2> QED
    <3>1. /\ BytesHeld = Bytes(held) /\ BlocksHeld = Blocks(held)
          /\ BytesHeld' = Bytes(held') /\ BlocksHeld' = Blocks(held')
      BY <1>1, <1>3, HeldIs, HeldIsNext
    <3>2. Bytes(h) = Bytes(held) - size /\ Blocks(h) = Blocks(held) - 1
      BY <1>1, <1>4, <2>1
    <3>3. Bytes(held') = Bytes(held) - size + new_size /\ Blocks(held') = Blocks(held)
      BY <1>1, <1>4, <1>5, <2>1, <3>2
    <3> QED
      BY <1>4, <3>1, <3>3
<1>7. /\ UpdatesRight' /\ LoadsRight' /\ counters' = counters /\ raced' = raced
      /\ \A c \in Counters : /\ counters[c] \in Int /\ Owing(c) \in Int
                           /\ Owing(c)' = Owing(c) + (IF "bytes_used" = c THEN -size ELSE 0)
                                                  + (IF "bytes_used" = c THEN new_size ELSE 0)
  BY <1>1, <1>3, CallIs DEF mem_monitor_reallocate, Counters
<1>8. /\ Owing("bytes_used")' = Owing("bytes_used") - size + new_size
      /\ Owing("allocations")' = Owing("allocations") /\ Owing("frees")' = Owing("frees")
      /\ \A c \in {"bytes_used", "allocations", "frees"} : counters[c] \in Int /\ Owing(c) \in Int
  BY <1>1, <1>7 DEF Counters
<1> QED
  BY <1>1, <1>6, <1>7, <1>8, SumsMove DEF MonitorInv

LEMMA LoadKeeps ==
    ASSUME MonitorInv, NEW t \in MonitorThreads, LoadCounter(t)
    PROVE  MonitorInv'
<1> DEFINE c == updates[t][1][1]
<1>1. /\ UpdatesRight /\ LoadsRight /\ BytesRight /\ BlocksRight
      /\ updates[t] # << >> /\ loaded[t] = NotLoaded
      /\ counters' = counters /\ held' = held /\ updates' = updates
      /\ loaded' = [loaded EXCEPT ![t] = <<counters[c]>>]
      /\ raced' = IF \E u \in MonitorThreads : loaded[u] # NotLoaded /\ updates[u][1][1] = c
                  THEN raced \cup {c} ELSE raced
  BY DEF MonitorInv, LoadCounter
<1>2. c \in Counters /\ counters[c] \in Int
  <2>1. updates[t] \in Updates
    BY <1>1 DEF UpdatesRight
  <2> QED
    BY <1>1, <2>1, OwesTail DEF UpdatesRight, MonitorTypeOK
<1>3. /\ loaded' \in [MonitorThreads -> Seq(Int)] /\ loaded'[t] = <<counters[c]>>
      /\ \A x \in MonitorThreads \ {t} : loaded'[x] = loaded[x]
  <2>1. <<counters[c]>> \in Seq(Int) /\ loaded \in [MonitorThreads -> Seq(Int)]
    BY <1>1, <1>2 DEF UpdatesRight
  <2> QED
    BY <1>1, <2>1
<1>4. raced' \subseteq Counters /\ raced \subseteq raced'
  BY <1>1, <1>2 DEF UpdatesRight, MonitorTypeOK
<1>5. UpdatesRight'
  BY <1>1, <1>3, <1>4 DEF UpdatesRight, MonitorTypeOK
<1>6. LoadsRight'
  <2> SUFFICES ASSUME NEW x \in MonitorThreads, loaded'[x] # NotLoaded, updates[x][1][1] \notin raced'
               PROVE  /\ loaded'[x][1] = counters[updates[x][1][1]]
                      /\ \A u \in MonitorThreads \ {x} :
                           loaded'[u] # NotLoaded => updates[u][1][1] # updates[x][1][1]
    BY <1>1 DEF LoadsRight
  <2>1. CASE x = t
    BY <1>1, <1>3, <2>1
  <2>2. CASE x # t
    <3>1. loaded[x] # NotLoaded /\ updates[x][1][1] \notin raced
      BY <1>3, <1>4, <2>2
    <3>2. c # updates[x][1][1]
      BY <1>1, <3>1
    <3> QED
      BY <1>1, <1>3, <2>2, <3>1, <3>2 DEF LoadsRight
  <2> QED
    BY <2>1, <2>2
<1>7. \A k : Owing(k)' = Owing(k)
  BY <1>1 DEF Owing
<1>8. BytesHeld' = BytesHeld /\ BlocksHeld' = BlocksHeld
  BY <1>1 DEF BytesHeld, BlocksHeld
<1> QED
  BY <1>1, <1>4, <1>5, <1>6, <1>7, <1>8 DEF MonitorInv, BytesRight, BlocksRight

LEMMA StoreCounterKeeps ==
    ASSUME MonitorInv, NEW t \in MonitorThreads, StoreCounter(t)
    PROVE  MonitorInv'
<1> DEFINE c == updates[t][1][1]
           d == updates[t][1][2]
           u == Tail(updates[t])
<1>1. /\ UpdatesRight /\ LoadsRight /\ BytesRight /\ BlocksRight
      /\ loaded[t] # NotLoaded /\ held' = held /\ raced' = raced
      /\ counters' = [counters EXCEPT ![c] = loaded[t][1] + d]
      /\ loaded' = [loaded EXCEPT ![t] = NotLoaded]
      /\ updates' = [updates EXCEPT ![t] = u]
  BY DEF MonitorInv, StoreCounter
<1>2. updates[t] \in Updates /\ updates[t] # << >>
  BY <1>1 DEF UpdatesRight
<1>3. /\ c \in Counters /\ d \in Int /\ u \in Updates
      /\ \A k : Owes(updates[t], k) = Owes(u, k) + (IF c = k THEN d ELSE 0)
  BY <1>2, OwesTail
<1>4. loaded[t][1] \in Int
  <2>1. loaded[t] \in Seq(Int) /\ loaded[t] # << >>
    BY <1>1 DEF UpdatesRight, NotLoaded
  <2> QED
    BY <2>1
<1>5. /\ counters \in [Counters -> Int] /\ counters' \in [Counters -> Int]
      /\ counters'[c] = loaded[t][1] + d
      /\ \A k \in Counters \ {c} : counters'[k] = counters[k]
  BY <1>1, <1>3, <1>4 DEF UpdatesRight, MonitorTypeOK
<1>6. /\ loaded' \in [MonitorThreads -> Seq(Int)] /\ loaded'[t] = NotLoaded
      /\ updates' \in [MonitorThreads -> Updates]
      /\ \A x \in MonitorThreads \ {t} : loaded'[x] = loaded[x] /\ updates'[x] = updates[x]
  <2>1. NotLoaded \in Seq(Int)
    BY DEF NotLoaded
  <2> QED
    BY <1>1, <1>3, <2>1 DEF UpdatesRight
<1>7. UpdatesRight'
  BY <1>1, <1>5, <1>6 DEF UpdatesRight, MonitorTypeOK
<1>8. LoadsRight'
  <2> SUFFICES ASSUME NEW x \in MonitorThreads, loaded'[x] # NotLoaded, updates'[x][1][1] \notin raced'
               PROVE  /\ loaded'[x][1] = counters'[updates'[x][1][1]]
                      /\ \A v \in MonitorThreads \ {x} :
                           loaded'[v] # NotLoaded => updates'[v][1][1] # updates'[x][1][1]
    BY DEF LoadsRight
  <2>1. x # t /\ loaded'[x] = loaded[x] /\ updates'[x] = updates[x]
    BY <1>6
  <2>2. /\ loaded[x][1] = counters[updates[x][1][1]]
        /\ \A v \in MonitorThreads \ {x} :
             loaded[v] # NotLoaded => updates[v][1][1] # updates[x][1][1]
    BY <1>1, <2>1 DEF LoadsRight
  <2>3. updates[x][1][1] \in Counters
    <3>1. updates[x] \in Updates /\ updates[x] # << >>
      BY <1>1, <2>1 DEF UpdatesRight
    <3> QED
      BY <3>1, OwesTail
  <2>4. updates[x][1][1] # c
    BY <1>1, <2>1, <2>2
  <2>5. counters'[updates'[x][1][1]] = counters[updates[x][1][1]]
    BY <1>5, <2>1, <2>3, <2>4
  <2> QED
    BY <1>6, <2>1, <2>2, <2>5
<1>9. ASSUME NEW k \in Counters
      PROVE  /\ counters[k] \in Int /\ Owing(k) \in Int /\ counters'[k] \in Int /\ Owing(k)' \in Int
             /\ k \notin raced => counters'[k] + Owing(k)' = counters[k] + Owing(k)
  <2>1. /\ Owing(k) \in Int
        /\ Owing(k)' = Owing(k) - Owes(updates[t], k) + Owes(u, k)
    BY <1>1, <1>3, OwingChange
  <2>2. Owes(u, k) \in Int /\ Owes(updates[t], k) \in Int
    BY <1>2, <1>3, OwesType
  <2>3. Owes(updates[t], k) = Owes(u, k) + (IF c = k THEN d ELSE 0)
    BY <1>3
  <2>4. Owing(k)' = Owing(k) - (IF c = k THEN d ELSE 0)
    <3> HIDE DEF u, c, d
    <3> QED
      BY <1>3, <2>1, <2>2, <2>3
  <2>5. c = k /\ k \notin raced => counters'[k] = counters[k] + d
    BY <1>1, <1>5 DEF LoadsRight
  <2>6. c # k => counters'[k] = counters[k]
    BY <1>5
  <2>7. counters[k] \in Int /\ counters'[k] \in Int
    BY <1>5
  <2> HIDE DEF u, c, d
  <2> QED
    BY <1>3, <2>1, <2>4, <2>5, <2>6, <2>7
<1>10. BytesHeld' = BytesHeld /\ BlocksHeld' = BlocksHeld
  BY <1>1 DEF BytesHeld, BlocksHeld
<1>11. BytesRight'
  <2>1. "bytes_used" \in Counters
    BY DEF Counters
  <2> QED
    BY <1>1, <1>9, <1>10, <2>1 DEF BytesRight
<1>12. BlocksRight'
  <2>1. "allocations" \in Counters /\ "frees" \in Counters
    BY DEF Counters
  <2>2. CASE {"allocations", "frees"} \cap raced = {}
    <3>1. /\ counters'["allocations"] + Owing("allocations")' = counters["allocations"] + Owing("allocations")
          /\ counters'["frees"] + Owing("frees")' = counters["frees"] + Owing("frees")
      BY <1>9, <2>1, <2>2
    <3> QED
      BY <1>1, <1>10, <2>2, <3>1 DEF BlocksRight
  <2>3. CASE {"allocations", "frees"} \cap raced # {}
    BY <1>1, <2>3 DEF BlocksRight
  <2> QED
    BY <2>2, <2>3
<1> QED
  BY <1>7, <1>8, <1>11, <1>12 DEF MonitorInv

LEMMA InitMonitor == MonitorInit => MonitorInv
<1> SUFFICES ASSUME MonitorInit PROVE MonitorInv
  OBVIOUS
<1>1. UpdatesRight
  <2>1. << >> \in Updates /\ NotLoaded \in Seq(Int)
    BY DEF Updates, NotLoaded
  <2> QED
    BY <2>1 DEF MonitorInit, UpdatesRight, MonitorTypeOK
<1>2. LoadsRight
  BY DEF MonitorInit, LoadsRight
<1>3. \A c : Owing(c) = 0
  BY MonitorAssumption, SumZero DEF MonitorInit, Owing, Owes, Part
<1>4. BytesHeld = 0 /\ BlocksHeld = 0
  <2> DEFINE D == MonitorThreads \X BlockSizes
             f == [b \in D |-> b[2] * held[b]]
  <2>1. DOMAIN held = D /\ IsFiniteSet(D) /\ \A b \in D : held[b] = 0 /\ b[2] \in Nat
    BY MonitorAssumption, FS_Product DEF MonitorInit
  <2>2. BytesHeld = SumFunctionOnSet(f, D) /\ BlocksHeld = SumFunctionOnSet(held, D)
    BY <2>1 DEF BytesHeld, BlocksHeld, SumFunction
  <2>3. \A b \in D : f[b] = 0
    BY <2>1
  <2> HIDE DEF f, D
  <2> QED
    BY <2>1, <2>2, <2>3, SumZero
<1> QED
  BY <1>1, <1>2, <1>3, <1>4 DEF MonitorInv, BytesRight, BlocksRight, MonitorInit, Counters

LEMMA NextMonitor == MonitorInv /\ [MonitorNext]_monitorVars => MonitorInv'
<1> SUFFICES ASSUME MonitorInv, [MonitorNext]_monitorVars PROVE MonitorInv'
  OBVIOUS
<1>1. CASE UNCHANGED monitorVars
  <2>1. UNCHANGED <<counters, held, updates, loaded, raced>>
    BY <1>1 DEF monitorVars
  <2>2. /\ UpdatesRight' /\ LoadsRight'
        /\ BytesHeld' = BytesHeld /\ BlocksHeld' = BlocksHeld /\ \A k : Owing(k)' = Owing(k)
    BY <2>1 DEF MonitorInv, UpdatesRight, MonitorTypeOK, LoadsRight, BytesHeld, BlocksHeld, Owing
  <2> QED
    BY <2>1, <2>2 DEF MonitorInv, BytesRight, BlocksRight
<1> QED
  BY <1>1, AllocateKeeps, MonitorFreeKeeps, ReallocateKeeps, LoadKeeps, StoreCounterKeeps DEF MonitorNext

LEMMA MonitorInvSuffices == MonitorInv => CountersExact
<1> SUFFICES ASSUME MonitorInv, \A t \in MonitorThreads : updates[t] = << >>
             PROVE  /\ "bytes_used" \in raced \/ counters["bytes_used"] = BytesHeld
                    /\ \/ {"allocations", "frees"} \cap raced # {}
                       \/ counters["allocations"] - counters["frees"] = BlocksHeld
  BY DEF MonitorInv, UpdatesRight, CountersExact
<1>1. \A c : Owing(c) = 0
  BY MonitorAssumption, SumZero DEF Owing, Owes, Part
<1>2. \A c \in {"bytes_used", "allocations", "frees"} : counters[c] \in Int
  BY DEF MonitorInv, UpdatesRight, MonitorTypeOK, Counters
<1> QED
  BY <1>1, <1>2 DEF MonitorInv, BytesRight, BlocksRight

-----------------------------------------------------------------------------
(***************************************************************************)
(* Bitlist                                                                 *)
(***************************************************************************)
Ints == 0 .. (highest_valid_bit - lowest_valid_bit + 1) \div BITS_PER_INT + 1

\* Where a bit is: its int and the position in it.
Place(bit) == <<bit \div BITS_PER_INT, bit % BITS_PER_INT>>

\* There is no list, and no number is valid, or the array is as long as the
\* range needs and has the bits that were set.  Nothing is said of the bits
\* above the range.
BitInv ==
    /\ lowest_valid_bit \in Int /\ highest_valid_bit \in Int
    /\ lowest_valid_bit <= highest_valid_bit + 1
    /\ ones \subseteq Valid
    /\ bits_set_count = Cardinality(ones)
    /\ \/ the_bits = NoBits /\ Valid = {}
       \/ /\ the_bits \in [Ints -> SUBSET ALL_ONES]
          /\ ones = {number \in Valid : BIT_GET(number - lowest_valid_bit)}

LEMMA PlaceIs ==
    ASSUME NEW bit \in Int
    PROVE  /\ bit \div BITS_PER_INT \in Int /\ bit % BITS_PER_INT \in ALL_ONES
           /\ bit = BITS_PER_INT * (bit \div BITS_PER_INT) + (bit % BITS_PER_INT)
BY BitlistAssumption, ModRange DEF ALL_ONES

LEMMA PlacesDiffer ==
    ASSUME NEW a \in Int, NEW b \in Int, a # b PROVE Place(a) # Place(b)
BY PlaceIs DEF Place

\* Every number of the range has a place in the array.
LEMMA PlaceInInts ==
    ASSUME NEW n \in Nat, NEW bit \in 0 .. n - 1
    PROVE  bit \div BITS_PER_INT \in 0 .. (n \div BITS_PER_INT) + 1
<1> DEFINE q == bit \div BITS_PER_INT
           r == bit % BITS_PER_INT
           p == n \div BITS_PER_INT
           s == n % BITS_PER_INT
<1>1. /\ q \in Int /\ r \in ALL_ONES /\ bit = BITS_PER_INT * q + r
      /\ p \in Int /\ s \in ALL_ONES /\ n = BITS_PER_INT * p + s
  BY PlaceIs
<1>2. BITS_PER_INT \in Nat \ {0}
  BY BitlistAssumption
<1> HIDE DEF q, r, p, s
<1>3. ~(p < q)
  <2>1. p < q => BITS_PER_INT * p + s < BITS_PER_INT * q + r
    BY <1>1, <1>2, DivOrder DEF ALL_ONES
  <2> QED
    BY <1>1, <2>1
<1>4. 0 <= q
  <2>1. q < 0 => BITS_PER_INT * q + r < BITS_PER_INT * 0 + 0
    BY <1>1, <1>2, DivOrder DEF ALL_ONES
  <2>2. BITS_PER_INT * 0 + 0 = 0
    BY <1>2
  <2> QED
    BY <1>1, <2>1, <2>2
<1> QED
  BY <1>1, <1>3, <1>4 DEF q, p

\* What the searches for a bit find in an array f of ints: the number at the
\* first position of the first int that has one is the least of them all.
LEMMA FirstIs ==
    ASSUME NEW f \in [Ints -> SUBSET ALL_ONES],
           lowest_valid_bit \in Int, highest_valid_bit \in Int,
           lowest_valid_bit <= highest_valid_bit + 1
    PROVE  LET some == {i \in Ints : f[i] # {}}
               found == {number \in Valid : (number - lowest_valid_bit) % BITS_PER_INT
                                            \in f[(number - lowest_valid_bit) \div BITS_PER_INT]}
           IN  (IF some = {} THEN ENODATA ELSE Numbered(Min(f[Min(some)]), Min(some))) = MinOf(found)
<1> DEFINE some == {i \in Ints : f[i] # {}}
           lo == lowest_valid_bit
           B == BITS_PER_INT
           found == {number \in Valid : (number - lo) % B \in f[(number - lo) \div B]}
           i == Min(some)
           p == Min(f[i])
           least == p + (i * B) + lo
<1>1. B \in Nat \ {0} /\ Ints \subseteq Nat /\ ALL_ONES \subseteq Nat
  BY BitlistAssumption DEF Ints, ALL_ONES
<1>2. ASSUME NEW x \in found
      PROVE  /\ (x - lo) \div B \in some /\ (x - lo) % B \in f[(x - lo) \div B]
             /\ x - lo \in Int /\ x \in Int /\ x <= highest_valid_bit
             /\ x - lo = B * ((x - lo) \div B) + ((x - lo) % B)
  <2>1. x \in Valid /\ (x - lo) % B \in f[(x - lo) \div B]
    OBVIOUS
  <2> DEFINE n == highest_valid_bit - lo + 1
             bit == x - lo
  <2>2. n \in Nat /\ bit \in 0 .. n - 1
    BY <2>1 DEF Valid
  <2>3. bit \div B \in Ints
    <3> HIDE DEF bit, n
    <3>1. bit \div B \in 0 .. (n \div B) + 1
      BY <2>2, PlaceInInts
    <3> QED
      BY <3>1 DEF n, Ints
  <2>4. bit = B * (bit \div B) + (bit % B)
    <3>1. bit \in Int
      BY <2>2
    <3> HIDE DEF bit
    <3> QED
      BY <3>1, PlaceIs
  <2> QED
    BY <2>1, <2>2, <2>3, <2>4 DEF Valid
<1>3. CASE some = {}
  <2>1. found = {}
    BY <1>2, <1>3
  <2> QED
    BY <1>3, <2>1 DEF MinOf
<1>4. CASE some # {}
  <2>1. i \in some /\ \A k \in some : i <= k
    BY <1>1, <1>4, MinIs
  <2>2. i \in Ints /\ f[i] \subseteq Nat /\ f[i] # {} /\ f[i] \subseteq ALL_ONES
    BY <1>1, <2>1
  <2>3. p \in f[i] /\ \A k \in f[i] : p <= k
    <3> HIDE DEF i
    <3> QED
      BY <2>2, MinIs
  <2>4. i \in Nat /\ p \in ALL_ONES /\ p \in Nat /\ i * B \in Nat /\ i * B = B * i
    <3> HIDE DEF i, p
    <3> QED
      BY <1>1, <2>2, <2>3
  <2> HIDE DEF i, p
  <2>5. ASSUME NEW x \in found PROVE least <= x
    <3> DEFINE k == (x - lo) \div B
               r == (x - lo) % B
    <3>1. /\ k \in some /\ r \in f[k] /\ x \in Int
          /\ x - lo = B * k + r
      BY <1>2
    <3>2. k \in Nat /\ r \in ALL_ONES
      BY <1>1, <3>1
    <3> HIDE DEF k, r, some, found
    <3>3. i <= k
      BY <2>1, <3>1
    <3>4. B * i + p <= B * k + r
      <4>1. CASE i = k
        BY <1>1, <2>3, <2>4, <3>1, <3>2, <4>1 DEF ALL_ONES
      <4>2. CASE i < k
        <5>1. B * i + p < B * k + r
          BY <1>1, <2>4, <3>2, <4>2, DivOrder DEF ALL_ONES
        <5> QED
          BY <1>1, <2>4, <3>2, <5>1 DEF ALL_ONES
      <4> QED
        BY <2>4, <3>2, <3>3, <4>1, <4>2
    <3> QED
      BY <1>1, <2>4, <3>1, <3>2, <3>4 DEF ALL_ONES
  <2>6. CASE least > highest_valid_bit
    <3>1. found = {}
      BY <1>1, <1>2, <2>4, <2>5, <2>6
    <3>2. Numbered(p, i) = ENODATA
      BY <2>6 DEF Numbered
    <3> QED
      BY <1>4, <3>1, <3>2 DEF MinOf, i, p
  <2>7. CASE ~(least > highest_valid_bit)
    <3>1. least - lo = B * i + p /\ least \in Valid
      BY <1>1, <2>4, <2>7 DEF Valid
    <3>2. (least - lo) \div B = i /\ (least - lo) % B = p
      BY <1>1, <2>4, <3>1, DivUnique DEF ALL_ONES
    <3>3. least \in found
      BY <2>3, <3>1, <3>2
    <3>4. found \subseteq Int
      BY <1>2
    <3>5. Min(found) = least
      <4> HIDE DEF found, least
      <4> QED
        BY <2>5, <3>3, <3>4, LeastIs
    <3>6. Numbered(p, i) = {least}
      BY <2>7 DEF Numbered
    <3>7. MinOf(found) = {least}
      BY <3>3, <3>5 DEF MinOf
    <3> QED
      BY <1>4, <3>6, <3>7 DEF i, p
  <2> QED
    BY <2>6, <2>7
<1> QED
  BY <1>3, <1>4

LEMMA BitInvSuffices == BitInv => BitsRight
<1> SUFFICES ASSUME BitInv PROVE BitsRight
  OBVIOUS
<1> DEFINE n == highest_valid_bit - lowest_valid_bit + 1
<1>1. /\ IsFiniteSet(Valid) /\ Cardinality(Valid) = n /\ n \in Nat
      /\ IsFiniteSet(ones) /\ Cardinality(ones) \in Nat
  <2>1. IsFiniteSet(Valid) /\ Cardinality(Valid) = n /\ n \in Nat
    BY FS_Interval DEF BitInv, Valid
  <2> QED
    BY <2>1, FS_Subset, FS_CardinalityType DEF BitInv
<1>2. CASE the_bits = NoBits
  BY <1>1, <1>2 DEF BitInv, BitsRight, BitTypeOK
<1>3. CASE /\ the_bits \in [Ints -> SUBSET ALL_ONES]
           /\ ones = {number \in Valid : BIT_GET(number - lowest_valid_bit)}
  <2>1. BitTypeOK
    BY <1>1, <1>3 DEF BitInv, BitTypeOK
  <2>2. bitlist_count_zeros = Cardinality(Valid \ ones)
    <3>1. Valid = ones \cup (Valid \ ones) /\ ones \cap (Valid \ ones) = {}
      BY DEF BitInv
    <3>2. IsFiniteSet(Valid \ ones) /\ Cardinality(Valid \ ones) \in Nat
      BY <1>1, FS_Difference, FS_CardinalityType
    <3>3. Cardinality(Valid) = Cardinality(ones) + Cardinality(Valid \ ones) - 0
      BY <1>1, <3>1, <3>2, FS_Union, FS_EmptySet
    <3> QED
      BY <1>1, <3>2, <3>3 DEF BitInv, bitlist_count_zeros
  <2>3. bitlist_first_set_bit = MinOf(ones)
    <3>1. DOMAIN the_bits = Ints
      BY <1>3
    <3> QED
      BY <1>3, <3>1, FirstIs DEF BitInv, bitlist_first_set_bit, BIT_GET
  <2>4. bitlist_first_clear_bit = MinOf(Valid \ ones)
    <3> DEFINE f == [i \in Ints |-> ALL_ONES \ the_bits[i]]
               some == {i \in Ints : f[i] # {}}
               found == {number \in Valid : (number - lowest_valid_bit) % BITS_PER_INT
                                            \in f[(number - lowest_valid_bit) \div BITS_PER_INT]}
    <3>1. f \in [Ints -> SUBSET ALL_ONES]
      OBVIOUS
    <3>2. some = {i \in DOMAIN the_bits : the_bits[i] # ALL_ONES}
      BY <1>3
    <3>3. found = Valid \ ones
      <4> SUFFICES ASSUME NEW number \in Valid PROVE number \in found <=> number \notin ones
        BY DEF BitInv
      <4> DEFINE bit == number - lowest_valid_bit
      <4>1. bit \in 0 .. n - 1 /\ bit \in Int
        BY DEF Valid, BitInv
      <4>2. bit \div BITS_PER_INT \in Ints /\ bit % BITS_PER_INT \in ALL_ONES
        <5> HIDE DEF bit, n
        <5>1. bit \div BITS_PER_INT \in 0 .. (n \div BITS_PER_INT) + 1
          BY <1>1, <4>1, PlaceInInts
        <5> QED
          BY <4>1, <5>1, PlaceIs DEF Ints, n
      <4>3. number \in ones <=> bit % BITS_PER_INT \in the_bits[bit \div BITS_PER_INT]
        BY <1>3 DEF BIT_GET
      <4> QED
        BY <4>2, <4>3
    <3>4. some # {} => f[Min(some)] = ALL_ONES \ the_bits[Min(some)]
      <4>1. some \subseteq Nat
        BY DEF Ints
      <4>2. some # {} => Min(some) \in some
        <5> HIDE DEF some
        <5> QED
          BY <4>1, MinIs
      <4> QED
        BY <4>2
    <3>5. (IF some = {} THEN ENODATA ELSE Numbered(Min(f[Min(some)]), Min(some))) = MinOf(found)
      <4> HIDE DEF f
      <4> QED
        BY <3>1, FirstIs DEF BitInv
    <3>6. bitlist_first_clear_bit
            = IF some = {} THEN ENODATA
              ELSE Numbered(Min(ALL_ONES \ the_bits[Min(some)]), Min(some))
      BY <3>2 DEF bitlist_first_clear_bit
    <3> HIDE DEF f, some, found
    <3> QED
      BY <3>3, <3>4, <3>5, <3>6
  <2> QED
    BY <1>3, <2>1, <2>2, <2>3, <2>4 DEF BitInv, BitsRight, bitlist_count_ones
<1> QED
  BY <1>2, <1>3 DEF BitInv

\* Where there is a valid number there is an array, and its place is in it.
LEMMA ValidIs ==
    ASSUME BitInv, NEW number \in Valid
    PROVE  LET bit == number - lowest_valid_bit
           IN  /\ the_bits \in [Ints -> SUBSET ALL_ONES]
               /\ ones = {x \in Valid : BIT_GET(x - lowest_valid_bit)}
               /\ IsFiniteSet(ones) /\ bit \in Int /\ number \in Int
               /\ bit \div BITS_PER_INT \in Ints /\ bit % BITS_PER_INT \in ALL_ONES
<1> DEFINE n == highest_valid_bit - lowest_valid_bit + 1
           bit == number - lowest_valid_bit
<1>1. number \in Int /\ n \in Nat /\ bit \in 0 .. n - 1 /\ bit \in Int
  BY DEF BitInv, Valid
<1>2. bit \div BITS_PER_INT \in Ints /\ bit % BITS_PER_INT \in ALL_ONES
  <2> HIDE DEF bit, n
  <2>1. bit \div BITS_PER_INT \in 0 .. (n \div BITS_PER_INT) + 1
    BY <1>1, PlaceInInts
  <2> QED
    BY <1>1, <2>1, PlaceIs DEF Ints, n
<1>3. IsFiniteSet(ones)
  <2>1. IsFiniteSet(Valid)
    BY FS_Interval DEF BitInv, Valid
  <2> QED
    BY <2>1, FS_Subset DEF BitInv
<1> QED
  BY <1>1, <1>2, <1>3 DEF BitInv

LEMMA SetKeeps ==
    ASSUME BitInv, NEW number \in Valid, bitlist_set(number)
    PROVE  BitInv'
<1> DEFINE lo == lowest_valid_bit
           bit == number - lo
           k == bit \div BITS_PER_INT
           r == bit % BITS_PER_INT
<1>1. /\ the_bits \in [Ints -> SUBSET ALL_ONES]
      /\ ones = {x \in Valid : BIT_GET(x - lo)}
      /\ IsFiniteSet(ones) /\ bit \in Int /\ number \in Int /\ k \in Ints /\ r \in ALL_ONES
  BY ValidIs
<1>2. /\ ~BIT_GET(bit) /\ bits_set_count' = bits_set_count + 1 /\ ones' = ones \cup {number}
      /\ the_bits' = [the_bits EXCEPT ![k] = the_bits[k] \cup {r}]
      /\ lowest_valid_bit' = lo /\ highest_valid_bit' = highest_valid_bit
      /\ Valid' = Valid /\ Ints' = Ints
  BY DEF bitlist_set, BIT_SET, Valid, Ints
<1>3. bits_set_count' = Cardinality(ones')
  BY <1>1, <1>2, FS_AddElement DEF BitInv
<1>4. the_bits' \in [Ints -> SUBSET ALL_ONES]
  BY <1>1, <1>2
<1>5. ASSUME NEW x \in Valid PROVE x \in ones' <=> BIT_GET(x - lo)'
  <2>1. x - lo \in Int /\ (x # number => x - lo # bit)
    BY <1>1 DEF BitInv, Valid
  <2> DEFINE xk == (x - lo) \div BITS_PER_INT
             xr == (x - lo) % BITS_PER_INT
  <2>2. x # number => xk # k \/ xr # r
    BY <1>1, <2>1, PlacesDiffer DEF Place
  <2>3. xk \in Ints
    BY ValidIs
  <2>4. /\ BIT_GET(x - lo) <=> xr \in the_bits[xk]
        /\ BIT_GET(x - lo)' <=> xr \in the_bits'[xk]
    BY <1>2 DEF BIT_GET
  <2>5. x = number => xk = k /\ xr = r
    OBVIOUS
  <2> HIDE DEF xk, xr, k, r, lo
  <2> QED
    BY <1>1, <1>2, <2>2, <2>3, <2>4, <2>5
<1> QED
  BY <1>2, <1>3, <1>4, <1>5 DEF BitInv

LEMMA ClearBitKeeps ==
    ASSUME BitInv, NEW number \in Valid, bitlist_clear(number)
    PROVE  BitInv'
<1> DEFINE lo == lowest_valid_bit
           bit == number - lo
           k == bit \div BITS_PER_INT
           r == bit % BITS_PER_INT
<1>1. /\ the_bits \in [Ints -> SUBSET ALL_ONES]
      /\ ones = {x \in Valid : BIT_GET(x - lo)}
      /\ IsFiniteSet(ones) /\ bit \in Int /\ number \in Int /\ k \in Ints /\ r \in ALL_ONES
  BY ValidIs
<1>2. /\ BIT_GET(bit) /\ bits_set_count' = bits_set_count - 1 /\ ones' = ones \ {number}
      /\ the_bits' = [the_bits EXCEPT ![k] = the_bits[k] \ {r}]
      /\ lowest_valid_bit' = lo /\ highest_valid_bit' = highest_valid_bit
      /\ Valid' = Valid /\ Ints' = Ints
  BY DEF bitlist_clear, BIT_CLEAR, Valid, Ints
<1>3. bits_set_count' = Cardinality(ones')
  BY <1>1, <1>2, FS_RemoveElement DEF BitInv
<1>4. the_bits' \in [Ints -> SUBSET ALL_ONES]
  BY <1>1, <1>2
<1>5. ASSUME NEW x \in Valid PROVE x \in ones' <=> BIT_GET(x - lo)'
  <2>1. x - lo \in Int /\ (x # number => x - lo # bit)
    BY <1>1 DEF BitInv, Valid
  <2> DEFINE xk == (x - lo) \div BITS_PER_INT
             xr == (x - lo) % BITS_PER_INT
  <2>2. x # number => xk # k \/ xr # r
    BY <1>1, <2>1, PlacesDiffer DEF Place
  <2>3. xk \in Ints
    BY ValidIs
  <2>4. /\ BIT_GET(x - lo) <=> xr \in the_bits[xk]
        /\ BIT_GET(x - lo)' <=> xr \in the_bits'[xk]
    BY <1>2 DEF BIT_GET
  <2>5. x = number => xk = k /\ xr = r
    OBVIOUS
  <2> HIDE DEF xk, xr, k, r, lo
  <2> QED
    BY <1>1, <1>2, <2>2, <2>3, <2>4, <2>5
<1> QED
  BY <1>2, <1>3, <1>4, <1>5 DEF BitInv

LEMMA InitList ==
    ASSUME NEW range \in BitRanges, NEW all_ones \in BOOLEAN, bitlist_init(range[1], range[2], all_ones)
    PROVE  BitInv'
<1> DEFINE lo == range[1]
           hi == range[2]
           n == hi - lo + 1
           I == 0 .. (n \div BITS_PER_INT) + 1
<1>1. lo \in Int /\ hi \in Int /\ lo <= hi + 1 /\ n \in Nat
  BY BitlistAssumption
<1>2. /\ the_bits' = [i \in I |-> IF all_ones THEN ALL_ONES ELSE {}]
      /\ lowest_valid_bit' = lo /\ highest_valid_bit' = hi
      /\ bits_set_count' = IF all_ones THEN n ELSE 0
      /\ ones' = IF all_ones THEN lo .. hi ELSE {}
      /\ Valid' = lo .. hi /\ Ints' = I
  BY DEF bitlist_init, Valid, Ints
<1>3. bits_set_count' = Cardinality(ones') /\ ones' \subseteq Valid'
  <2>1. Cardinality(lo .. hi) = n /\ Cardinality({}) = 0
    <3> HIDE DEF lo, hi
    <3> QED
      BY <1>1, FS_Interval, FS_EmptySet
  <2> QED
    BY <1>2, <2>1
<1>4. the_bits' \in [I -> SUBSET ALL_ONES]
  BY <1>2
<1>5. ASSUME NEW x \in lo .. hi PROVE x \in ones' <=> BIT_GET(x - lowest_valid_bit)'
  <2> DEFINE bit == x - lo
  <2>1. bit \in 0 .. n - 1 /\ bit \in Int
    BY <1>1
  <2>2. bit \div BITS_PER_INT \in I /\ bit % BITS_PER_INT \in ALL_ONES
    <3> HIDE DEF bit, n
    <3> QED
      BY <1>1, <2>1, PlaceInInts, PlaceIs
  <2>3. BIT_GET(x - lowest_valid_bit)' <=> bit % BITS_PER_INT \in the_bits'[bit \div BITS_PER_INT]
    BY <1>2 DEF BIT_GET
  <2> HIDE DEF bit, I
  <2> QED
    BY <1>2, <2>2, <2>3
<1> HIDE DEF I, lo, hi, n
<1> QED
  BY <1>1, <1>2, <1>3, <1>4, <1>5 DEF BitInv

LEMMA InitBits == BitInit => BitInv
BY FS_EmptySet DEF BitInit, BitInv, Valid

LEMMA NextBits == BitInv /\ [BitNext]_bitVars => BitInv'
<1> SUFFICES ASSUME BitInv, [BitNext]_bitVars PROVE BitInv'
  OBVIOUS
<1>1. CASE UNCHANGED bitVars
  BY <1>1 DEF bitVars, BitInv, Valid, Ints, BIT_GET
<1>2. CASE bitlist_destroy
  BY <1>2, FS_EmptySet DEF bitlist_destroy, BitInv, Valid
<1> QED
  BY <1>1, <1>2, SetKeeps, ClearBitKeeps, InitList DEF BitNext

-----------------------------------------------------------------------------
(***************************************************************************)
(* BufferManager                                                           *)
(***************************************************************************)
Carved(p, tuple) == {p} \X (1 .. tuple.count)
UsersOf(p) == {b \in DOMAIN bufferUsers : b[1] = p}

\* Every buffer that was carved for a pool is free in it or has a user.
PoolRight(p, tuple) ==
    /\ pools[p] \in [specified_size : Nat, head : Seq(Nat \X Nat)]
    /\ pools[p].specified_size \in {0, tuple.size}
    /\ IsInjective(pools[p].head)
    /\ ToSet(pools[p].head) \cap DOMAIN bufferUsers = {}
    /\ ToSet(pools[p].head) \cup UsersOf(p) = IF pools[p].specified_size = 0 THEN {} ELSE Carved(p, tuple)

\* The pools are those of a list that was found sane.
PoolsRight(tuples) ==
    /\ Sane(tuples)
    /\ pools = [p \in 0 .. Len(tuples) - 1 |-> pools[p]]
    /\ max_size = Last(tuples).size
    /\ \A p \in 0 .. Len(tuples) - 1 : PoolRight(p, tuples[p + 1])

UsersRight == \A b \in DOMAIN bufferUsers : /\ b \in Nat \X Nat /\ b[1] \in DOMAIN pools
                                            /\ bufferUsers[b] <= pools[b[1]].specified_size

LargeEnough(size) == {p \in DOMAIN pools : size <= pools[p].specified_size}

\* The table has the first pool for every size that one is large enough for,
\* but for its last entry once that was overwritten.
TableRight ==
    size_lookup_table # BufferNULL =>
      /\ size_lookup_table = [size \in 0 .. max_size |-> size_lookup_table[size]]
      /\ \A size \in 0 .. max_size :
           \/ pastTable /\ size = max_size
           \/ LargeEnough(size) = {}
           \/ size_lookup_table[size] = Min(LargeEnough(size))

Unused == /\ pools = << >> /\ bufferUsers = << >> /\ max_size = 0
          /\ size_lookup_table = BufferNULL /\ answer = BufferNULL

BufferInv ==
    /\ max_size \in Nat /\ pastTable \in BOOLEAN /\ answer \in Answers
    /\ \/ Unused
       \/ /\ \E tuples \in BufferTuples : PoolsRight(tuples)
          /\ UsersRight /\ TableRight /\ BestFit

\* In a list that was found sane the sizes increase, and the last is the most.
LEMMA SaneIs ==
    ASSUME NEW tuples \in BufferTuples, Sane(tuples)
    PROVE  /\ Len(tuples) \in Nat \ {0} /\ Last(tuples) = tuples[Len(tuples)]
           /\ \A i \in 1 .. Len(tuples) : tuples[i].size \in Nat \ {0} /\ tuples[i].count \in Nat \ {0}
           /\ \A i, j \in 1 .. Len(tuples) : i < j => tuples[i].size < tuples[j].size
<1> DEFINE n == Len(tuples)
<1>1. tuples \in Seq([size : Int, count : Int]) /\ n \in Nat \ {0} /\ DOMAIN tuples = 1 .. n
  BY BufferAssumption DEF Sane
<1>2. \A i \in 1 .. n : tuples[i].size \in Int /\ tuples[i].count \in Int
  <2> SUFFICES ASSUME NEW i \in 1 .. n PROVE tuples[i].size \in Int /\ tuples[i].count \in Int
    OBVIOUS
  <2>1. tuples[i] \in [size : Int, count : Int]
    BY <1>1, ElementOfSeq
  <2> QED
    BY <2>1
<1>3. \A i \in 1 .. n : /\ tuples[i].count > 0
                        /\ tuples[i].size > (IF i = 1 THEN 0 ELSE tuples[i - 1].size)
  BY <1>1 DEF Sane
<1>4. Last(tuples) = tuples[n]
  BY DEF Last
<1> HIDE DEF n
<1>5. \A i \in 1 .. n : tuples[i].size > 0
  <2> DEFINE Bad == {i \in 1 .. n : ~(tuples[i].size > 0)}
  <2>1. ASSUME Bad # {} PROVE FALSE
    <3>a. Bad \subseteq Nat
      BY <1>1
    <3>1. PICK i \in Bad : \A k \in Bad : i <= k
      <4> HIDE DEF Bad
      <4> QED
        BY <2>1, <3>a, LeastNat
    <3>2. i # 1
      BY <1>1, <1>3
    <3>3. i - 1 \in 1 .. n /\ i - 1 \notin Bad
      BY <1>1, <3>1, <3>2
    <3> QED
      BY <1>2, <1>3, <3>2, <3>3
  <2> QED
    BY <2>1
<1>6. ASSUME NEW i \in 1 .. n, NEW j \in 1 .. n, i < j PROVE tuples[i].size < tuples[j].size
  <2> DEFINE Bad == {k \in 1 .. n : i < k /\ ~(tuples[i].size < tuples[k].size)}
  <2>1. ASSUME Bad # {} PROVE FALSE
    <3>a. Bad \subseteq Nat
      BY <1>1
    <3>1. PICK k \in Bad : \A m \in Bad : k <= m
      <4> HIDE DEF Bad
      <4> QED
        BY <2>1, <3>a, LeastNat
    <3>2. k \in 1 .. n /\ k > 1 /\ i < k /\ k - 1 \in 1 .. n
      BY <1>1
    <3>3. tuples[k].size > tuples[k - 1].size
      BY <1>3, <3>2
    <3>4. CASE k - 1 = i
      BY <1>2, <3>2, <3>3, <3>4
    <3>5. CASE k - 1 # i
      <4>1. i < k - 1 /\ k - 1 \notin Bad
        BY <1>1, <3>1, <3>2, <3>5
      <4> QED
        BY <1>2, <3>2, <3>3, <4>1
    <3> QED
      BY <3>4, <3>5
  <2> QED
    BY <1>6, <2>1
<1> QED
  BY <1>1, <1>2, <1>3, <1>4, <1>5, <1>6 DEF n

\* A pool that has a free buffer has the size of its tuple.
LEMMA PoolSizes ==
    ASSUME NEW tuples \in BufferTuples, PoolsRight(tuples)
    PROVE  /\ DOMAIN pools = 0 .. Len(tuples) - 1 /\ DOMAIN pools # {} /\ pools # << >>
           /\ max_size \in Nat
           /\ \A p \in DOMAIN pools : /\ p \in Nat /\ p + 1 \in 1 .. Len(tuples)
                                      /\ pools[p].specified_size \in Nat
                                      /\ pools[p].specified_size <= max_size
                                      /\ pools[p].head \in Seq(Nat \X Nat)
                                      /\ pools[p].head # << >> => pools[p].specified_size = tuples[p + 1].size
<1> DEFINE n == Len(tuples)
<1>1. /\ n \in Nat \ {0} /\ max_size = tuples[n].size
      /\ \A i \in 1 .. n : tuples[i].size \in Nat \ {0}
      /\ \A i, j \in 1 .. n : i < j => tuples[i].size < tuples[j].size
  BY SaneIs DEF PoolsRight
<1>2. DOMAIN pools = 0 .. n - 1 /\ \A p \in 0 .. n - 1 : PoolRight(p, tuples[p + 1])
  BY DEF PoolsRight
<1> HIDE DEF n
<1>3. 0 \in DOMAIN pools /\ pools # << >>
  BY <1>1, <1>2
<1>4. ASSUME NEW p \in 0 .. n - 1
      PROVE  /\ p \in Nat /\ p + 1 \in 1 .. n
             /\ pools[p].specified_size \in Nat /\ pools[p].specified_size <= max_size
             /\ pools[p].head \in Seq(Nat \X Nat)
             /\ pools[p].head # << >> => pools[p].specified_size = tuples[p + 1].size
  <2>1. /\ p \in Nat /\ p + 1 \in 1 .. n
        /\ pools[p].specified_size \in {0, tuples[p + 1].size}
        /\ pools[p].specified_size \in Nat /\ pools[p].head \in Seq(Nat \X Nat)
    BY <1>1, <1>2 DEF PoolRight
  <2>2. tuples[p + 1].size <= max_size /\ tuples[p + 1].size \in Nat /\ max_size \in Nat
    <3>1. n \in 1 .. n /\ tuples[n].size \in Nat /\ tuples[p + 1].size \in Nat
      BY <1>1, <2>1
    <3>2. CASE p + 1 = n
      BY <1>1, <3>1, <3>2
    <3>3. CASE p + 1 # n
      <4>1. p + 1 < n
        BY <1>1, <2>1, <3>3
      <4>2. tuples[p + 1].size < tuples[n].size
        BY <1>1, <2>1, <3>1, <4>1
      <4> QED
        BY <1>1, <3>1, <4>2
    <3> QED
      BY <3>2, <3>3
  <2>3. pools[p].head # << >> => pools[p].specified_size # 0
    <3>1. SUFFICES ASSUME pools[p].head # << >>, pools[p].specified_size = 0 PROVE FALSE
      OBVIOUS
    <3>2. ToSet(pools[p].head) = {}
      BY <1>2, <3>1 DEF PoolRight
    <3>3. Head(pools[p].head) \in ToSet(pools[p].head)
      BY <2>1, <3>1, TailIs
    <3> QED
      BY <3>2, <3>3
  <2> QED
    BY <1>1, <2>1, <2>2, <2>3
<1>5. max_size \in Nat /\ DOMAIN pools # {}
  <2>1. n \in 1 .. n
    BY <1>1
  <2> QED
    BY <1>1, <1>3, <2>1
<1> QED
  BY <1>2, <1>3, <1>4, <1>5 DEF n

LEMMA BufferInvSuffices == BufferInv => BuffersAccountedFor /\ BestFit
<1> SUFFICES ASSUME BufferInv PROVE BuffersAccountedFor /\ BestFit
  OBVIOUS
<1>1. CASE Unused
  BY <1>1 DEF BufferInv, Unused, BuffersAccountedFor, BufferTypeOK, BestFit
<1>2. CASE ~Unused
  <2>1. PICK tuples \in BufferTuples : PoolsRight(tuples)
    BY <1>2 DEF BufferInv
  <2>2. UsersRight /\ TableRight /\ BestFit
    BY <1>2 DEF BufferInv
  <2>3. /\ DOMAIN pools = 0 .. Len(tuples) - 1 /\ Len(tuples) \in Nat \ {0}
        /\ \A p \in DOMAIN pools : /\ pools[p].specified_size \in Nat
                                   /\ pools[p].head \in Seq(Nat \X Nat)
                                   /\ p \in Nat /\ p + 1 \in 1 .. Len(tuples)
    BY <2>1, PoolSizes, SaneIs DEF PoolsRight
  <2>4. BufferTypeOK
    BY <2>2, <2>3 DEF BufferInv, BufferTypeOK, TableRight
  <2>5. Len(tuples) = num_pools
    <3>1. Cardinality(0 .. Len(tuples) - 1) = Len(tuples)
      <4> DEFINE n == Len(tuples) - 1
      <4>1. n \in Int /\ n >= 0 /\ Len(tuples) = n + 1
        BY <2>3
      <4> HIDE DEF n
      <4>2. Cardinality(0 .. n) = n + 1
        BY <4>1, FS_Interval
      <4> QED
        BY <4>1, <4>2 DEF n
    <3> QED
      BY <2>3, <3>1 DEF num_pools
  <2>6. ASSUME NEW p \in DOMAIN pools
        PROVE  /\ IsInjective(pools[p].head)
               /\ \A b \in ToSet(pools[p].head) : b[1] = p /\ b \notin DOMAIN bufferUsers
               /\ Len(pools[p].head) + Cardinality({b \in DOMAIN bufferUsers : b[1] = p})
                    = IF pools[p].specified_size = 0 THEN 0 ELSE tuples[p + 1].count
    <3> DEFINE tuple == tuples[p + 1]
               free == ToSet(pools[p].head)
               used == UsersOf(p)
               all == IF pools[p].specified_size = 0 THEN {} ELSE Carved(p, tuple)
    <3>1. /\ IsInjective(pools[p].head) /\ free \cap DOMAIN bufferUsers = {}
          /\ free \cup used = all /\ pools[p].head \in Seq(Nat \X Nat)
      BY <2>1, <2>3 DEF PoolsRight, PoolRight
    <3>2. tuple.count \in Nat /\ tuple.count # 0
      BY <2>1, <2>3, SaneIs DEF PoolsRight
    <3>3. IsFiniteSet(Carved(p, tuple)) /\ Cardinality(Carved(p, tuple)) = tuple.count
      <4> DEFINE c == tuple.count
      <4>1. c \in Nat /\ c # 0
        BY <3>2
      <4> HIDE DEF c
      <4>2. IsFiniteSet(1 .. c) /\ Cardinality(1 .. c) = c
        <5>1. c \in Int /\ ~(1 > c) /\ c - 1 + 1 = c
          BY <4>1
        <5> QED
          BY <5>1, FS_Interval
      <4>3. IsFiniteSet({p}) /\ Cardinality({p}) = 1
        BY FS_Singleton
      <4> DEFINE P == {p}
                 C == 1 .. c
      <4>4. IsFiniteSet(P \X C) /\ Cardinality(P \X C) = 1 * c
        <5>1. IsFiniteSet(P) /\ Cardinality(P) = 1 /\ IsFiniteSet(C) /\ Cardinality(C) = c
          BY <4>2, <4>3
        <5> HIDE DEF P, C
        <5>2. IsFiniteSet(P \X C) /\ Cardinality(P \X C) = Cardinality(P) * Cardinality(C)
          BY <5>1, FS_Product
        <5> QED
          BY <5>1, <5>2
      <4> QED
        BY <4>1, <4>4 DEF c, Carved
    <3>4. IsFiniteSet(all) /\ Cardinality(all) = IF pools[p].specified_size = 0 THEN 0 ELSE tuple.count
      BY <3>3, FS_EmptySet
    <3>5. \A b \in free : b[1] = p
      BY <3>1 DEF Carved
    <3>6. free \cap used = {}
      BY <3>1 DEF UsersOf
    <3>7. Len(pools[p].head) = Cardinality(free)
      BY <3>1, LenIsCardinality
    <3> HIDE DEF free, used, all, tuple
    <3>8. IsFiniteSet(free) /\ IsFiniteSet(used)
      <4>1. free \subseteq all /\ used \subseteq all
        BY <3>1
      <4> QED
        BY <3>4, <4>1, FS_Subset
    <3>9. Cardinality(free) \in Nat /\ Cardinality(used) \in Nat
      BY <3>8, FS_CardinalityType
    <3>10. Cardinality(free) + Cardinality(used) = Cardinality(all)
      <4>1. Cardinality(all) = Cardinality(free) + Cardinality(used) - 0
        BY <3>1, <3>6, <3>8, FS_Union, FS_EmptySet
      <4> QED
        BY <3>9, <4>1
    <3> QED
      BY <3>1, <3>4, <3>5, <3>7, <3>10 DEF free, used, tuple, UsersOf
  <2>7. \A b \in DOMAIN bufferUsers : b[1] \in DOMAIN pools /\ bufferUsers[b] <= pools[b[1]].specified_size
    BY <2>2 DEF UsersRight
  <2> QED
    BY <2>2, <2>4, <2>5, <2>6, <2>7 DEF BuffersAccountedFor
<1> QED
  BY <1>1, <1>2

LEMMA InitializeKeeps ==
    ASSUME BufferInv, NEW tuples \in BufferTuples, buffer_manager_initialize(tuples)
    PROVE  BufferInv'
<1> DEFINE n == Len(tuples)
<1>1. Unused /\ pools = << >> /\ Sane(tuples)
  BY PoolSizes DEF BufferInv, buffer_manager_initialize
<1>2. /\ n \in Nat \ {0} /\ Last(tuples) = tuples[n]
      /\ \A k \in 1 .. n : tuples[k].size \in Nat \ {0} /\ tuples[k].count \in Nat \ {0}
  BY <1>1, SaneIs
<1>3. PICK had \in [0 .. n - 1 -> BOOLEAN], junk \in 0 .. MAX_POOLS :
        /\ pools' = [p \in DOMAIN had |-> buffer_manager_pool_init(p, tuples[p + 1], had[p])]
        /\ max_size' = Last(tuples).size
        /\ size_lookup_table' \in {BufferNULL, buffer_manager_lookup_table_init(pools', max_size', junk)}
  BY DEF buffer_manager_initialize
<1>4. bufferUsers' = << >> /\ pastTable' = pastTable /\ answer' = BufferNULL
  BY <1>1 DEF Unused, buffer_manager_initialize
<1>5. /\ DOMAIN pools' = 0 .. n - 1 /\ pools' = [p \in 0 .. n - 1 |-> pools'[p]]
      /\ \A p \in 0 .. n - 1 : pools'[p] = buffer_manager_pool_init(p, tuples[p + 1], had[p])
  BY <1>3
<1>6. ASSUME NEW p \in 0 .. n - 1 PROVE PoolRight(p, tuples[p + 1])'
  <2> DEFINE tuple == tuples[p + 1]
             c == tuple.count
             head == [k \in 1 .. c |-> <<p, k>>]
  <2>1. tuple.size \in Nat \ {0} /\ c \in Nat \ {0} /\ p \in Nat
    <3>1. p + 1 \in 1 .. n
      BY <1>2
    <3> QED
      BY <1>2, <3>1
  <2>2. UsersOf(p)' = {} /\ DOMAIN bufferUsers' = {}
    BY <1>4 DEF UsersOf
  <2>3. CASE had[p]
    <3>1. pools'[p] = [specified_size |-> tuple.size, head |-> head]
      BY <1>5, <2>3 DEF buffer_manager_pool_init
    <3>2. /\ head \in Seq(Nat \X Nat) /\ Len(head) = c
          /\ \A k \in 1 .. c : head[k] = <<p, k>>
      <4> HIDE DEF c
      <4> QED
        BY <2>1
    <3>3. IsInjective(head)
      BY <3>2 DEF IsInjective
    <3>4. ToSet(head) = Carved(p, tuple)
      <4> HIDE DEF head
      <4>1. ToSet(head) = {head[k] : k \in 1 .. Len(head)}
        BY <3>2, ToSetIs
      <4>2. ToSet(head) = {head[k] : k \in 1 .. c}
        BY <3>2, <4>1
      <4> HIDE DEF c
      <4>3. \A x : x \in ToSet(head) <=> \E k \in 1 .. c : x = <<p, k>>
        BY <3>2, <4>2
      <4>4. \A x : x \in {p} \X (1 .. c) <=> \E k \in 1 .. c : x = <<p, k>>
        OBVIOUS
      <4>5. ToSet(head) = {p} \X (1 .. c)
        BY <4>3, <4>4
      <4> QED
        BY <4>5 DEF c, Carved
    <3> HIDE DEF head, c, tuple
    <3>5. pools'[p].specified_size = tuple.size /\ pools'[p].head = head
      BY <3>1
    <3> QED
      BY <2>1, <2>2, <3>1, <3>2, <3>3, <3>4, <3>5 DEF PoolRight, tuple
  <2>4. CASE ~had[p]
    <3>1. pools'[p] = [specified_size |-> 0, head |-> << >>]
      BY <1>5, <2>4 DEF buffer_manager_pool_init, EMPTY_POOL
    <3>2. ToSet(<< >>) = {} /\ IsInjective(<< >>)
      BY DEF ToSet, IsInjective
    <3> QED
      BY <2>2, <3>1, <3>2 DEF PoolRight
  <2> QED
    BY <2>3, <2>4
<1>7. PoolsRight(tuples)'
  BY <1>1, <1>3, <1>5, <1>6 DEF PoolsRight
<1>8. max_size' \in Nat
  BY <1>2, <1>3
<1>9. UsersRight' /\ BestFit'
  BY <1>4 DEF UsersRight, BestFit
<1>10. TableRight'
  <2> SUFFICES ASSUME size_lookup_table' = buffer_manager_lookup_table_init(pools', max_size', junk)
               PROVE  TableRight'
    BY <1>3 DEF TableRight
  <2>1. size_lookup_table' = [size \in 0 .. max_size' |->
                                IF LargeEnough(size)' = {} THEN junk ELSE Min(LargeEnough(size)')]
    BY DEF buffer_manager_lookup_table_init, LargeEnough
  <2> QED
    BY <2>1 DEF TableRight
<1> QED
  BY <1>4, <1>7, <1>8, <1>9, <1>10 DEF BufferInv, Answers

\* The pools that the table does not let an allocation reach have nothing to
\* give, unless its last entry was overwritten.
LEMMA ServingIs ==
    ASSUME NEW tuples \in BufferTuples, PoolsRight(tuples), TableRight,
           NEW size \in BufferSizes, size >= 0,
           NEW p \in DOMAIN pools, size <= pools[p].specified_size, pools[p].head # << >>
    PROVE  p \in Serving(size) \/ (pastTable /\ size = max_size)
<1>1. size \in 0 .. max_size /\ p \in Nat /\ DOMAIN pools \subseteq Nat
  <2>1. size \in Int
    BY BufferAssumption
  <2> QED
    BY <2>1, PoolSizes
<1>2. CASE size_lookup_table = BufferNULL
  BY <1>1, <1>2 DEF Serving
<1>3. CASE size_lookup_table # BufferNULL /\ ~(pastTable /\ size = max_size)
  <2>1. LargeEnough(size) \subseteq Nat /\ p \in LargeEnough(size)
    BY <1>1 DEF LargeEnough
  <2>2. size_lookup_table[size] = Min(LargeEnough(size))
    BY <1>1, <1>3, <2>1 DEF TableRight
  <2>3. Min(LargeEnough(size)) <= p
    BY <2>1, MinIs
  <2>4. p >= size_lookup_table[size]
    <3>1. Min(LargeEnough(size)) \in Nat
      BY <2>1, MinIs
    <3> QED
      BY <1>1, <2>2, <2>3, <3>1
  <2> QED
    BY <1>3, <2>4 DEF Serving
<1> QED
  BY <1>2, <1>3

LEMMA BufferAllocateKeeps ==
    ASSUME BufferInv, NEW size \in BufferSizes, buffer_allocate(size)
    PROVE  BufferInv'
<1>1. /\ pools # << >> /\ UsersRight /\ TableRight
      /\ max_size' = max_size /\ size_lookup_table' = size_lookup_table /\ pastTable' = pastTable
      /\ max_size \in Nat /\ pastTable \in BOOLEAN /\ size \in Int
  BY BufferAssumption DEF BufferInv, Unused, buffer_allocate
<1>2. PICK tuples \in BufferTuples : PoolsRight(tuples)
  BY <1>1 DEF BufferInv, Unused
<1> DEFINE n == Len(tuples)
<1>3. /\ DOMAIN pools = 0 .. n - 1 /\ n \in Nat \ {0}
      /\ \A p \in DOMAIN pools : /\ p \in Nat /\ p + 1 \in 1 .. n
                                 /\ pools[p].specified_size \in Nat
                                 /\ pools[p].specified_size <= max_size
                                 /\ pools[p].head \in Seq(Nat \X Nat)
                                 /\ pools[p].head # << >> => pools[p].specified_size = tuples[p + 1].size
  BY <1>2, PoolSizes, SaneIs DEF PoolsRight
<1>4. CASE size < 0 \/ size > max_size \/ Serving(size) = {}
  <2>1. pools' = pools /\ bufferUsers' = bufferUsers /\ answer' = [size |-> size, buffer |-> BufferNULL]
    BY <1>4 DEF buffer_allocate
  <2>2. PoolsRight(tuples)' /\ UsersRight' /\ TableRight'
    <3>1. PoolsRight(tuples)'
      BY <1>1, <1>2, <2>1 DEF PoolsRight, PoolRight, UsersOf
    <3>2. UsersRight'
      BY <1>1, <2>1 DEF UsersRight
    <3>3. TableRight'
      BY <1>1, <2>1 DEF TableRight, LargeEnough
    <3> QED
      BY <3>1, <3>2, <3>3
  <2>3. BestFit'
    <3> SUFFICES ASSUME size >= 0, ~(pastTable /\ size = max_size),
                        NEW p \in DOMAIN pools, size <= pools[p].specified_size, pools[p].head # << >>
                 PROVE  FALSE
      BY <1>1, <2>1 DEF BestFit
    <3>1. p \in Serving(size)
      BY <1>1, <1>2, ServingIs
    <3> QED
      BY <1>1, <1>3, <1>4, <3>1
  <2>4. answer' \in Answers
    BY <2>1 DEF Answers
  <2> QED
    BY <1>1, <2>2, <2>3, <2>4 DEF BufferInv
<1>5. CASE ~(size < 0 \/ size > max_size \/ Serving(size) = {})
  <2> DEFINE q == Min(Serving(size))
             b == Head(pools[q].head)
  <2>1. /\ pools' = [pools EXCEPT ![q].head = Tail(pools[q].head)]
        /\ bufferUsers' = [u \in DOMAIN bufferUsers \cup {b} |-> IF u = b THEN size ELSE bufferUsers[u]]
        /\ answer' = [size |-> size, buffer |-> b]
    BY <1>5 DEF buffer_allocate
  <2>2. /\ q \in DOMAIN pools /\ size <= pools[q].specified_size /\ pools[q].head # << >>
        /\ \A p \in Serving(size) : q <= p
    <3>1. Serving(size) \subseteq Nat /\ Serving(size) # {}
      BY <1>3, <1>5 DEF Serving
    <3>2. q \in Serving(size) /\ \A p \in Serving(size) : q <= p
      BY <3>1, MinIs
    <3> QED
      BY <3>2 DEF Serving
  <2> HIDE DEF q
  <2>3. /\ pools[q].head \in Seq(Nat \X Nat) /\ b \in ToSet(pools[q].head)
        /\ Tail(pools[q].head) \in Seq(Nat \X Nat)
        /\ ToSet(pools[q].head) = {b} \cup ToSet(Tail(pools[q].head))
        /\ IsInjective(Tail(pools[q].head)) /\ b \notin ToSet(Tail(pools[q].head))
    <3>1. pools[q].head \in Seq(Nat \X Nat) /\ IsInjective(pools[q].head)
      BY <1>2, <1>3, <2>2 DEF PoolsRight, PoolRight
    <3> QED
      BY <2>2, <3>1, TailIs
  <2>4. b[1] = q /\ b \in Nat \X Nat /\ b \notin DOMAIN bufferUsers /\ b # BufferNULL
    <3>1. b \in Carved(q, tuples[q + 1]) /\ b \notin DOMAIN bufferUsers
      BY <1>2, <1>3, <2>2, <2>3 DEF PoolsRight, PoolRight
    <3>2. b \in Nat \X Nat
      BY <2>3, ToSetIs
    <3> QED
      BY <3>1, <3>2, BufferAssumption DEF Carved
  <2> HIDE DEF b
  <2>5. /\ DOMAIN bufferUsers' = {b} \cup DOMAIN bufferUsers /\ bufferUsers'[b] = size
        /\ \A x \in DOMAIN bufferUsers : bufferUsers'[x] = bufferUsers[x]
    BY <2>1, <2>4
  <2>6. /\ DOMAIN pools' = 0 .. n - 1 /\ pools' = [p \in 0 .. n - 1 |-> pools'[p]]
        /\ pools'[q] = [pools[q] EXCEPT !.head = Tail(pools[q].head)]
        /\ \A p \in DOMAIN pools \ {q} : pools'[p] = pools[p]
    BY <1>3, <2>1, <2>2
  <2>7. pools[q] \in [specified_size : Nat, head : Seq(Nat \X Nat)]
    BY <1>2, <1>3, <2>2 DEF PoolsRight, PoolRight
  <2>8. /\ pools'[q].head = Tail(pools[q].head) /\ pools'[q] \in [specified_size : Nat, head : Seq(Nat \X Nat)]
        /\ \A p \in DOMAIN pools : pools'[p].specified_size = pools[p].specified_size
    BY <2>3, <2>6, <2>7
  <2>9. ASSUME NEW p \in 0 .. n - 1 PROVE PoolRight(p, tuples[p + 1])'
    <3>1. PoolRight(p, tuples[p + 1]) /\ p \in DOMAIN pools
      BY <1>2, <1>3 DEF PoolsRight
    <3>2. CASE p = q
      <4>1. UsersOf(p)' = {b} \cup UsersOf(p)
        BY <2>4, <2>5, <3>2 DEF UsersOf
      <4>2. /\ pools[p].specified_size \in {0, tuples[p + 1].size}
            /\ ToSet(pools[p].head) \cap DOMAIN bufferUsers = {}
            /\ ToSet(pools[p].head) \cup UsersOf(p) =
                 IF pools[p].specified_size = 0 THEN {} ELSE Carved(p, tuples[p + 1])
        BY <3>1 DEF PoolRight
      <4>3. /\ pools'[p].specified_size = pools[p].specified_size
            /\ pools'[p].head = Tail(pools[p].head)
            /\ pools'[p] \in [specified_size : Nat, head : Seq(Nat \X Nat)]
        BY <2>8, <3>1, <3>2
      <4> DEFINE T == ToSet(Tail(pools[p].head))
                 U == UsersOf(p)
                 z == pools[p].specified_size
      <4>4. ToSet(pools[p].head) = {b} \cup T /\ IsInjective(Tail(pools[p].head)) /\ b \notin T
        BY <2>3, <3>2
      <4> HIDE DEF T, U, z
      <4>5. T \cap DOMAIN bufferUsers' = {}
        BY <2>5, <4>2, <4>4
      <4>6. T \cup UsersOf(p)' = IF z = 0 THEN {} ELSE Carved(p, tuples[p + 1])
        <5>1. T \cup ({b} \cup U) = ({b} \cup T) \cup U
          OBVIOUS
        <5> QED
          BY <4>1, <4>2, <4>4, <5>1 DEF U, z
      <4>7. ToSet(pools'[p].head) = T
        BY <4>3 DEF T
      <4> QED
        BY <4>2, <4>3, <4>4, <4>5, <4>6, <4>7 DEF PoolRight, z
    <3>3. CASE p # q
      <4>1. UsersOf(p)' = UsersOf(p)
        BY <2>4, <2>5, <3>3 DEF UsersOf
      <4>2. b \notin ToSet(pools[p].head)
        BY <2>4, <3>1, <3>3 DEF PoolRight, Carved
      <4>3. pools'[p] = pools[p]
        BY <2>6, <3>1, <3>3
      <4> QED
        BY <2>5, <3>1, <4>1, <4>2, <4>3 DEF PoolRight
    <3> QED
      BY <3>2, <3>3
  <2>10. PoolsRight(tuples)'
    BY <1>1, <1>2, <2>6, <2>9 DEF PoolsRight
  <2>11. UsersRight'
    <3> SUFFICES ASSUME NEW x \in DOMAIN bufferUsers'
                 PROVE  /\ x \in Nat \X Nat /\ x[1] \in DOMAIN pools
                        /\ bufferUsers'[x] <= pools[x[1]].specified_size
      BY <2>6, <2>8, <1>3 DEF UsersRight
    <3>1. CASE x = b
      BY <2>2, <2>4, <2>5, <3>1
    <3>2. CASE x # b
      <4>1. x \in DOMAIN bufferUsers /\ bufferUsers'[x] = bufferUsers[x]
        BY <2>5, <3>2
      <4> QED
        BY <1>1, <4>1 DEF UsersRight
    <3> QED
      BY <3>1, <3>2
  <2>12. TableRight'
    <3>1. \A x : LargeEnough(x)' = LargeEnough(x)
      BY <1>3, <2>6, <2>8 DEF LargeEnough
    <3> QED
      BY <1>1, <3>1 DEF TableRight
  <2>13. BestFit'
    <3> SUFFICES ASSUME NEW p \in DOMAIN pools', size <= pools'[p].specified_size, pools'[p].head # << >>,
                        pools'[p].specified_size < pools'[q].specified_size
                 PROVE  FALSE
      BY <2>1, <2>4 DEF BestFit
    <3>1. /\ p \in DOMAIN pools /\ p # q /\ pools[p].head # << >>
          /\ size <= pools[p].specified_size /\ pools[p].specified_size < pools[q].specified_size
      <4>1. p \in DOMAIN pools
        BY <1>3, <2>6
      <4>2. p # q
        BY <1>3, <2>2, <2>8
      <4> QED
        BY <2>2, <2>6, <2>8, <4>1, <4>2
    <3>2. p \in Nat /\ q \in Nat /\ p + 1 \in 1 .. n /\ q + 1 \in 1 .. n
      BY <1>3, <2>2, <3>1
    <3>3. pools[p].specified_size = tuples[p + 1].size /\ pools[q].specified_size = tuples[q + 1].size
      BY <1>3, <2>2, <3>1
    <3>4. ~(q < p)
      <4>1. q < p => tuples[q + 1].size < tuples[p + 1].size
        <5>1. q < p => q + 1 < p + 1
          BY <3>2
        <5> QED
          BY <1>2, <3>2, <5>1, SaneIs DEF PoolsRight
      <4> QED
        BY <1>3, <2>2, <3>1, <3>3, <4>1
    <3>5. p \notin Serving(size)
      BY <2>2, <3>1, <3>2, <3>4
    <3>6. pastTable /\ size = max_size
      BY <1>1, <1>2, <1>5, <3>1, <3>5, ServingIs
    <3> QED
      BY <1>1, <1>3, <2>2, <3>1, <3>6
  <2>14. answer' \in Answers
    BY <2>1, <2>4 DEF Answers
  <2> QED
    BY <1>1, <2>10, <2>11, <2>12, <2>13, <2>14 DEF BufferInv
<1> QED
  BY <1>4, <1>5

LEMMA BufferFreeKeeps ==
    ASSUME BufferInv, NEW b \in DOMAIN bufferUsers, buffer_free(b)
    PROVE  BufferInv'
<1> DEFINE q == b[1]
<1>1. /\ UsersRight /\ TableRight
      /\ max_size' = max_size /\ size_lookup_table' = size_lookup_table /\ pastTable' = pastTable
      /\ max_size \in Nat /\ pastTable \in BOOLEAN /\ answer' = BufferNULL
      /\ pools' = [pools EXCEPT ![q].head = <<b>> \o pools[q].head]
      /\ bufferUsers' = Restrict(bufferUsers, DOMAIN bufferUsers \ {b})
  BY DEF BufferInv, Unused, buffer_free
<1>2. PICK tuples \in BufferTuples : PoolsRight(tuples)
  BY DEF BufferInv, Unused
<1> DEFINE n == Len(tuples)
<1>3. /\ DOMAIN pools = 0 .. n - 1 /\ n \in Nat \ {0}
      /\ \A p \in DOMAIN pools : PoolRight(p, tuples[p + 1])
  BY <1>2, PoolSizes, SaneIs DEF PoolsRight
<1>4. q \in DOMAIN pools /\ b \in Nat \X Nat
  BY <1>1 DEF UsersRight
<1>5. /\ pools[q] \in [specified_size : Nat, head : Seq(Nat \X Nat)] /\ IsInjective(pools[q].head)
      /\ b \notin ToSet(pools[q].head)
  BY <1>3, <1>4 DEF PoolRight
<1> DEFINE h == <<b>> \o pools[q].head
<1>6. h \in Seq(Nat \X Nat) /\ ToSet(h) = {b} \cup ToSet(pools[q].head) /\ IsInjective(h)
  BY <1>4, <1>5, ConsIs
<1> HIDE DEF h, q
<1>7. /\ DOMAIN pools' = 0 .. n - 1 /\ pools' = [p \in 0 .. n - 1 |-> pools'[p]]
      /\ pools'[q] = [pools[q] EXCEPT !.head = h]
      /\ \A p \in DOMAIN pools \ {q} : pools'[p] = pools[p]
  BY <1>1, <1>3, <1>4 DEF h
<1>8. /\ pools'[q].head = h /\ pools'[q] \in [specified_size : Nat, head : Seq(Nat \X Nat)]
      /\ \A p \in DOMAIN pools : pools'[p].specified_size = pools[p].specified_size
  BY <1>5, <1>6, <1>7
<1>9. /\ DOMAIN bufferUsers' = DOMAIN bufferUsers \ {b}
      /\ \A x \in DOMAIN bufferUsers' : bufferUsers'[x] = bufferUsers[x]
  BY <1>1 DEF Restrict
<1>10. ASSUME NEW p \in 0 .. n - 1 PROVE PoolRight(p, tuples[p + 1])'
  <2>1. PoolRight(p, tuples[p + 1]) /\ p \in DOMAIN pools
    BY <1>3
  <2>2. CASE p = q
    <3>1. UsersOf(p)' = UsersOf(p) \ {b} /\ b \in UsersOf(p)
      BY <1>9, <2>2 DEF UsersOf, q
    <3> QED
      BY <1>6, <1>8, <1>9, <2>1, <2>2, <3>1 DEF PoolRight
  <2>3. CASE p # q
    <3>1. UsersOf(p)' = UsersOf(p) /\ pools'[p] = pools[p]
      BY <1>7, <1>9, <2>1, <2>3 DEF UsersOf, q
    <3> QED
      BY <1>9, <2>1, <3>1 DEF PoolRight
  <2> QED
    BY <2>2, <2>3
<1>11. PoolsRight(tuples)'
  BY <1>1, <1>2, <1>7, <1>10 DEF PoolsRight
<1>12. UsersRight'
  <2> SUFFICES ASSUME NEW x \in DOMAIN bufferUsers'
               PROVE  /\ x \in Nat \X Nat /\ x[1] \in DOMAIN pools'
                      /\ bufferUsers'[x] <= pools'[x[1]].specified_size
    BY DEF UsersRight
  <2>1. x \in DOMAIN bufferUsers /\ bufferUsers'[x] = bufferUsers[x]
    BY <1>9
  <2> QED
    BY <1>1, <1>3, <1>7, <1>8, <2>1 DEF UsersRight
<1>13. TableRight'
  <2>1. \A x : LargeEnough(x)' = LargeEnough(x)
    BY <1>3, <1>7, <1>8 DEF LargeEnough
  <2> QED
    BY <1>1, <2>1 DEF TableRight
<1> QED
  BY <1>1, <1>11, <1>12, <1>13 DEF BufferInv, BestFit, Answers

LEMMA OverwriteKeeps == BufferInv /\ OverwriteLastEntry => BufferInv'
<1> SUFFICES ASSUME BufferInv, OverwriteLastEntry PROVE BufferInv'
  OBVIOUS
<1>1. /\ size_lookup_table # BufferNULL /\ UsersRight /\ TableRight /\ max_size \in Nat
      /\ pools' = pools /\ max_size' = max_size /\ bufferUsers' = bufferUsers
      /\ pastTable' = TRUE /\ answer' = BufferNULL
  BY DEF BufferInv, Unused, OverwriteLastEntry
<1>2. PICK tuples \in BufferTuples : PoolsRight(tuples)
  BY <1>1 DEF BufferInv, Unused
<1>3. PICK byte \in 0 .. MAX_POOLS : size_lookup_table' = [size_lookup_table EXCEPT ![max_size] = byte]
  BY DEF OverwriteLastEntry
<1>4. PoolsRight(tuples)' /\ UsersRight'
  BY <1>1, <1>2 DEF PoolsRight, PoolRight, UsersOf, UsersRight
<1>5. TableRight'
  <2>1. size_lookup_table = [size \in 0 .. max_size |-> size_lookup_table[size]]
    BY <1>1 DEF TableRight
  <2>2. /\ size_lookup_table' = [size \in 0 .. max_size |-> size_lookup_table'[size]]
        /\ \A size \in 0 .. max_size : size # max_size => size_lookup_table'[size] = size_lookup_table[size]
    BY <1>3, <2>1
  <2>3. \A x : LargeEnough(x)' = LargeEnough(x)
    BY <1>1 DEF LargeEnough
  <2> QED
    BY <1>1, <2>2, <2>3 DEF TableRight
<1> QED
  BY <1>1, <1>4, <1>5 DEF BufferInv, BestFit, Answers

LEMMA InitBuffers == BufferInit => BufferInv
<1> SUFFICES ASSUME BufferInit PROVE BufferInv
  OBVIOUS
<1>1. Unused
  BY DEF BufferInit, Unused
<1>2. max_size \in Nat /\ pastTable \in BOOLEAN /\ answer \in Answers
  BY DEF BufferInit, Answers
<1> QED
  BY <1>1, <1>2 DEF BufferInv

LEMMA NextBuffers == BufferInv /\ [BufferNext]_bufferVars => BufferInv'
<1> SUFFICES ASSUME BufferInv, [BufferNext]_bufferVars PROVE BufferInv'
  OBVIOUS
<1>1. CASE UNCHANGED bufferVars
  <2>1. UNCHANGED <<pools, max_size, size_lookup_table, bufferUsers, pastTable, answer>>
    BY <1>1 DEF bufferVars
  <2>2. \A t : PoolsRight(t) => PoolsRight(t)'
    BY <2>1 DEF PoolsRight, PoolRight, UsersOf
  <2> QED
    BY <2>1, <2>2 DEF BufferInv, Unused, UsersRight, TableRight, LargeEnough, BestFit
<1>2. CASE buffer_manager_destroy
  BY <1>2 DEF buffer_manager_destroy, BufferInv, Unused, Answers
<1> QED
  BY <1>1, <1>2, InitializeKeeps, BufferAllocateKeeps, BufferFreeKeeps, OverwriteKeeps DEF BufferNext

-----------------------------------------------------------------------------
(***************************************************************************)
(* TLV                                                                     *)
(***************************************************************************)
\* Where the first k tlvs of a list end.
Ends(list, k) == EndOf(SubSeq(list, 1, k))

\* An append goes behind what is in the buffer, or starts over.  What appends
\* have built leaves room for its end type.
AppendsRight ==
    /\ call = "append" => appended # << >> /\ idx = EndOf(buffer)
    /\ call # "append" => idx = 0
    /\ remaining_size <= buf_size - idx
    /\ appended # << >> => EndOf(buffer) + WORD <= buf_size
    /\ buf_size <= UIntSpan \div 2 - 1 - WORD

TLVInv == AppendsRight /\ TLVsRead

LEMMA SizesIs ==
    ASSUME NEW list \in Seq(AnyTLV)
    PROVE  \A i \in 1 .. Len(list) : list[i].length \in Nat /\ 2 * WORD + list[i].length \in Int
<1> SUFFICES ASSUME NEW i \in 1 .. Len(list)
             PROVE  list[i].length \in Nat /\ 2 * WORD + list[i].length \in Int
  OBVIOUS
<1>1. list[i] \in AnyTLV
  BY ElementOfSeq
<1> QED
  BY <1>1 DEF AnyTLV, WORD

\* The end of a list is the sum over its places.
LEMMA EndsIs ==
    ASSUME NEW list \in Seq(AnyTLV), NEW k \in 0 .. Len(list)
    PROVE  LET f == [i \in 1 .. Len(list) |-> 2 * WORD + list[i].length]
           IN  /\ SubSeq(list, 1, k) \in Seq(AnyTLV) /\ Len(SubSeq(list, 1, k)) = k
               /\ Ends(list, k) = SumFunctionOnSet(f, 1 .. k)
<1> DEFINE f == [i \in 1 .. Len(list) |-> 2 * WORD + list[i].length]
           s == SubSeq(list, 1, k)
           g == [i \in DOMAIN s |-> 2 * WORD + s[i].length]
<1>1. s \in Seq(AnyTLV) /\ Len(s) = k /\ DOMAIN s = 1 .. k /\ \A i \in 1 .. k : s[i] = list[i]
  OBVIOUS
<1>2. 1 .. k \subseteq 1 .. Len(list) /\ IsFiniteSet(1 .. k)
  BY FS_Interval
<1>3. \A i \in 1 .. k : g[i] = f[i] /\ g[i] \in Int
  <2> SUFFICES ASSUME NEW i \in 1 .. k PROVE g[i] = f[i] /\ g[i] \in Int
    OBVIOUS
  <2>1. i \in 1 .. Len(list) /\ s[i] = list[i] /\ 2 * WORD + list[i].length \in Int
    BY <1>1, <1>2, SizesIs
  <2> HIDE DEF s
  <2> QED
    BY <1>1, <2>1
<1>4. Ends(list, k) = SumFunctionOnSet(g, 1 .. k)
  <2>1. DOMAIN g = 1 .. k
    BY <1>1
  <2> QED
    BY <2>1 DEF Ends, EndOf, SumFunction
<1> HIDE DEF f, g
<1>5. SumFunctionOnSet(g, 1 .. k) = SumFunctionOnSet(f, 1 .. k)
  BY <1>2, <1>3, SumSame
<1> QED
  BY <1>1, <1>4, <1>5 DEF f

LEMMA EndsNext ==
    ASSUME NEW list \in Seq(AnyTLV)
    PROVE  /\ Ends(list, 0) = 0
           /\ Ends(list, Len(list)) = EndOf(list)
           /\ \A k \in 0 .. Len(list) : Ends(list, k) \in Int
           /\ \A k \in 1 .. Len(list) : Ends(list, k) = Ends(list, k - 1) + 2 * WORD + list[k].length
<1> DEFINE f == [i \in 1 .. Len(list) |-> 2 * WORD + list[i].length]
<1>1. Len(list) \in Nat
  OBVIOUS
<1>2. \A k \in 0 .. Len(list) : Ends(list, k) = SumFunctionOnSet(f, 1 .. k)
  BY EndsIs
<1>3. \A i \in 1 .. Len(list) : f[i] = 2 * WORD + list[i].length /\ f[i] \in Int
  BY SizesIs
<1> HIDE DEF f
<1>4. Ends(list, 0) = 0
  <2>1. 1 .. 0 = {} /\ 0 \in 0 .. Len(list)
    BY <1>1
  <2> QED
    BY <1>2, <2>1, SumEmpty
<1>5. Ends(list, Len(list)) = EndOf(list)
  BY SubSeqFull DEF Ends
<1>6. ASSUME NEW k \in 0 .. Len(list) PROVE Ends(list, k) \in Int
  <2>1. IsFiniteSet(1 .. k) /\ 1 .. k \subseteq 1 .. Len(list)
    BY FS_Interval
  <2> QED
    BY <1>2, <1>3, <2>1, SumType
<1>7. ASSUME NEW k \in 1 .. Len(list) PROVE Ends(list, k) = Ends(list, k - 1) + 2 * WORD + list[k].length
  <2>1. /\ IsFiniteSet(1 .. k) /\ 1 .. k \subseteq 1 .. Len(list) /\ k \in 1 .. k
        /\ (1 .. k) \ {k} = 1 .. k - 1 /\ k \in 0 .. Len(list) /\ k - 1 \in 0 .. Len(list)
    <3>1. IsFiniteSet(1 .. k)
      BY FS_Interval
    <3>2. \A x : x \in (1 .. k) \ {k} <=> x \in 1 .. k - 1
      BY <1>1
    <3> QED
      BY <1>1, <3>1, <3>2
  <2>2. SumFunctionOnSet(f, 1 .. k) = f[k] + SumFunctionOnSet(f, (1 .. k) \ {k})
    <3>1. \A x \in 1 .. k : f[x] \in Int
      BY <1>3, <2>1
    <3> QED
      BY <2>1, <3>1, SumRemove
  <2>3. Ends(list, k) = f[k] + Ends(list, k - 1)
    BY <1>2, <2>1, <2>2
  <2>4. Ends(list, k - 1) \in Int /\ f[k] \in Int /\ f[k] = 2 * WORD + list[k].length /\ list[k].length \in Nat
    BY <1>3, <1>6, <2>1, SizesIs
  <2> QED
    BY <2>3, <2>4 DEF WORD
<1> QED
  BY <1>4, <1>5, <1>6, <1>7

\* Every tlv takes room.
LEMMA EndsOrder ==
    ASSUME NEW list \in Seq(AnyTLV), NEW i \in 0 .. Len(list), NEW j \in 0 .. Len(list), i < j
    PROVE  Ends(list, i) + 2 * WORD + list[i + 1].length <= Ends(list, j)
<1> DEFINE n == Len(list)
           e(k) == Ends(list, k)
           x == list[i + 1].length
           Bad == {k \in 1 .. n : i < k /\ ~(e(i) + 2 * WORD + x <= e(k))}
<1>1. n \in Nat /\ j \in 1 .. n /\ i + 1 \in 1 .. n
  OBVIOUS
<1>2. /\ \A k \in 0 .. n : e(k) \in Int
      /\ \A k \in 1 .. n : e(k) = e(k - 1) + 2 * WORD + list[k].length
      /\ \A k \in 1 .. n : list[k].length \in Nat
  BY EndsNext, SizesIs
<1> HIDE DEF n, e, x
<1>3. ASSUME Bad # {} PROVE FALSE
  <2>1. Bad \subseteq Nat
    BY <1>1
  <2>2. PICK k \in Bad : \A m \in Bad : k <= m
    <3> HIDE DEF Bad
    <3> QED
      BY <1>3, <2>1, LeastNat
  <2>3. k \in 1 .. n /\ i < k /\ k - 1 \in 0 .. n /\ k \in 0 .. n /\ i \in 0 .. n
    BY <1>1
  <2>4. CASE k = i + 1
    BY <1>1, <1>2, <2>3, <2>4 DEF x, WORD
  <2>5. CASE k # i + 1
    <3>1. k - 1 \in 1 .. n /\ i < k - 1 /\ k - 1 \notin Bad
      BY <1>1, <2>2, <2>3, <2>5
    <3>2. e(i) + 2 * WORD + x <= e(k - 1)
      BY <3>1
    <3>3. x \in Nat /\ e(i) \in Int /\ e(k - 1) \in Int /\ e(k) = e(k - 1) + 2 * WORD + list[k].length
          /\ list[k].length \in Nat
      BY <1>1, <1>2, <2>3 DEF x
    <3> QED
      BY <2>2, <3>2, <3>3 DEF WORD
  <2> QED
    BY <2>4, <2>5
<1>4. e(i) + 2 * WORD + x <= e(j)
  BY <1>1, <1>3
<1> QED
  BY <1>4 DEF e, x

LEMMA EndsPositive ==
    ASSUME NEW list \in Seq(AnyTLV), NEW k \in 0 .. Len(list)
    PROVE  Ends(list, k) \in Nat /\ Ends(list, k) <= EndOf(list) /\ EndOf(list) \in Nat
<1> DEFINE n == Len(list)
           e(m) == Ends(list, m)
<1>1. /\ n \in Nat /\ e(0) = 0 /\ \A m \in 0 .. n : e(m) \in Int
      /\ e(n) = EndOf(list) /\ \A m \in 1 .. n : list[m].length \in Nat
  BY EndsNext, SizesIs
<1>2. ASSUME NEW i \in 0 .. n, NEW j \in 0 .. n, i < j PROVE e(i) <= e(j)
  <2>1. e(i) + 2 * WORD + list[i + 1].length <= e(j)
    BY <1>2, EndsOrder
  <2>2. i + 1 \in 1 .. n
    <3> HIDE DEF e, n
    <3> QED
      BY <1>1, <1>2
  <2>3. list[i + 1].length \in Nat /\ e(i) \in Int /\ e(j) \in Int
    BY <1>1, <2>2
  <2> DEFINE len == list[i + 1].length
             x == e(i)
             y == e(j)
  <2> HIDE DEF e, n, len, x, y
  <2>4. x \in Int /\ y \in Int /\ len \in Nat /\ x + 2 * WORD + len <= y
    BY <2>1, <2>3 DEF len, x, y
  <2>5. x <= y
    BY <2>4 DEF WORD
  <2> QED
    BY <2>5 DEF x, y
<1>3. k \in 0 .. n /\ 0 \in 0 .. n /\ n \in 0 .. n
  BY <1>1
<1> HIDE DEF e, n
<1>4. 0 <= e(k) /\ e(k) <= e(n)
  <2>1. e(0) <= e(k)
    <3>1. CASE k = 0
      BY <1>1, <3>1
    <3>2. CASE k # 0
      <4>1. 0 < k
        BY <1>1, <3>2
      <4> QED
        BY <1>2, <1>3, <4>1
    <3> QED
      BY <3>1, <3>2
  <2>2. e(k) <= e(n)
    <3>1. CASE k = n
      BY <1>1, <1>3, <3>1
    <3>2. CASE k # n
      <4>1. k < n
        BY <1>1, <1>3, <3>2
      <4> QED
        BY <1>2, <1>3, <4>1
    <3> QED
      BY <3>1, <3>2
  <2> QED
    BY <1>1, <2>1, <2>2
<1> QED
  BY <1>1, <1>3, <1>4 DEF e, n

\* The tlvs in front of the first whose type is the end type.
EndsAt(e) == /\ UpToEnd = SubSeq(buffer, 1, e) /\ Len(UpToEnd) = e
             /\ \A i \in 1 .. e : UpToEnd[i] = buffer[i] /\ buffer[i].type # TLV_END_TYPE
             /\ e < Len(buffer) => buffer[e + 1].type = TLV_END_TYPE

LEMMA UpToEndIs ==
    ASSUME buffer \in Seq(AnyTLV)
    PROVE  \E e \in 0 .. Len(buffer) : EndsAt(e)
<1> DEFINE I == {i \in 1 .. Len(buffer) : buffer[i].type = TLV_END_TYPE}
<1>1. UpToEnd = IF (IF I # {} THEN Min(I) ELSE 0) = 0 THEN buffer
                ELSE SubSeq(buffer, 1, (IF I # {} THEN Min(I) ELSE 0) - 1)
  BY DEF UpToEnd, SelectInSeq
<1>2. CASE I = {}
  <2>1. UpToEnd = buffer /\ buffer = SubSeq(buffer, 1, Len(buffer))
    BY <1>1, <1>2, SubSeqFull
  <2>2. Len(buffer) \in 0 .. Len(buffer) /\ ~(Len(buffer) < Len(buffer))
    OBVIOUS
  <2>3. EndsAt(Len(buffer))
    BY <1>2, <2>1, <2>2 DEF EndsAt
  <2> QED
    BY <2>2, <2>3
<1>3. CASE I # {}
  <2> DEFINE m == Min(I)
  <2>1. I \subseteq Nat
    OBVIOUS
  <2>2. m \in I /\ \A k \in I : m <= k
    BY <1>3, <2>1, MinIs
  <2> HIDE DEF m
  <2>3. m \in 1 .. Len(buffer) /\ buffer[m].type = TLV_END_TYPE
    BY <2>2
  <2>4. m # 0 /\ m - 1 \in 0 .. Len(buffer) /\ m - 1 + 1 = m
    BY <2>3
  <2>5. UpToEnd = SubSeq(buffer, 1, m - 1)
    BY <1>1, <1>3, <2>4 DEF m
  <2>6. Len(UpToEnd) = m - 1 /\ \A i \in 1 .. m - 1 : UpToEnd[i] = buffer[i]
    BY <2>3, <2>4, <2>5
  <2>7. ASSUME NEW i \in 1 .. m - 1 PROVE buffer[i].type # TLV_END_TYPE
    BY <2>2, <2>3
  <2>8. EndsAt(m - 1)
    BY <2>3, <2>4, <2>5, <2>6, <2>7 DEF EndsAt
  <2> QED
    BY <2>4, <2>8
<1> QED
  BY <1>2, <1>3

\* A parse stops at the first place that does not let it go on.
LEMMA StopIs ==
    ASSUME buffer \in Seq(AnyTLV)
    PROVE  /\ StopsAt \in 1 .. Len(buffer) + 1 /\ Outcome(StopsAt) # "more"
           /\ \A i \in 1 .. StopsAt - 1 : Outcome(i) = "more"
           /\ Parsed \in Seq(AnyTLV) /\ Len(Parsed) = StopsAt - 1
           /\ EndOf(Parsed) = Ends(buffer, StopsAt - 1)
<1> DEFINE n == Len(buffer)
           Stops == {i \in 1 .. n + 1 : Outcome(i) # "more"}
<1>1. n \in Nat
  OBVIOUS
<1>2. n + 1 \in Stops
  <2>1. Outcome(n + 1) # "more" /\ n + 1 \in 1 .. n + 1
    BY <1>1 DEF Outcome
  <2> QED
    BY <2>1
<1>3. Stops \subseteq Nat /\ Stops # {} /\ StopsAt = Min(Stops)
  BY <1>2 DEF StopsAt
<1>4. StopsAt \in Stops /\ \A k \in Stops : StopsAt <= k
  BY <1>3, MinIs
<1>5. StopsAt \in 1 .. n + 1 /\ Outcome(StopsAt) # "more"
  BY <1>4
<1>6. ASSUME NEW i \in 1 .. StopsAt - 1 PROVE Outcome(i) = "more"
  <2>1. i \in 1 .. n + 1 /\ ~(StopsAt <= i)
    BY <1>1, <1>5
  <2> QED
    BY <1>4, <2>1
<1>7. StopsAt - 1 \in 0 .. n
  BY <1>1, <1>5
<1>8. Parsed \in Seq(AnyTLV) /\ Len(Parsed) = StopsAt - 1
  BY <1>7, EndsIs DEF Parsed
<1> QED
  BY <1>5, <1>6, <1>8 DEF Ends, Parsed

LEMMA EndOfAppend ==
    ASSUME NEW list \in Seq(AnyTLV), NEW tlv \in AnyTLV
    PROVE  /\ Append(list, tlv) \in Seq(AnyTLV)
           /\ EndOf(Append(list, tlv)) = EndOf(list) + 2 * WORD + tlv.length
<1> DEFINE a == Append(list, tlv)
           n == Len(list)
<1>1. a \in Seq(AnyTLV) /\ Len(a) = n + 1 /\ n \in Nat /\ a[n + 1] = tlv
  OBVIOUS
<1>2. SubSeq(a, 1, n) = list
  <2>1. \A i \in 1 .. n : a[i] = list[i]
    OBVIOUS
  <2> HIDE DEF a
  <2>2. SubSeq(a, 1, n) \in Seq(AnyTLV) /\ Len(SubSeq(a, 1, n)) = n
        /\ \A i \in 1 .. n : SubSeq(a, 1, n)[i] = list[i]
    BY <1>1, <2>1
  <2> QED
    BY <2>2, SeqEqual
<1>3. n + 1 \in 1 .. Len(a) /\ n + 1 - 1 = n
  BY <1>1
<1> HIDE DEF a, n
<1>4. EndOf(a) = Ends(a, n) + 2 * WORD + tlv.length
  BY <1>1, <1>3, EndsNext
<1> QED
  BY <1>1, <1>2, <1>4 DEF a, Ends

LEMMA PrefixIs ==
    ASSUME NEW T, NEW s \in Seq(T), NEW e \in 0 .. Len(s), NEW k \in 0 .. e
    PROVE  IsPrefix(SubSeq(s, 1, k), SubSeq(s, 1, e))
<1> DEFINE a == SubSeq(s, 1, k)
           b == SubSeq(s, 1, e)
<1>1. /\ a \in Seq(T) /\ Len(a) = k /\ \A i \in 1 .. k : a[i] = s[i]
      /\ b \in Seq(T) /\ Len(b) = e /\ \A i \in 1 .. e : b[i] = s[i]
  OBVIOUS
<1> HIDE DEF a, b
<1>2. /\ SubSeq(a, 1, k) \in Seq(T) /\ Len(SubSeq(a, 1, k)) = k
      /\ \A i \in 1 .. k : SubSeq(a, 1, k)[i] = s[i]
      /\ SubSeq(b, 1, k) \in Seq(T) /\ Len(SubSeq(b, 1, k)) = k
      /\ \A i \in 1 .. k : SubSeq(b, 1, k)[i] = s[i]
  <2>1. /\ SubSeq(a, 1, k) \in Seq(T) /\ Len(SubSeq(a, 1, k)) = k
        /\ \A i \in 1 .. k : SubSeq(a, 1, k)[i] = s[i]
    BY <1>1
  <2>2. SubSeq(b, 1, k) \in Seq(T) /\ Len(SubSeq(b, 1, k)) = k
    BY <1>1
  <2>3. ASSUME NEW i \in 1 .. k PROVE SubSeq(b, 1, k)[i] = s[i]
    BY <1>1
  <2> QED
    BY <2>1, <2>2, <2>3
<1>3. SubSeq(a, 1, k) = SubSeq(b, 1, k)
  BY <1>2, SeqEqual
<1>4. IsPrefix(a, b)
  BY <1>1, <1>3 DEF IsPrefix
<1> QED
  BY <1>4 DEF a, b

\* Nothing is parsed at or behind a tlv of the end type.
LEMMA ParsedIsPrefix ==
    ASSUME buffer \in Seq(AnyTLV), NEW k \in 0 .. StopsAt - 1
    PROVE  IsPrefix(SubSeq(buffer, 1, k), UpToEnd)
<1>0. PICK e \in 0 .. Len(buffer) : EndsAt(e)
  BY UpToEndIs
<1>1. /\ UpToEnd = SubSeq(buffer, 1, e) /\ Len(UpToEnd) = e
      /\ \A i \in 1 .. e : UpToEnd[i] = buffer[i] /\ buffer[i].type # TLV_END_TYPE
      /\ e < Len(buffer) => buffer[e + 1].type = TLV_END_TYPE
  BY <1>0 DEF EndsAt
<1>2. StopsAt \in 1 .. Len(buffer) + 1 /\ \A i \in 1 .. StopsAt - 1 : Outcome(i) = "more"
  BY StopIs
<1>3. StopsAt - 1 <= e
  <2>1. SUFFICES ASSUME ~(StopsAt - 1 <= e) PROVE FALSE
    OBVIOUS
  <2>2. e < Len(buffer) /\ e + 1 \in 1 .. StopsAt - 1
    BY <1>2, <2>1
  <2>3. Outcome(e + 1) # "more"
    BY <1>1, <2>2 DEF Outcome
  <2> QED
    BY <1>2, <2>2, <2>3
<1>4. k \in 0 .. e
  BY <1>2, <1>3
<1> QED
  BY <1>1, <1>4, PrefixIs

\* What a parse of a list that the manager has built returns.
LEMMA BuiltParse ==
    ASSUME buffer \in Seq(AnyTLV), buf_size \in Nat, EndOf(buffer) + WORD <= buf_size
    PROVE  LET wrong == {i \in DOMAIN UpToEnd : UpToEnd[i].length \notin 1 .. MAX_TLV_VALUE_BYTES}
               full == EndOf(UpToEnd) + WORD = buf_size
           IN  /\ wrong = {} => Len(Parsed) = Len(UpToEnd)
               /\ Outcome(StopsAt) = IF wrong # {} THEN "EINVAL" ELSE IF full THEN "ENOSPC" ELSE "end"
<1> DEFINE n == Len(buffer)
           wrong == {i \in DOMAIN UpToEnd : UpToEnd[i].length \notin 1 .. MAX_TLV_VALUE_BYTES}
           full == EndOf(UpToEnd) + WORD = buf_size
<1>0. PICK e \in 0 .. Len(buffer) : EndsAt(e)
  BY UpToEndIs
<1>1. /\ e \in 0 .. n /\ UpToEnd = SubSeq(buffer, 1, e) /\ Len(UpToEnd) = e
      /\ \A i \in 1 .. e : UpToEnd[i] = buffer[i] /\ buffer[i].type # TLV_END_TYPE
      /\ e < n => buffer[e + 1].type = TLV_END_TYPE
  BY <1>0 DEF EndsAt
<1>2. n \in Nat /\ e \in Nat /\ DOMAIN UpToEnd = 1 .. e
  <2>1. UpToEnd \in Seq(AnyTLV)
    BY <1>1
  <2> QED
    BY <1>1, <2>1
<1>3. /\ StopsAt \in 1 .. n + 1 /\ Outcome(StopsAt) # "more" /\ Len(Parsed) = StopsAt - 1
      /\ \A i \in 1 .. StopsAt - 1 : Outcome(i) = "more"
  BY StopIs
<1>4. ASSUME NEW i \in 1 .. e
      PROVE  Outcome(i) = IF i \in wrong THEN "EINVAL" ELSE "more"
  <2> DEFINE at == EndOf(SubSeq(buffer, 1, i - 1))
             length == buffer[i].length
  <2>1. i \in 1 .. n /\ i - 1 \in 0 .. n /\ i \in 0 .. n
    BY <1>1, <1>2
  <2>2. /\ at \in Nat /\ length \in Nat /\ EndOf(buffer) \in Nat
        /\ at + 2 * WORD + length <= EndOf(buffer)
    <3>1. Ends(buffer, i) = Ends(buffer, i - 1) + 2 * WORD + buffer[i].length
      BY <2>1, EndsNext
    <3>2. Ends(buffer, i) <= EndOf(buffer) /\ Ends(buffer, i - 1) \in Nat /\ EndOf(buffer) \in Nat
      BY <2>1, EndsPositive
    <3>3. length \in Nat
      BY <2>1, SizesIs
    <3> QED
      BY <3>1, <3>2, <3>3 DEF Ends
  <2>3. ~(at >= buf_size) /\ ~(at + WORD >= buf_size) /\ ~(at + 2 * WORD >= buf_size)
    <3> HIDE DEF at, length
    <3> QED
      BY <2>2 DEF WORD
  <2>4. ~(i > Len(buffer) \/ buffer[i].type = TLV_END_TYPE)
    BY <1>1, <1>2, <2>1
  <2>5. i \in wrong <=> length \notin 1 .. MAX_TLV_VALUE_BYTES
    BY <1>1, <1>2
  <2> QED
    BY <2>3, <2>4, <2>5 DEF Outcome
<1>5. Outcome(e + 1) = IF full THEN "ENOSPC" ELSE "end"
  <2> DEFINE at == EndOf(SubSeq(buffer, 1, e))
  <2>1. e + 1 - 1 = e
    BY <1>2
  <2>2. at \in Nat /\ at <= EndOf(buffer) /\ EndOf(buffer) \in Nat
    BY EndsPositive DEF Ends
  <2>3. ~(at >= buf_size) /\ (at + WORD >= buf_size <=> at + WORD = buf_size)
    <3> HIDE DEF at
    <3> QED
      BY <2>2 DEF WORD
  <2>4. e + 1 > Len(buffer) \/ buffer[e + 1].type = TLV_END_TYPE
    BY <1>1, <1>2
  <2>5. full <=> at + WORD = buf_size
    BY <1>1
  <2> QED
    BY <2>1, <2>3, <2>4, <2>5 DEF Outcome
<1>6. wrong \subseteq 1 .. e
  BY <1>2
<1> HIDE DEF wrong, full
<1>7. CASE wrong = {}
  <2>1. ~(StopsAt <= e)
    BY <1>2, <1>3, <1>4, <1>7
  <2>2. ~(e + 1 <= StopsAt - 1)
    BY <1>2, <1>3, <1>5
  <2>3. StopsAt = e + 1
    BY <1>2, <1>3, <2>1, <2>2
  <2> QED
    BY <1>1, <1>2, <1>3, <1>5, <1>7, <2>3 DEF wrong, full
<1>8. CASE wrong # {}
  <2>1. PICK w \in wrong : TRUE
    BY <1>8
  <2>2. w \in 1 .. e /\ Outcome(w) = "EINVAL"
    BY <1>4, <1>6
  <2>3. StopsAt \in 1 .. e
    BY <1>2, <1>3, <2>2
  <2>4. Outcome(StopsAt) = "EINVAL"
    BY <1>3, <1>4, <2>3
  <2> QED
    BY <1>8, <2>4 DEF wrong, full
<1> QED
  BY <1>7, <1>8

\* A value that fits in a buffer asks for what it needs: nothing is cut off.
LEMMA FittingIsNeeded ==
    ASSUME NEW S \in Nat, S = UIntSpan, S >= 4 * WORD, NEW at \in Nat, NEW size \in Nat,
           size <= S \div 2 - 1 - WORD, NEW length \in Nat, at + 2 * WORD + length <= size
    PROVE  Needed(length) = length + 3 * WORD
<1> DEFINE m == length + 3 * WORD
           h == S \div 2
<1>1. h \in Nat /\ h <= S /\ h < S
  BY DEF WORD
<1> HIDE DEF h
<1>2. m \in Nat /\ m < h /\ m < S
  BY <1>1 DEF h, WORD
<1> HIDE DEF m
<1>3. m % S = m
  BY <1>2
<1>4. ToInt(m) = m
  BY <1>2, <1>3 DEF ToInt, h
<1> QED
  BY <1>4 DEF Needed, m

\* Two places in a list that are as far from its start are one.
LEMMA EndsApart ==
    ASSUME NEW list \in Seq(AnyTLV), NEW i \in 0 .. Len(list), NEW j \in 0 .. Len(list),
           Ends(list, i) = Ends(list, j)
    PROVE  i = j
<1>1. ASSUME NEW k \in 0 .. Len(list), NEW m \in 0 .. Len(list), k < m
      PROVE  Ends(list, k) # Ends(list, m)
  <2>1. Ends(list, k) + 2 * WORD + list[k + 1].length <= Ends(list, m)
    BY <1>1, EndsOrder
  <2>2. k + 1 \in 1 .. Len(list)
    BY <1>1
  <2>3. list[k + 1].length \in Nat
    BY <2>2, SizesIs
  <2>4. Ends(list, k) \in Nat /\ Ends(list, m) \in Nat
    BY EndsPositive
  <2> QED
    BY <2>1, <2>3, <2>4 DEF WORD
<1> QED
  BY <1>1

LEMMA WholeIs ==
    ASSUME NEW list \in Seq(AnyTLV)
    PROVE  SubSeq(list, 1, Len(list)) = list
  OBVIOUS

LEMMA AppendIsNot ==
    ASSUME NEW list \in Seq(AnyTLV), NEW tlv \in AnyTLV
    PROVE  Append(list, tlv) \in Seq(AnyTLV) /\ Append(list, tlv) # << >>
<1>1. Append(list, tlv) \in Seq(AnyTLV) /\ Len(Append(list, tlv)) = Len(list) + 1 /\ Len(list) \in Nat
  OBVIOUS
<1> QED
  BY <1>1

LEMMA ParseKeeps ==
    ASSUME TLVInv, NEW store \in BOOLEAN, tlvm_parse_engine(store),
           call' = IF store THEN "parse" ELSE "reset_to_append"
    PROVE  TLVInv'
<1>1. /\ buffer \in Seq(AnyTLV) /\ buf_size \in Nat /\ appended \in Seq(AnyTLV)
      /\ (appended # << >> => buffer = appended /\ EndOf(buffer) + WORD <= buf_size)
      /\ buf_size <= UIntSpan \div 2 - 1 - WORD
  BY DEF TLVInv, AppendsRight, TLVsRead, TLVTypeOK
<1>2. idx' = 0 /\ buf_size' = buf_size /\ buffer' = buffer /\ appended' = appended
      /\ UpToEnd' = UpToEnd /\ EndOf(buffer)' = EndOf(buffer)
  BY DEF tlvm_parse_engine, UpToEnd, SelectInSeq, EndOf
<1>0. /\ call' \in {"parse", "reset_to_append"}
      /\ store <=> call' = "parse"
  OBVIOUS
<1>3. /\ StopsAt \in 1 .. Len(buffer) + 1 /\ Outcome(StopsAt) # "more"
      /\ Parsed \in Seq(AnyTLV) /\ Len(Parsed) = StopsAt - 1 /\ EndOf(Parsed) = Ends(buffer, StopsAt - 1)
  BY <1>1, StopIs
<1>4. StopsAt - 1 \in 0 .. Len(buffer) /\ EndOf(Parsed) \in Nat
  <2>1. StopsAt - 1 \in 0 .. Len(buffer)
    BY <1>1, <1>3
  <2> QED
    BY <1>1, <1>3, <2>1, EndsPositive
<1>5. CASE /\ outcome' = Outcome(StopsAt) /\ n_tlvs' = Len(Parsed)
           /\ tlvs' = IF store THEN Parsed ELSE << >>
           /\ remaining_size' = IF outcome' \in {"past", "end"} THEN buf_size - EndOf(Parsed) ELSE buf_size
  <2>1. TLVTypeOK'
    <3>1. outcome' \in {"none", "past", "end", "ENOSPC", "EINVAL", "ENOMEM"}
      BY <1>3, <1>5 DEF Outcome
    <3>2. n_tlvs' \in Nat /\ remaining_size' \in Int
      BY <1>1, <1>3, <1>4, <1>5
    <3> QED
      BY <1>0, <1>1, <1>2, <3>1, <3>2 DEF TLVTypeOK
  <2>2. AppendsRight'
    <3>1. remaining_size' <= buf_size - 0
      BY <1>1, <1>4, <1>5
    <3> QED
      BY <1>0, <1>1, <1>2, <3>1 DEF AppendsRight
  <2>3. IsPrefix(tlvs', UpToEnd')
    <3>1. IsPrefix(Parsed, UpToEnd)
      <4>1. StopsAt - 1 \in 0 .. StopsAt - 1
        BY <1>3
      <4> QED
        BY <1>1, <4>1, ParsedIsPrefix DEF Parsed
    <3>2. IsPrefix(<< >>, UpToEnd)
      <4>1. 0 \in 0 .. StopsAt - 1 /\ SubSeq(buffer, 1, 0) = << >>
        BY <1>1, <1>3
      <4> QED
        BY <1>1, <4>1, ParsedIsPrefix
    <3> QED
      BY <1>2, <1>5, <3>1, <3>2
  <2>4. ASSUME Len(Parsed) = Len(UpToEnd) PROVE Parsed = UpToEnd
    <3>1. IsPrefix(SubSeq(buffer, 1, StopsAt - 1), UpToEnd)
      <4>1. StopsAt - 1 \in 0 .. StopsAt - 1
        BY <1>3
      <4> QED
        BY <1>1, <4>1, ParsedIsPrefix
    <3>2. PICK e \in 0 .. Len(buffer) : EndsAt(e)
      BY <1>1, UpToEndIs
    <3>3. Len(Parsed) = StopsAt - 1 /\ Len(UpToEnd) = e /\ UpToEnd = SubSeq(buffer, 1, e)
      BY <1>3, <3>2 DEF EndsAt
    <3>4. e = StopsAt - 1
      BY <2>4, <3>3
    <3> QED
      BY <3>3, <3>4 DEF Parsed
  <2>5. ~(call' = "append")
    BY <1>0
  <2>6. call' = "parse" => tlvs' = Parsed
    BY <1>0, <1>5
  <2> QED
    BY <1>1, <1>2, <1>5, <2>1, <2>2, <2>3, <2>4, <2>5, <2>6, BuiltParse DEF TLVInv, TLVsRead
<1>6. CASE \E had \in 0 .. Len(Parsed) - 1 :
             /\ tlvs' = SubSeq(Parsed, 1, had) /\ n_tlvs' = had
             /\ outcome' = "ENOMEM" /\ remaining_size' = buf_size
  <2>1. PICK had \in 0 .. Len(Parsed) - 1 : tlvs' = SubSeq(Parsed, 1, had) /\ n_tlvs' = had
    BY <1>6
  <2>2. had \in 0 .. StopsAt - 1 /\ had \in Nat
    BY <1>3
  <2>3. tlvs' = SubSeq(buffer, 1, had)
    <3>1. \A i \in 1 .. StopsAt - 1 : Parsed[i] = buffer[i]
      BY <1>1, <1>4 DEF Parsed
    <3>2. /\ SubSeq(Parsed, 1, had) \in Seq(AnyTLV) /\ Len(SubSeq(Parsed, 1, had)) = had
          /\ \A i \in 1 .. had : SubSeq(Parsed, 1, had)[i] = buffer[i]
      BY <1>3, <2>2, <3>1
    <3>3. /\ SubSeq(buffer, 1, had) \in Seq(AnyTLV) /\ Len(SubSeq(buffer, 1, had)) = had
          /\ \A i \in 1 .. had : SubSeq(buffer, 1, had)[i] = buffer[i]
      BY <1>1, <1>4, <2>2
    <3>4. SubSeq(Parsed, 1, had) = SubSeq(buffer, 1, had)
      BY <3>2, <3>3, SeqEqual
    <3> QED
      BY <2>1, <3>4
  <2>4. IsPrefix(tlvs', UpToEnd')
    BY <1>1, <1>2, <2>2, <2>3, ParsedIsPrefix
  <2>5. TLVTypeOK' /\ AppendsRight'
    BY <1>0, <1>1, <1>2, <1>6, <2>1, <2>2 DEF TLVTypeOK, AppendsRight
  <2> QED
    BY <1>0, <1>1, <1>2, <1>6, <2>4, <2>5 DEF TLVInv, TLVsRead
<1> QED
  BY <1>5, <1>6 DEF tlvm_parse_engine

LEMMA AppendKeeps ==
    ASSUME TLVInv, NEW tlv \in TLVs, tlvm_append(tlv)
    PROVE  TLVInv'
<1> DEFINE n == Len(buffer)
           ends == [i \in 1 .. n + 1 |-> EndOf(SubSeq(buffer, 1, i - 1))]
           I == {i \in 1 .. Len(ends) : ends[i] = idx}
           before == (IF I # {} THEN Min(I) ELSE 0) - 1
<1>1. /\ buffer \in Seq(AnyTLV) /\ buf_size \in Nat /\ idx \in Nat /\ remaining_size \in Int /\ n_tlvs \in Nat
      /\ idx > 0 => idx = EndOf(buffer)
      /\ remaining_size <= buf_size - idx /\ appended \in Seq(AnyTLV) /\ n \in Nat
      /\ buf_size <= UIntSpan \div 2 - 1 - WORD
      /\ call = "append" => appended # << >> /\ idx = EndOf(buffer) /\ buffer = appended
      /\ call # "append" => idx = 0
  BY DEF TLVInv, AppendsRight, TLVsRead, TLVTypeOK
<1>2. tlv \in AnyTLV /\ tlv.length \in Nat
  <2>1. UIntSpan \in Nat /\ TLVLengths \subseteq 0 .. UIntSpan - 1
    BY TLVAssumption
  <2>2. TLVLengths \subseteq Nat
    BY <2>1
  <2> QED
    BY <2>2 DEF TLVs, AnyTLV
<1>14. tlv.length + 3 * WORD <= remaining_size
  <2>1. /\ Needed(tlv.length) <= remaining_size /\ ValueFits(tlv.length)
    BY DEF tlvm_append
  <2>2. UIntSpan \in Nat /\ UIntSpan >= 4 * WORD
    BY TLVAssumption
  <2> QED
    BY <1>1, <1>2, <2>1, <2>2, FittingIsNeeded DEF ValueFits
<1>3. /\ buffer' = Append(SubSeq(buffer, 1, before), tlv)
      /\ idx' = idx + tlv.length + 2 * WORD
      /\ remaining_size' = remaining_size - (tlv.length + 2 * WORD)
      /\ n_tlvs' = n_tlvs + 1 /\ outcome' = "none" /\ buf_size' = buf_size
      /\ appended' = Append(IF call = "append" THEN appended ELSE << >>, tlv)
      /\ call' = "append"
  BY DEF tlvm_append, SelectInSeq
<1>4. Len(ends) = n + 1 /\ \A k \in 0 .. n : ends[k + 1] = Ends(buffer, k)
  <2>1. Len(ends) = n + 1
    BY <1>1
  <2>2. ASSUME NEW k \in 0 .. n PROVE ends[k + 1] = Ends(buffer, k)
    <3>1. k + 1 \in 1 .. n + 1 /\ k + 1 - 1 = k
      BY <1>1
    <3> QED
      BY <3>1 DEF Ends
  <2> QED
    BY <2>1, <2>2
<1>5. \E k \in 0 .. n : Ends(buffer, k) = idx
  <2>1. 0 \in 0 .. n /\ n \in 0 .. n /\ Ends(buffer, 0) = 0 /\ Ends(buffer, n) = EndOf(buffer)
    BY <1>1, EndsNext
  <2> QED
    BY <1>1, <2>1
<1> HIDE DEF ends
<1>6. before \in 0 .. n /\ Ends(buffer, before) = idx
  <2>1. PICK k \in 0 .. n : Ends(buffer, k) = idx
    BY <1>5
  <2>2. k + 1 \in I
    BY <1>1, <1>4, <2>1
  <2>3. I \subseteq Nat /\ I \subseteq 1 .. n + 1
    BY <1>1, <1>4
  <2>4. Min(I) \in I
    <3> HIDE DEF I
    <3> QED
      BY <2>2, <2>3, MinIs
  <2>5. before = Min(I) - 1
    BY <2>2
  <2>6. Min(I) \in 1 .. n + 1 /\ ends[Min(I)] = idx
    BY <2>3, <2>4
  <2>7. before \in 0 .. n /\ before + 1 = Min(I)
    <3> DEFINE m == Min(I)
    <3> HIDE DEF m, I
    <3>1. m \in 1 .. n + 1 /\ before = m - 1
      BY <2>5, <2>6 DEF m
    <3>2. m - 1 \in 0 .. n /\ m - 1 + 1 = m
      BY <1>1, <3>1
    <3> QED
      BY <3>1, <3>2 DEF m
  <2> HIDE DEF before, I
  <2> QED
    BY <1>4, <2>6, <2>7
<1> HIDE DEF before, I
<1>7. buffer' \in Seq(AnyTLV) /\ EndOf(buffer') = idx + 2 * WORD + tlv.length
  <2> DEFINE kept == SubSeq(buffer, 1, before)
  <2>1. kept \in Seq(AnyTLV) /\ EndOf(kept) = idx
    BY <1>1, <1>6, EndsIs DEF Ends
  <2> HIDE DEF kept
  <2>2. buffer' = Append(kept, tlv)
    BY <1>3 DEF kept
  <2> QED
    BY <1>2, <2>1, <2>2, EndOfAppend
<1>8. EndOf(buffer)' = EndOf(buffer')
  BY DEF EndOf
<1>9. /\ idx' = EndOf(buffer') /\ idx' \in Nat /\ idx' + WORD <= buf_size
      /\ remaining_size' <= buf_size - idx' /\ remaining_size' \in Int
  <2> DEFINE l == tlv.length
             e == EndOf(buffer')
  <2>1. idx' = e
    <3>1. /\ idx \in Nat /\ l \in Nat /\ idx' = idx + l + 2 * WORD
          /\ e = idx + 2 * WORD + l
      BY <1>1, <1>2, <1>3, <1>7
    <3> HIDE DEF l, e
    <3> QED
      BY <3>1 DEF WORD
  <2>2. /\ l \in Nat /\ l + 3 * WORD <= remaining_size /\ idx' = idx + l + 2 * WORD
        /\ remaining_size' = remaining_size - (l + 2 * WORD)
    BY <1>2, <1>3, <1>14
  <2> HIDE DEF l
  <2>3. /\ idx' \in Nat /\ idx' + WORD <= buf_size
        /\ remaining_size' <= buf_size - idx' /\ remaining_size' \in Int
    BY <1>1, <2>2 DEF WORD
  <2> QED
    BY <2>1, <2>3
\* The tlvs in the buffer are those of the appends that followed one another.
<1>10. buffer' = appended' /\ appended' # << >> /\ appended' \in Seq(AnyTLV)
  <2>1. CASE call = "append"
    <3>1. before \in 0 .. n /\ Ends(buffer, before) = Ends(buffer, n)
      <4>1. Ends(buffer, n) = EndOf(buffer)
        BY <1>1, EndsNext
      <4> QED
        BY <1>1, <1>6, <2>1, <4>1
    <3>2. before = n
      <4>1. n \in 0 .. n
        BY <1>1
      <4> QED
        BY <1>1, <3>1, <4>1, EndsApart
    <3>3. SubSeq(buffer, 1, before) = buffer
      <4>1. SubSeq(buffer, 1, n) = buffer
        BY <1>1, WholeIs
      <4> QED
        BY <3>2, <4>1
    <3>4. buffer' = Append(appended, tlv) /\ appended' = Append(appended, tlv)
      BY <1>1, <1>3, <2>1, <3>3
    <3> QED
      BY <1>1, <1>2, <3>4, AppendIsNot
  <2>2. CASE call # "append"
    <3>1. before \in 0 .. n /\ Ends(buffer, before) = Ends(buffer, 0)
      <4>1. Ends(buffer, 0) = 0
        BY <1>1, EndsNext
      <4> QED
        BY <1>1, <1>6, <2>2, <4>1
    <3>2. before = 0
      <4>1. 0 \in 0 .. n
        BY <1>1
      <4> QED
        BY <1>1, <3>1, <4>1, EndsApart
    <3>3. SubSeq(buffer, 1, before) = << >>
      BY <1>1, <3>2
    <3>4. buffer' = Append(<< >>, tlv) /\ appended' = Append(<< >>, tlv)
      BY <1>3, <2>2, <3>3
    <3>5. << >> \in Seq(AnyTLV)
      OBVIOUS
    <3> QED
      BY <1>2, <3>4, <3>5, AppendIsNot
  <2> QED
    BY <2>1, <2>2
<1>11. TLVTypeOK'
  BY <1>1, <1>3, <1>7, <1>9, <1>10 DEF TLVTypeOK
<1>12. AppendsRight'
  BY <1>1, <1>3, <1>8, <1>9, <1>10 DEF AppendsRight
<1>13. call' = "append" /\ outcome' = "none"
  BY <1>3
<1>15. idx' = EndOf(appended)'
  <2>1. EndOf(appended)' = EndOf(appended')
    BY DEF EndOf
  <2> QED
    BY <1>9, <1>10, <2>1
<1> QED
  BY <1>3, <1>9, <1>10, <1>11, <1>12, <1>13, <1>15 DEF TLVInv, TLVsRead

\* The calls that start over.
LEMMA ResetKeeps ==
    ASSUME TLVInv, NEW size \in Nat, Reset(size), buf_size' = size,
           size <= UIntSpan \div 2 - 1 - WORD,
           buffer' \in Seq(AnyTLV), appended' \in Seq(AnyTLV),
           appended' # << >> => buffer' = appended' /\ EndOf(buffer') + WORD <= size,
           call' \in {"attach", "reset", "detach"}
    PROVE  TLVInv'
<1>1. idx' = 0 /\ remaining_size' = size /\ n_tlvs' = 0 /\ outcome' = "none"
  BY DEF Reset
<1>2. TLVTypeOK' /\ AppendsRight'
  BY <1>1 DEF TLVTypeOK, AppendsRight, EndOf
<1> QED
  BY <1>1, <1>2 DEF TLVInv, TLVsRead

LEMMA InitTLVs == TLVInit => TLVInv
<1> SUFFICES ASSUME TLVInit PROVE TLVInv
  OBVIOUS
<1>1. TLVTypeOK
  <2>1. buffer \in Seq(AnyTLV)
    BY DEF TLVInit
  <2>2. outcome \in {"none", "past", "end", "ENOSPC", "EINVAL", "ENOMEM"}
    BY DEF TLVInit
  <2>3. buf_size \in Nat /\ idx \in Nat /\ remaining_size \in Int /\ n_tlvs \in Nat
    BY DEF TLVInit
  <2>4. appended \in Seq(AnyTLV) /\ call = "none"
    BY DEF TLVInit
  <2> QED
    BY <2>1, <2>2, <2>3, <2>4 DEF TLVTypeOK
<1>2. AppendsRight
  <2>1. 0 <= UIntSpan \div 2 - 1 - WORD
    BY TLVAssumption DEF WORD
  <2> QED
    BY <2>1 DEF TLVInit, AppendsRight
<1> QED
  BY <1>1, <1>2 DEF TLVInit, TLVInv, TLVsRead

LEMMA NextTLVs == TLVInv /\ [TLVNext]_tlvVars => TLVInv'
<1> SUFFICES ASSUME TLVInv, [TLVNext]_tlvVars PROVE TLVInv'
  OBVIOUS
<1>1. CASE UNCHANGED tlvVars
  <2>1. UNCHANGED <<buf_size, buffer, idx, remaining_size, tlvs, n_tlvs, outcome, call, appended>>
    BY <1>1 DEF tlvVars
  <2>2. UpToEnd' = UpToEnd
    BY <2>1 DEF UpToEnd, SelectInSeq
  <2> QED
    BY <2>1, <2>2 DEF TLVInv, AppendsRight, TLVsRead, TLVTypeOK
<1>2. ASSUME NEW b \in TLVBuffers, tlvm_attach(b) PROVE TLVInv'
  <2>1. /\ b.size \in Nat /\ b.content \in Seq(AnyTLV)
        /\ b.size <= UIntSpan \div 2 - 1 - WORD
    BY TLVAssumption
  <2>2. /\ buf_size' = b.size /\ buffer' = b.content /\ Reset(b.size)
        /\ call' = "attach" /\ appended' = << >>
    BY <1>2 DEF tlvm_attach
  <2> QED
    BY <2>1, <2>2, ResetKeeps
<1>3. CASE tlvm_reset
  <2>1. /\ buf_size \in Nat /\ buffer \in Seq(AnyTLV) /\ appended \in Seq(AnyTLV)
        /\ buf_size <= UIntSpan \div 2 - 1 - WORD
        /\ appended # << >> => buffer = appended /\ EndOf(buffer) + WORD <= buf_size
    BY DEF TLVInv, AppendsRight, TLVsRead, TLVTypeOK
  <2>2. /\ Reset(buf_size) /\ call' = "reset"
        /\ buf_size' = buf_size /\ buffer' = buffer /\ appended' = appended
    BY <1>3 DEF tlvm_reset
  <2> QED
    BY <2>1, <2>2, ResetKeeps
<1>4. ASSUME tlvm_detach PROVE TLVInv'
  <2>1. /\ buf_size' = 0 /\ buffer' = << >> /\ Reset(0)
        /\ call' = "detach" /\ appended' = << >>
    BY <1>4 DEF tlvm_detach
  <2>2. /\ buffer' \in Seq(AnyTLV) /\ 0 \in Nat /\ appended' \in Seq(AnyTLV)
        /\ 0 <= UIntSpan \div 2 - 1 - WORD
    BY <2>1, TLVAssumption DEF WORD
  <2> QED
    BY <2>1, <2>2, ResetKeeps
<1>5. CASE tlvm_parse
  BY <1>5, ParseKeeps DEF tlvm_parse
<1>6. CASE tlvm_reset_to_append
  BY <1>6, ParseKeeps DEF tlvm_reset_to_append
<1>7. ASSUME NEW tlv \in TLVs, append_runs_over(tlv) PROVE TLVInv'
  BY <1>4, <1>7 DEF append_runs_over
<1> QED
  BY <1>1, <1>2, <1>3, <1>4, <1>5, <1>6, <1>7, AppendKeeps DEF TLVNext

-----------------------------------------------------------------------------
(***************************************************************************)
(* ObjectManager: the files                                                *)
(***************************************************************************)
Places == {"no", "rename_backup", "rename_om", "fopen", "print"}

\* That saving is a record of its fields, whatever is in them but for the place.
IsSaving == saving \in [at : Places, todo : {saving.todo}, aids : {saving.aids}, text : {saving.text}]

LEMMA AtChanges ==
    ASSUME IsSaving, NEW place \in Places, saving' = [saving EXCEPT !.at = place]
    PROVE  IsSaving' /\ saving'.at = place
BY DEF IsSaving

\* The first file, if it is under one of some names.
FirstIn(names) == \E n \in names : files[n] = first

\* Where the first file is, by what om_write does next: it is in no backup
\* before the first write has moved it there, and in the way of no change of
\* names that would remove it before the third.
FirstIsAt ==
    /\ (writes = 0 \/ (writes = 1 /\ saving.at \in {"rename_backup", "rename_om"}))
         => files["om"] = first /\ files["BACKUP"] = NoFile
    /\ saving.at = "rename_backup" => FirstIn({"om", "BACKUP"})
    /\ saving.at = "rename_om" => files["BACKUP"] = NoFile /\ FirstIn({"om", "BACKUP_tmp"})
    /\ saving.at \in {"fopen", "print"} => FirstIn({"BACKUP", "BACKUP_tmp"})
    /\ writes = 1 /\ saving.at \in {"fopen", "print"} => files["BACKUP"] = first
    /\ writes = 1 /\ saving.at = "no" => FirstIn({"om", "BACKUP"})
    /\ saving.at = "no" => FirstIn(FileNames)

BackupInv == /\ DOMAIN files = FileNames
             /\ writes \in Nat
             /\ IsSaving
             /\ writes = 0 => saving.at = "no"
             /\ ~NamesCanFail /\ first # NoFile /\ writes <= 2 => FirstIsAt

LEMMA InitBackups == OMInit => BackupInv
<1> SUFFICES ASSUME OMInit PROVE BackupInv
  OBVIOUS
<1>1. /\ saving.at = "no" /\ writes = 0 /\ DOMAIN files = FileNames /\ IsSaving
      /\ files["om"] = first /\ files["BACKUP"] = NoFile
  BY DEF OMInit, NotSaving, IsSaving, Places
<1> QED
  BY <1>1 DEF BackupInv, FirstIsAt, FirstIn, FileNames

\* A name change, with the names that can be changed.
LEMMA RenamedIs ==
    ASSUME ~NamesCanFail, DOMAIN files = FileNames, NEW from \in FileNames, NEW to \in FileNames,
           from # to, NEW f \in Renamed(from, to)
    PROVE  /\ DOMAIN f = FileNames
           /\ files[from] = NoFile => f = files
           /\ files[from] # NoFile => f[to] = files[from] /\ f[from] = NoFile
           /\ \A n \in FileNames \ {from, to} : f[n] = files[n]
<1>1. CASE files[from] = NoFile
  BY <1>1 DEF Renamed
<1>2. CASE files[from] # NoFile
  <2>1. f = [files EXCEPT ![to] = files[from], ![from] = NoFile]
    BY <1>2 DEF Renamed
  <2> QED
    BY <1>2, <2>1
<1> QED
  BY <1>1, <1>2

LEMMA RenamedNames ==
    ASSUME DOMAIN files = FileNames, NEW from, NEW to, NEW f \in Renamed(from, to)
    PROVE  DOMAIN f = FileNames
BY DEF Renamed

\* A step of om_write that ends no process, for each place where it is.
LEMMA WriteKeeps == BackupInv /\ om_write => BackupInv'
<1> SUFFICES ASSUME BackupInv, om_write PROVE BackupInv'
  OBVIOUS
<1>1. /\ saving.at = "no" /\ saving'.at = "rename_backup" /\ IsSaving'
      /\ writes' = writes + 1 /\ first' = first
  BY AtChanges DEF BackupInv, om_write, CanChange, Places
<1>2. DOMAIN files' = FileNames
  BY DEF BackupInv, om_write
<1>3. ASSUME ~NamesCanFail, first # NoFile, writes <= 1 PROVE FirstIsAt'
  <2>1. /\ FirstIsAt /\ writes \in {0, 1}
        /\ files' = [files EXCEPT !["BACKUP_tmp"] = NoFile] /\ DOMAIN files = FileNames
    BY <1>3 DEF BackupInv, om_write
  <2>2. files'["om"] = files["om"] /\ files'["BACKUP"] = files["BACKUP"]
    BY <2>1 DEF FileNames
  <2>3. FirstIn({"om", "BACKUP"})
    BY <1>1, <2>1 DEF FirstIsAt, FirstIn
  <2>4. writes' = 1 => files'["om"] = first' /\ files'["BACKUP"] = NoFile
    BY <1>1, <2>1, <2>2 DEF FirstIsAt
  <2>5. FirstIn({"om", "BACKUP"})'
    BY <1>1, <2>2, <2>3 DEF FirstIn
  <2> QED
    BY <1>1, <2>1, <2>4, <2>5 DEF FirstIsAt
<1>4. writes \in Nat
  BY DEF BackupInv
<1> QED
  BY <1>1, <1>2, <1>3, <1>4 DEF BackupInv

LEMMA RenameBackupKeeps == BackupInv /\ rename_backup => BackupInv'
<1> SUFFICES ASSUME BackupInv, rename_backup PROVE BackupInv'
  OBVIOUS
<1>1. /\ saving.at = "rename_backup" /\ saving'.at = "rename_om" /\ IsSaving'
      /\ writes' = writes /\ first' = first /\ files' \in Renamed("BACKUP", "BACKUP_tmp")
  BY AtChanges DEF BackupInv, rename_backup, Places
<1>2. DOMAIN files' = FileNames
  BY <1>1, RenamedNames DEF BackupInv
<1>3. ASSUME ~NamesCanFail, first # NoFile, writes <= 2 PROVE FirstIsAt'
  <2>1. FirstIsAt /\ DOMAIN files = FileNames
    BY <1>3 DEF BackupInv
  <2>2. /\ files["BACKUP"] = NoFile => files' = files
        /\ files["BACKUP"] # NoFile => /\ files'["BACKUP_tmp"] = files["BACKUP"]
                                       /\ files'["BACKUP"] = NoFile
        /\ files'["om"] = files["om"]
    BY <1>1, <1>3, <2>1, RenamedIs DEF FileNames
  <2>3. FirstIn({"om", "BACKUP"})
    BY <1>1, <2>1 DEF FirstIsAt
  <2>4. files'["BACKUP"] = NoFile
    BY <2>2
  <2>5. FirstIn({"om", "BACKUP_tmp"})'
    BY <1>1, <1>3, <2>2, <2>3 DEF FirstIn
  <2>6. writes = 1 => files'["om"] = first
    BY <1>1, <2>1, <2>2 DEF FirstIsAt
  <2> QED
    BY <1>1, <2>4, <2>5, <2>6 DEF FirstIsAt, BackupInv
<1> QED
  BY <1>1, <1>2, <1>3 DEF BackupInv

LEMMA RenameKeeps == BackupInv /\ rename_om => BackupInv'
<1> SUFFICES ASSUME BackupInv, rename_om PROVE BackupInv'
  OBVIOUS
<1>1. /\ saving.at = "rename_om" /\ saving'.at = "fopen" /\ IsSaving'
      /\ writes' = writes /\ first' = first /\ files' \in Renamed("om", "BACKUP")
  BY AtChanges DEF BackupInv, rename_om, Places
<1>2. DOMAIN files' = FileNames
  BY <1>1, RenamedNames DEF BackupInv
<1>3. ASSUME ~NamesCanFail, first # NoFile, writes <= 2 PROVE FirstIsAt'
  <2>1. FirstIsAt /\ DOMAIN files = FileNames
    BY <1>3 DEF BackupInv
  <2>2. /\ files["om"] # NoFile => files'["BACKUP"] = files["om"]
        /\ files'["BACKUP_tmp"] = files["BACKUP_tmp"]
    BY <1>1, <1>3, <2>1, RenamedIs DEF FileNames
  <2>3. FirstIn({"om", "BACKUP_tmp"}) /\ (writes = 1 => files["om"] = first)
    BY <1>1, <2>1 DEF FirstIsAt
  <2>4. FirstIn({"BACKUP", "BACKUP_tmp"})'
    BY <1>1, <1>3, <2>2, <2>3 DEF FirstIn
  <2>5. writes = 1 => files'["BACKUP"] = first
    BY <1>3, <2>2, <2>3
  <2> QED
    BY <1>1, <2>4, <2>5 DEF FirstIsAt, BackupInv
<1> QED
  BY <1>1, <1>2, <1>3 DEF BackupInv

\* A new file comes, or the process ends, in a place where the first file is
\* not "om".
LEMMA EndKeeps ==
    ASSUME BackupInv, saving'.at \in {"no", "print"}, IsSaving',
           writes' = writes, first' = first, DOMAIN files' = FileNames,
           saving'.at = "print" => saving.at \in {"fopen", "print"},
           files' = files \/ (/\ saving.at \in {"fopen", "print"}
                              /\ \A n \in FileNames \ {"om"} : files'[n] = files[n])
    PROVE  BackupInv'
<1>1. ASSUME ~NamesCanFail, first # NoFile, writes <= 2 PROVE FirstIsAt'
  <2>1. FirstIsAt /\ DOMAIN files = FileNames /\ IsSaving
    BY <1>1 DEF BackupInv
  <2>2. CASE saving.at \in {"fopen", "print"}
    <3>1. /\ FirstIn({"BACKUP", "BACKUP_tmp"}) /\ (writes = 1 => files["BACKUP"] = first)
          /\ writes # 0
      BY <2>1, <2>2 DEF FirstIsAt, BackupInv
    <3>2. files'["BACKUP"] = files["BACKUP"] /\ files'["BACKUP_tmp"] = files["BACKUP_tmp"]
      BY DEF FileNames
    <3>3. FirstIn({"BACKUP", "BACKUP_tmp"})' /\ (writes' = 1 => files'["BACKUP"] = first')
      BY <3>1, <3>2 DEF FirstIn
    <3>4. FirstIn(FileNames)' /\ (writes' = 1 => FirstIn({"om", "BACKUP"})')
      BY <3>3 DEF FirstIn, FileNames
    <3> QED
      BY <3>1, <3>3, <3>4 DEF FirstIsAt
  <2>3. CASE saving.at \notin {"fopen", "print"}
    <3>1. files' = files /\ saving'.at = "no"
      BY <2>3
    <3>2. CASE saving.at = "no"
      <4>1. /\ FirstIn(FileNames) /\ (writes = 1 => FirstIn({"om", "BACKUP"}))
            /\ (writes = 0 => files["om"] = first /\ files["BACKUP"] = NoFile)
        BY <2>1, <3>2 DEF FirstIsAt
      <4> QED
        BY <3>1, <4>1 DEF FirstIsAt, FirstIn
    <3>3. CASE saving.at = "rename_backup"
      <4>1. FirstIn({"om", "BACKUP"}) /\ writes # 0
        BY <2>1, <3>3 DEF FirstIsAt, BackupInv
      <4>2. FirstIn({"om", "BACKUP"})' /\ FirstIn(FileNames)'
        BY <3>1, <4>1 DEF FirstIn, FileNames
      <4> QED
        BY <3>1, <4>1, <4>2 DEF FirstIsAt
    <3>4. CASE saving.at = "rename_om"
      <4>1. /\ FirstIn({"om", "BACKUP_tmp"}) /\ writes # 0
            /\ writes = 1 => files["om"] = first
        BY <2>1, <3>4 DEF FirstIsAt, BackupInv
      <4>2. FirstIn(FileNames)' /\ (writes' = 1 => FirstIn({"om", "BACKUP"})')
        BY <3>1, <4>1 DEF FirstIn, FileNames
      <4> QED
        BY <3>1, <4>1, <4>2 DEF FirstIsAt
    <3> QED
      BY <2>1, <2>3, <3>2, <3>3, <3>4 DEF IsSaving, Places
  <2> QED
    BY <2>2, <2>3
<1>2. writes' \in Nat /\ (writes' = 0 => saving'.at = "no")
  BY DEF BackupInv
<1> QED
  BY <1>1, <1>2 DEF BackupInv

LEMMA CrashKeepsFiles ==
    ASSUME BackupInv, NEW step, Crash(step)
    PROVE  BackupInv'
<1>1. writes' = writes /\ first' = first /\ saving'.at = "no" /\ IsSaving'
  BY DEF Crash, NotSaving, IsSaving, Places
<1>2. DOMAIN files = FileNames
  BY DEF BackupInv
<1>3. CASE saving.at # "print"
  <2>1. files' = files
    BY <1>3 DEF Crash
  <2> QED
    BY <1>1, <1>2, <2>1, EndKeeps
<1>4. CASE saving.at = "print"
  <2>1. PICK left \in Flushed(saving.text) : files' = [files EXCEPT !["om"] = left]
    BY <1>4, Zenon DEF Crash
  <2>2. DOMAIN files' = FileNames /\ \A n \in FileNames \ {"om"} : files'[n] = files[n]
    BY <1>2, <2>1
  <2> QED
    BY <1>1, <1>4, <2>2, EndKeeps
<1> QED
  BY <1>3, <1>4

LEMMA OpenKeeps == BackupInv /\ fopen_om => BackupInv'
<1> SUFFICES ASSUME BackupInv, fopen_om PROVE BackupInv'
  OBVIOUS
<1>1. /\ saving.at = "fopen" /\ writes' = writes /\ first' = first
      /\ DOMAIN files = FileNames /\ IsSaving
  BY DEF fopen_om, BackupInv
<1>2. CASE saving' = NotSaving /\ UNCHANGED files
  BY <1>1, <1>2, EndKeeps DEF NotSaving, IsSaving, Places
<1>3. CASE ~(saving' = NotSaving /\ UNCHANGED files)
  <2>1. PICK order \in WalkOrders : /\ files' = [files EXCEPT !["om"] = << >>]
                                    /\ saving' = [saving EXCEPT !.at = "print", !.todo = order]
    BY <1>3, Zenon DEF fopen_om
  <2>2. DOMAIN files' = FileNames /\ \A n \in FileNames \ {"om"} : files'[n] = files[n]
    BY <1>1, <2>1
  <2>3. saving'.at = "print" /\ IsSaving'
    BY <1>1, <2>1 DEF IsSaving, Places
  <2> QED
    BY <1>1, <2>2, <2>3, EndKeeps
<1> QED
  BY <1>2, <1>3

\* A record more, or the end of the process at the root's parent.
LEMMA PrintKeeps == BackupInv /\ (om_write_one_object_tfn \/ om_write_one_attribute) => BackupInv'
<1> SUFFICES ASSUME BackupInv, om_write_one_object_tfn \/ om_write_one_attribute,
                    ~Crash("om_write")
             PROVE  BackupInv'
  BY CrashKeepsFiles
<1>1. /\ saving.at = "print" /\ IsSaving /\ DOMAIN files = FileNames
      /\ files' = files /\ writes' = writes /\ first' = first
  BY DEF BackupInv, om_write_one_object_tfn, om_write_one_attribute
<1>2. saving'.at = "print" /\ IsSaving'
  <2>1. CASE om_write_one_attribute
    <3>1. PICK text, aids : saving' = [saving EXCEPT !.text = text, !.aids = aids]
      BY <2>1, Zenon DEF om_write_one_attribute
    <3> QED
      BY <1>1, <3>1 DEF IsSaving, Places
  <2>2. CASE om_write_one_object_tfn
    <3>1. PICK todo, text, aids : saving' = [saving EXCEPT !.todo = todo, !.text = text, !.aids = aids]
      BY <2>2, Zenon DEF om_write_one_object_tfn
    <3> QED
      BY <1>1, <3>1 DEF IsSaving, Places
  <2> QED
    BY <2>1, <2>2
<1> QED
  BY <1>1, <1>2, EndKeeps

LEMMA NextBackups == BackupInv /\ [OMNext]_omVars => BackupInv'
<1> SUFFICES ASSUME BackupInv, [OMNext]_omVars PROVE BackupInv'
  OBVIOUS
<1>1. ASSUME UNCHANGED onDisk PROVE BackupInv'
  BY <1>1 DEF onDisk, BackupInv, IsSaving, FirstIsAt, FirstIn
<1>2. CASE UNCHANGED omVars
  BY <1>1, <1>2 DEF omVars, onDisk
<1>3. CASE om_init \/ om_read
  BY <1>1, <1>3, Zenon DEF om_init, om_read
<1>4. CASE process_ends \/ om_object_create_fails
  BY <1>1, <1>4, CrashKeepsFiles DEF process_ends, om_object_create_fails
<1>5. ASSUME NEW p, NEW o, om_object_create(p, o) PROVE BackupInv'
  <2>1. UNCHANGED onDisk \/ Crash("om_object_create")
    BY <1>5 DEF om_object_create
  <2> QED
    BY <1>1, <2>1, CrashKeepsFiles
<1>6. ASSUME NEW o, om_parent_get(o) PROVE BackupInv'
  BY <1>1, <1>6, CrashKeepsFiles DEF om_parent_get
<1>7. ASSUME NEW o, NEW aid, om_attribute_remove(o, aid) PROVE BackupInv'
  BY <1>1, <1>7 DEF om_attribute_remove
<1>8. ASSUME NEW o, NEW aid, NEW value, om_attribute_add(o, aid, value) PROVE BackupInv'
  BY <1>1, <1>8 DEF om_attribute_add
<1> QED
  BY <1>2, <1>3, <1>4, <1>5, <1>6, <1>7, <1>8,
     WriteKeeps, RenameBackupKeeps, RenameKeeps, OpenKeeps, PrintKeeps DEF OMNext

LEMMA BackupInvSuffices == BackupInv => BackupsHold
<1> SUFFICES ASSUME BackupInv, ~NamesCanFail, first # NoFile, writes <= 2
             PROVE  FirstIn(FileNames)
  BY DEF BackupsHold, FirstFileIsLeft, FirstIn
<1>1. FirstIsAt /\ saving.at \in Places
  BY DEF BackupInv, IsSaving
<1> QED
  BY <1>1 DEF FirstIsAt, FirstIn, FileNames, Places

-----------------------------------------------------------------------------
(***************************************************************************)
(* ObjectManager: the objects                                              *)
(***************************************************************************)
AttributeSets == {f \in UNION {[A -> AttributeValues \cup {[length |-> 0, data |-> "none"]}] :
                                  A \in SUBSET (AttributeIds \cup {0})} : IsFiniteSet(DOMAIN f)}

ObjectRecords == [is_pointer : BOOLEAN, parent : ObjectIds \cup {RootsParent},
                  children : Seq(ObjectIds), attributes : AttributeSets]

\* What is true of any objects m with the parents that they were asked with,
\* those of a manager in use as those of a file that is half read.
ObjectsAre(m) == /\ DOMAIN m \subseteq ObjectIds /\ IsFiniteSet(DOMAIN m)
                 /\ m \in [DOMAIN m -> ObjectRecords]
                 /\ Root \in DOMAIN m /\ m[Root].parent = RootsParent

ParentsAre(m, a) == /\ DOMAIN a = DOMAIN m \ {Root}
                    /\ \A o \in DOMAIN a : m[o].parent = a[o]

PointersAre(m) == \A o \in DOMAIN m \ {Root} : m[o].is_pointer => m[o].parent \in DOMAIN m

\* o is a child of p in m.
ChildOf(m, o, p) == o \in DOMAIN m /\ m[o].parent = p /\ m[o].is_pointer

ChildrenAre(m) == \A p \in DOMAIN m : /\ IsInjective(m[p].children)
                                      /\ \A o \in ToSet(m[p].children) : ChildOf(m, o, p)

ObjectsOK(m, a) == ObjectsAre(m) /\ ParentsAre(m, a) /\ PointersAre(m) /\ ChildrenAre(m)

Resolved(m) == \A o \in DOMAIN m \ {Root} : m[o].parent \in DOMAIN m => m[o].is_pointer

FilesAre == \A n \in DOMAIN files : files[n] \in Seq(Records) \cup {NoFile}

ManagerOK == IF busy = "no"
             THEN objects = << >> /\ objectBlocks = 0 /\ asked = << >>
             ELSE /\ busy \in {"yes", "read"}
                  /\ ObjectsOK(objects, asked)
                  /\ busy = "read" => Resolved(objects)
                  /\ objectBlocks = BlocksOf(objects)

\* What om_write has before it are objects that are there, and what it has
\* printed are records.
SavingOK == /\ saving \in [at : Places, todo : Seq(ObjectIds),
                           aids : SUBSET (AttributeIds \cup {0}), text : Seq(Records)]
            /\ busy = "no" => saving.at = "no"
            /\ saving.at = "print" => \A i \in DOMAIN saving.todo : saving.todo[i] \in DOMAIN objects
            /\ died # "none" => busy = "no"

ManagerInv == DOMAIN files = FileNames /\ FilesAre /\ ManagerOK /\ SavingOK

LEMMA NoAttributes == << >> \in AttributeSets /\ Cardinality(DOMAIN << >>) = 0
<1>1. DOMAIN << >> = {}
  OBVIOUS
<1>2. << >> \in [{} -> AttributeValues \cup {[length |-> 0, data |-> "none"]}]
  OBVIOUS
<1>3. IsFiniteSet({}) /\ Cardinality({}) = 0
  BY FS_EmptySet
<1> QED
  BY <1>1, <1>2, <1>3 DEF AttributeSets

LEMMA AttributeSetIs ==
    ASSUME NEW f \in AttributeSets
    PROVE  IsFiniteSet(DOMAIN f) /\ Cardinality(DOMAIN f) \in Nat
BY FS_CardinalityType DEF AttributeSets

LEMMA PutAttribute ==
    ASSUME NEW f \in AttributeSets, NEW aid \in AttributeIds \cup {0},
           NEW v \in AttributeValues \cup {[length |-> 0, data |-> "none"]}
    PROVE  /\ Put(f, aid, v) \in AttributeSets
           /\ Cardinality(DOMAIN Put(f, aid, v)) =
                Cardinality(DOMAIN f) + (IF aid \in DOMAIN f THEN 0 ELSE 1)
<1> DEFINE V == AttributeValues \cup {[length |-> 0, data |-> "none"]}
           g == Put(f, aid, v)
<1>1. PICK A \in SUBSET (AttributeIds \cup {0}) : f \in [A -> V] /\ IsFiniteSet(A)
  BY DEF AttributeSets
<1>2. DOMAIN g = A \cup {aid} /\ g \in [A \cup {aid} -> V]
  BY <1>1 DEF Put
<1>3. IsFiniteSet(A \cup {aid}) /\ Cardinality(A \cup {aid}) =
          (IF aid \in A THEN Cardinality(A) ELSE Cardinality(A) + 1) /\ Cardinality(A) \in Nat
  BY <1>1, FS_AddElement, FS_CardinalityType
<1>4. g \in AttributeSets
  <2> HIDE DEF g
  <2> QED
    BY <1>1, <1>2, <1>3 DEF AttributeSets
<1> QED
  BY <1>1, <1>2, <1>3, <1>4

LEMMA DropAttribute ==
    ASSUME NEW f \in AttributeSets, NEW aid \in DOMAIN f
    PROVE  LET g == [a \in DOMAIN f \ {aid} |-> f[a]]
           IN  /\ g \in AttributeSets
               /\ Cardinality(DOMAIN g) = Cardinality(DOMAIN f) - 1
<1> DEFINE V == AttributeValues \cup {[length |-> 0, data |-> "none"]}
           g == [a \in DOMAIN f \ {aid} |-> f[a]]
<1>1. PICK A \in SUBSET (AttributeIds \cup {0}) : f \in [A -> V] /\ IsFiniteSet(A)
  BY DEF AttributeSets
<1>2. DOMAIN g = A \ {aid} /\ g \in [A \ {aid} -> V]
  BY <1>1
<1>3. IsFiniteSet(A \ {aid}) /\ Cardinality(A \ {aid}) = Cardinality(A) - 1
  BY <1>1, FS_RemoveElement
<1>4. g \in AttributeSets
  <2> HIDE DEF g
  <2> QED
    BY <1>1, <1>2, <1>3 DEF AttributeSets
<1> QED
  BY <1>1, <1>2, <1>3, <1>4

-----------------------------------------------------------------------------
\* How many attributes the objects of m have.
AttributesOf(m) == [o \in DOMAIN m |-> Cardinality(DOMAIN m[o].attributes)]

LEMMA BlocksIs ==
    ASSUME NEW m, ObjectsAre(m)
    PROVE  /\ BlocksOf(m) = Cardinality(DOMAIN m) + SumFunctionOnSet(AttributesOf(m), DOMAIN m)
           /\ DOMAIN AttributesOf(m) = DOMAIN m
           /\ \A o \in DOMAIN m : AttributesOf(m)[o] \in Int
           /\ \A o \in DOMAIN m : AttributesOf(m)[o] = Cardinality(DOMAIN m[o].attributes)
           /\ SumFunctionOnSet(AttributesOf(m), DOMAIN m) \in Int
           /\ Cardinality(DOMAIN m) \in Int
<1>1. \A o \in DOMAIN m : m[o].attributes \in AttributeSets
  BY DEF ObjectsAre, ObjectRecords
<1>2. DOMAIN AttributesOf(m) = DOMAIN m
      /\ \A o \in DOMAIN m : AttributesOf(m)[o] = Cardinality(DOMAIN m[o].attributes)
  BY DEF AttributesOf
<1>3. \A o \in DOMAIN m : AttributesOf(m)[o] \in Int
  BY <1>1, <1>2, AttributeSetIs
<1>4. BlocksOf(m) = Cardinality(DOMAIN m) + SumFunctionOnSet(AttributesOf(m), DOMAIN m)
  BY <1>2 DEF BlocksOf, SumFunction, AttributesOf
<1>5. IsFiniteSet(DOMAIN m) /\ Cardinality(DOMAIN m) \in Int
  BY FS_CardinalityType DEF ObjectsAre
<1>6. SumFunctionOnSet(AttributesOf(m), DOMAIN m) \in Int
  BY <1>3, <1>5, SumType
<1> QED
  BY <1>2, <1>3, <1>4, <1>5, <1>6

\* Objects with the same attributes are of as many blocks.
LEMMA SameBlocks ==
    ASSUME NEW m, NEW n, ObjectsAre(m), ObjectsAre(n), DOMAIN n = DOMAIN m,
           \A o \in DOMAIN m : n[o].attributes = m[o].attributes
    PROVE  BlocksOf(n) = BlocksOf(m)
<1>1. AttributesOf(n) = AttributesOf(m)
  BY DEF AttributesOf
<1> QED
  BY <1>1, BlocksIs

\* One more object is one more block.
LEMMA OneMoreBlock ==
    ASSUME NEW m, NEW n, ObjectsAre(m), ObjectsAre(n), NEW o,
           o \notin DOMAIN m, DOMAIN n = DOMAIN m \cup {o},
           \A q \in DOMAIN m : n[q].attributes = m[q].attributes, n[o].attributes = << >>
    PROVE  BlocksOf(n) = BlocksOf(m) + 1
<1> DEFINE D == DOMAIN m
           E == DOMAIN n
           f == AttributesOf(m)
           g == AttributesOf(n)
<1>1. /\ BlocksOf(m) = Cardinality(D) + SumFunctionOnSet(f, D)
      /\ SumFunctionOnSet(f, D) \in Int /\ Cardinality(D) \in Int
      /\ \A q \in D : f[q] \in Int /\ f[q] = Cardinality(DOMAIN m[q].attributes)
  BY BlocksIs
<1>2. /\ BlocksOf(n) = Cardinality(E) + SumFunctionOnSet(g, E)
      /\ \A q \in E : g[q] \in Int /\ g[q] = Cardinality(DOMAIN n[q].attributes)
  BY BlocksIs
<1>3. IsFiniteSet(D) /\ IsFiniteSet(E) /\ E = D \cup {o} /\ o \notin D /\ E \ {o} = D /\ o \in E
  BY DEF ObjectsAre
<1>4. g[o] = 0
  BY <1>2, <1>3, NoAttributes
<1>5. \A q \in D : f[q] = g[q]
  BY <1>1, <1>2, <1>3
<1> HIDE DEF D, E, f, g
<1>6. Cardinality(E) = Cardinality(D) + 1
  BY <1>3, FS_AddElement
<1>7. SumFunctionOnSet(g, E) = g[o] + SumFunctionOnSet(g, D)
  BY <1>2, <1>3, SumRemove
<1>8. SumFunctionOnSet(f, D) = SumFunctionOnSet(g, D)
  BY <1>1, <1>3, <1>5, SumSame
<1> QED
  BY <1>1, <1>2, <1>4, <1>6, <1>7, <1>8

\* The attributes of one object change.
LEMMA BlocksChange ==
    ASSUME NEW m, NEW n, ObjectsAre(m), ObjectsAre(n), NEW o \in DOMAIN m, DOMAIN n = DOMAIN m,
           \A q \in DOMAIN m \ {o} : n[q].attributes = m[q].attributes,
           NEW d \in Int,
           Cardinality(DOMAIN n[o].attributes) = Cardinality(DOMAIN m[o].attributes) + d
    PROVE  BlocksOf(n) = BlocksOf(m) + d
<1> DEFINE D == DOMAIN m
           f == AttributesOf(m)
           g == AttributesOf(n)
<1>1. /\ BlocksOf(m) = Cardinality(D) + SumFunctionOnSet(f, D)
      /\ SumFunctionOnSet(f, D) \in Int /\ Cardinality(D) \in Int
      /\ \A q \in D : f[q] \in Int /\ f[q] = Cardinality(DOMAIN m[q].attributes)
  BY BlocksIs
<1>2. /\ BlocksOf(n) = Cardinality(D) + SumFunctionOnSet(g, D)
      /\ \A q \in D : g[q] \in Int /\ g[q] = Cardinality(DOMAIN n[q].attributes)
  BY BlocksIs
<1>3. IsFiniteSet(D) /\ o \in D
  BY DEF ObjectsAre
<1>4. \A q \in D \ {o} : g[q] = f[q]
  BY <1>1, <1>2
<1>5. g[o] = f[o] + d
  BY <1>1, <1>2, <1>3
<1> HIDE DEF D, f, g
<1>6. SumFunctionOnSet(g, D) = SumFunctionOnSet(f, D) - f[o] + g[o]
  BY <1>1, <1>2, <1>3, <1>4, SumChange
<1>7. f[o] \in Int /\ g[o] \in Int
  BY <1>1, <1>2, <1>3
<1> QED
  BY <1>1, <1>2, <1>5, <1>6, <1>7

-----------------------------------------------------------------------------
LEMMA RootAloneOK == ObjectsOK(Put(<< >>, Root, RootObject), << >>) /\ BlocksOf(Put(<< >>, Root, RootObject)) = 1
<1> DEFINE m == Put(<< >>, Root, RootObject)
<1>1. DOMAIN m = {Root} /\ m[Root] = RootObject
  BY DEF Put
<1>2. IsFiniteSet({Root}) /\ Cardinality({Root}) = 1
  BY FS_Singleton
<1>3. RootObject \in ObjectRecords
  BY NoAttributes DEF RootObject, ObjectRecords
<1>4. ObjectsAre(m)
  <2>1. m \in [{Root} -> ObjectRecords]
    BY <1>1, <1>3 DEF Put
  <2> HIDE DEF m
  <2> QED
    BY <1>1, <1>2, <2>1, ObjectsAssumption DEF ObjectsAre, RootObject
<1>5. ParentsAre(m, << >>)
  <2>1. DOMAIN << >> = {}
    OBVIOUS
  <2> QED
    BY <1>1, <2>1 DEF ParentsAre
<1>6. PointersAre(m)
  BY <1>1 DEF PointersAre
<1>7. ChildrenAre(m)
  <2>1. m[Root].children = << >>
    BY <1>1 DEF RootObject
  <2>2. IsInjective(<< >>) /\ ToSet(<< >>) = {}
    BY DEF IsInjective, ToSet
  <2> HIDE DEF m
  <2> QED
    BY <1>1, <2>1, <2>2 DEF ChildrenAre
<1>8. BlocksOf(m) = 1
  <2>1. AttributesOf(m)[Root] = 0
    BY <1>1, NoAttributes DEF AttributesOf, RootObject
  <2>2. /\ BlocksOf(m) = Cardinality(DOMAIN m) + SumFunctionOnSet(AttributesOf(m), DOMAIN m)
    BY <1>4, BlocksIs
  <2> DEFINE f == AttributesOf(m)
  <2> HIDE DEF f
  <2>3. SumFunctionOnSet(f, {Root}) = 0
    BY <1>2, <2>1, SumZero DEF f
  <2> QED
    BY <1>1, <1>2, <2>2, <2>3 DEF f
<1> QED
  BY <1>4, <1>5, <1>6, <1>7, <1>8 DEF ObjectsOK

\* The objects with those of m changed in nothing but their attributes.
LEMMA AttributesChange ==
    ASSUME NEW m, NEW a, ObjectsOK(m, a), NEW o \in DOMAIN m, NEW at \in AttributeSets
    PROVE  LET n == [m EXCEPT ![o].attributes = at]
           IN  /\ ObjectsOK(n, a)
               /\ Resolved(m) => Resolved(n)
               /\ DOMAIN n = DOMAIN m /\ n[o].attributes = at
               /\ \A q \in DOMAIN m \ {o} : n[q] = m[q]
<1> DEFINE n == [m EXCEPT ![o].attributes = at]
<1>1. ObjectsAre(m) /\ ParentsAre(m, a) /\ PointersAre(m) /\ ChildrenAre(m)
  BY DEF ObjectsOK
<1>2. DOMAIN n = DOMAIN m /\ n \in [DOMAIN m -> ObjectRecords]
  BY <1>1 DEF ObjectsAre, ObjectRecords
<1>3. \A q \in DOMAIN m : n[q].parent = m[q].parent /\ n[q].is_pointer = m[q].is_pointer
                          /\ n[q].children = m[q].children
  BY <1>1 DEF ObjectsAre, ObjectRecords
<1>4. n[o].attributes = at
  BY <1>1 DEF ObjectsAre, ObjectRecords
<1>5. \A q \in DOMAIN m \ {o} : n[q] = m[q]
  OBVIOUS
<1> HIDE DEF n
<1>6. ObjectsAre(n)
  BY <1>1, <1>2, <1>3 DEF ObjectsAre
<1>7. ParentsAre(n, a)
  BY <1>1, <1>2, <1>3 DEF ParentsAre
<1>8. PointersAre(n)
  BY <1>1, <1>2, <1>3 DEF PointersAre
<1>9. ChildrenAre(n)
  BY <1>1, <1>2, <1>3 DEF ChildrenAre, ChildOf
<1>10. Resolved(m) => Resolved(n)
  BY <1>1, <1>2, <1>3 DEF Resolved
<1> QED
  BY <1>2, <1>4, <1>5, <1>6, <1>7, <1>8, <1>9, <1>10 DEF ObjectsOK, n

\* om_object_create_engine: also under a parent that is not there, or is none.
LEMMA CreateKeeps ==
    ASSUME NEW m, NEW a, ObjectsOK(m, a), NEW p \in ObjectIds \cup {RootsParent},
           NEW o \in ObjectIds \ DOMAIN m
    PROVE  /\ ObjectsOK(om_object_create_engine(m, p, o), Put(a, o, p))
           /\ BlocksOf(om_object_create_engine(m, p, o)) = BlocksOf(m) + 1
           /\ DOMAIN om_object_create_engine(m, p, o) = DOMAIN m \cup {o}
<1> DEFINE new == [is_pointer |-> p = o \/ p \in DOMAIN m, parent |-> p,
                   children |-> << >>, attributes |-> << >>]
           above == IF p \in DOMAIN m THEN [m EXCEPT ![p].children = <<o>> \o @] ELSE m
           n == om_object_create_engine(m, p, o)
           b == Put(a, o, p)
<1>1. ObjectsAre(m) /\ ParentsAre(m, a) /\ PointersAre(m) /\ ChildrenAre(m)
  BY DEF ObjectsOK
<1>2. n = Put(above, o, new)
  BY DEF om_object_create_engine, om_object_exists
<1>3. new \in ObjectRecords
  BY NoAttributes DEF ObjectRecords
<1>4. /\ DOMAIN above = DOMAIN m
      /\ \A q \in DOMAIN m :
           /\ above[q] \in ObjectRecords
           /\ above[q].parent = m[q].parent /\ above[q].is_pointer = m[q].is_pointer
           /\ above[q].attributes = m[q].attributes
           /\ above[q].children = IF q = p THEN <<o>> \o m[q].children ELSE m[q].children
  <2>1. \A q \in DOMAIN m : m[q] \in ObjectRecords
    BY <1>1 DEF ObjectsAre
  <2>2. CASE p \notin DOMAIN m
    <3>1. above = m
      BY <2>2
    <3> HIDE DEF above
    <3> QED
      BY <2>1, <2>2, <3>1
  <2>3. CASE p \in DOMAIN m
    <3>1. m[p] \in ObjectRecords /\ m[p].children \in Seq(ObjectIds)
      BY <2>1, <2>3 DEF ObjectRecords
    <3>2. <<o>> \o m[p].children \in Seq(ObjectIds)
      BY <3>1, ConsIs
    <3>3. DOMAIN above = DOMAIN m /\ \A q \in DOMAIN m \ {p} : above[q] = m[q]
      BY <2>3
    <3>4. above[p] = [m[p] EXCEPT !.children = <<o>> \o m[p].children]
      BY <2>3
    <3> HIDE DEF above
    <3> DEFINE l == <<o>> \o m[p].children
               r == m[p]
    <3>5. above[p] = [r EXCEPT !.children = l] /\ r \in ObjectRecords /\ l \in Seq(ObjectIds)
      BY <3>1, <3>2, <3>4
    <3> HIDE DEF l, r
    <3>6. /\ above[p] \in ObjectRecords
          /\ above[p].parent = r.parent /\ above[p].is_pointer = r.is_pointer
          /\ above[p].attributes = r.attributes /\ above[p].children = l
      BY <3>5 DEF ObjectRecords
    <3> QED
      BY <2>1, <2>3, <3>3, <3>6 DEF l, r
  <2> QED
    BY <2>2, <2>3
<1> HIDE DEF above, new
<1>5. DOMAIN n = DOMAIN m \cup {o} /\ n[o] = new /\ n \in [DOMAIN m \cup {o} -> ObjectRecords]
  BY <1>2, <1>3, <1>4 DEF Put
<1>6. \A q \in DOMAIN m : q # o /\ n[q] = above[q]
  BY <1>2, <1>4 DEF Put
<1> HIDE DEF n
<1>7. /\ new.is_pointer = (p = o \/ p \in DOMAIN m) /\ new.parent = p
      /\ new.children = << >> /\ new.attributes = << >>
  BY DEF new
<1>8. ObjectsAre(n)
  <2>1. IsFiniteSet(DOMAIN m \cup {o})
    BY <1>1, FS_AddElement DEF ObjectsAre
  <2> QED
    BY <1>1, <1>4, <1>5, <1>6, <2>1 DEF ObjectsAre
<1>9. ParentsAre(n, b)
  <2>1. DOMAIN b = DOMAIN a \cup {o} /\ b[o] = p /\ \A q \in DOMAIN a \ {o} : b[q] = a[q]
    BY DEF Put
  <2>2. o # Root
    BY <1>1 DEF ObjectsAre
  <2> HIDE DEF b
  <2> QED
    BY <1>1, <1>4, <1>5, <1>6, <1>7, <2>1, <2>2 DEF ParentsAre
<1>10. PointersAre(n)
  <2> SUFFICES ASSUME NEW q \in DOMAIN n \ {Root}, n[q].is_pointer PROVE n[q].parent \in DOMAIN n
    BY DEF PointersAre
  <2>1. CASE q = o
    <3>1. new.is_pointer /\ n[q].parent = p
      BY <1>5, <1>7, <2>1
    <3> QED
      BY <1>5, <1>7, <3>1
  <2>2. CASE q # o
    <3>1. q \in DOMAIN m \ {Root} /\ m[q].is_pointer /\ n[q].parent = m[q].parent
      BY <1>4, <1>5, <1>6, <2>2
    <3>2. m[q].parent \in DOMAIN m
      BY <1>1, <3>1 DEF PointersAre
    <3> QED
      BY <1>5, <3>1, <3>2
  <2> QED
    BY <2>1, <2>2
<1>11. ChildrenAre(n)
  <2>1. ASSUME NEW q \in DOMAIN m, NEW r, ChildOf(m, r, q) PROVE ChildOf(n, r, q)
    BY <1>4, <1>5, <1>6, <2>1 DEF ChildOf
  <2>2. ASSUME NEW q \in DOMAIN m, q # p
        PROVE IsInjective(n[q].children) /\ \A r \in ToSet(n[q].children) : ChildOf(n, r, q)
    <3>1. n[q].children = m[q].children
      BY <1>4, <1>6, <2>2
    <3> QED
      BY <1>1, <2>1, <3>1 DEF ChildrenAre
  <2>3. IsInjective(n[o].children) /\ ToSet(n[o].children) = {}
    BY <1>5, <1>7 DEF IsInjective, ToSet
  <2>4. ASSUME p \in DOMAIN m
        PROVE IsInjective(n[p].children) /\ \A r \in ToSet(n[p].children) : ChildOf(n, r, p)
    <3>1. n[p].children = <<o>> \o m[p].children /\ m[p].children \in Seq(ObjectIds)
      BY <1>1, <1>4, <1>6, <2>4 DEF ObjectsAre, ObjectRecords
    <3>2. \A r \in ToSet(m[p].children) : ChildOf(m, r, p)
      BY <1>1, <2>4 DEF ChildrenAre
    <3>3. o \notin ToSet(m[p].children) /\ IsInjective(m[p].children)
      BY <1>1, <2>4, <3>2 DEF ChildrenAre, ChildOf
    <3>4. IsInjective(n[p].children) /\ ToSet(n[p].children) = {o} \cup ToSet(m[p].children)
      BY <3>1, <3>3, ConsIs
    <3>5. ChildOf(n, o, p)
      BY <1>5, <1>7, <2>4 DEF ChildOf
    <3> QED
      BY <2>1, <2>4, <3>2, <3>4, <3>5
  <2> QED
    BY <1>5, <2>2, <2>3, <2>4 DEF ChildrenAre
<1>12. BlocksOf(n) = BlocksOf(m) + 1
  <2>1. \A q \in DOMAIN m : n[q].attributes = m[q].attributes
    BY <1>4, <1>6
  <2> QED
    BY <1>1, <1>5, <1>7, <1>8, <2>1, OneMoreBlock
<1> QED
  BY <1>5, <1>8, <1>9, <1>10, <1>11, <1>12 DEF ObjectsOK, n

\* om_resolve_all_parents: a pointer more is a pointer to what is there.
LEMMA ResolveKeeps ==
    ASSUME NEW m, NEW a, ObjectsOK(m, a)
    PROVE  /\ ObjectsOK(om_resolve_all_parents(m), a)
           /\ Resolved(om_resolve_all_parents(m))
           /\ BlocksOf(om_resolve_all_parents(m)) = BlocksOf(m)
<1> DEFINE n == om_resolve_all_parents(m)
<1>1. ObjectsAre(m) /\ ParentsAre(m, a) /\ PointersAre(m) /\ ChildrenAre(m)
  BY DEF ObjectsOK
<1>2. /\ DOMAIN n = DOMAIN m /\ n \in [DOMAIN m -> ObjectRecords]
      /\ \A q \in DOMAIN m :
           /\ n[q].parent = m[q].parent /\ n[q].children = m[q].children
           /\ n[q].attributes = m[q].attributes
           /\ n[q].is_pointer = (m[q].is_pointer \/ m[q].parent \in DOMAIN m)
  <2> DEFINE at(q) == IF m[q].parent \in DOMAIN m THEN [m[q] EXCEPT !.is_pointer = TRUE] ELSE m[q]
  <2>1. n = [q \in DOMAIN m |-> at(q)]
    BY DEF om_resolve_all_parents, om_object_exists
  <2>2. ASSUME NEW q \in DOMAIN m
        PROVE  /\ at(q) \in ObjectRecords
               /\ at(q).parent = m[q].parent /\ at(q).children = m[q].children
               /\ at(q).attributes = m[q].attributes
               /\ at(q).is_pointer = (m[q].is_pointer \/ m[q].parent \in DOMAIN m)
    <3>1. m[q] \in ObjectRecords
      BY <1>1 DEF ObjectsAre
    <3> QED
      BY <3>1 DEF ObjectRecords
  <2> HIDE DEF at, n
  <2> QED
    BY <2>1, <2>2
<1> HIDE DEF n
<1>3. ObjectsAre(n)
  BY <1>1, <1>2 DEF ObjectsAre
<1>4. ParentsAre(n, a)
  BY <1>1, <1>2 DEF ParentsAre
<1>5. PointersAre(n)
  BY <1>1, <1>2 DEF PointersAre
<1>6. ChildrenAre(n)
  <2>1. ASSUME NEW p \in DOMAIN m, NEW o, ChildOf(m, o, p) PROVE ChildOf(n, o, p)
    BY <1>2, <2>1 DEF ChildOf
  <2>2. ASSUME NEW p \in DOMAIN m
        PROVE IsInjective(n[p].children) /\ \A o \in ToSet(n[p].children) : ChildOf(n, o, p)
    <3>1. n[p].children = m[p].children
      BY <1>2
    <3>2. IsInjective(m[p].children) /\ \A o \in ToSet(m[p].children) : ChildOf(m, o, p)
      BY <1>1 DEF ChildrenAre
    <3> QED
      BY <2>1, <3>1, <3>2
  <2> QED
    BY <1>2, <2>2 DEF ChildrenAre
<1>7. Resolved(n)
  BY <1>1, <1>2 DEF Resolved
<1>8. BlocksOf(n) = BlocksOf(m)
  BY <1>1, <1>2, <1>3, SameBlocks
<1> QED
  BY <1>3, <1>4, <1>5, <1>6, <1>7, <1>8 DEF ObjectsOK, n
-----------------------------------------------------------------------------
\* What a pass has got to after any records.
PassOK(s) == /\ s \in [m : {s.m}, obj : ObjectIds \cup {RootsParent}, asked : {s.asked},
                       result : {"ok", "failed", "crash"}]
             /\ ObjectsOK(s.m, s.asked)
             /\ s.obj # RootsParent => s.obj \in DOMAIN s.m

LEMMA FreshOK == PassOK(Fresh)
BY RootAloneOK DEF Fresh, PassOK

LEMMA LoadObjectKeeps ==
    ASSUME NEW s, PassOK(s), NEW r \in Records
    PROVE  PassOK(load_object(s, r))
<1>1. /\ s \in [m : {s.m}, obj : ObjectIds \cup {RootsParent}, asked : {s.asked},
                result : {"ok", "failed", "crash"}]
      /\ ObjectsOK(s.m, s.asked)
      /\ s.obj # RootsParent => s.obj \in DOMAIN s.m
  BY DEF PassOK
<1>2. r.id \in ObjectIds \cup {RootsParent} /\ r.parent \in ObjectIds \cup {RootsParent}
  BY DEF Records
<1>3. \A x \in {"failed", "crash"} : PassOK([s EXCEPT !.result = x])
  BY <1>1 DEF PassOK
<1>4. CASE r.id \in DOMAIN s.m
  <2>1. PassOK([s EXCEPT !.obj = r.id])
    BY <1>1, <1>2, <1>4 DEF PassOK
  <2>2. load_object(s, r) \in {[s EXCEPT !.result = "failed"], [s EXCEPT !.result = "crash"],
                               [s EXCEPT !.obj = r.id]}
    BY <1>4 DEF load_object, om_object_exists
  <2> QED
    BY <1>3, <2>1, <2>2
<1>5. CASE r.id \notin DOMAIN s.m /\ r.id # RootsParent /\ r.whole
  <2> DEFINE n == om_object_create_engine(s.m, r.parent, r.id)
             b == Put(s.asked, r.id, r.parent)
             t == [s EXCEPT !.m = n, !.obj = r.id, !.asked = b]
  <2>1. ObjectsOK(n, b) /\ DOMAIN n = DOMAIN s.m \cup {r.id}
    BY <1>1, <1>2, <1>5, CreateKeeps
  <2>2. load_object(s, r) = t
    BY <1>5 DEF load_object, om_object_exists
  <2> HIDE DEF n, b
  <2>3. PassOK(t)
    BY <1>1, <1>2, <2>1 DEF PassOK
  <2> QED
    BY <2>2, <2>3
<1>6. CASE r.id = RootsParent \/ ~r.whole
  BY <1>3, <1>6 DEF load_object
<1> QED
  BY <1>4, <1>5, <1>6

LEMMA LoadAttributeKeeps ==
    ASSUME NEW s, PassOK(s), NEW r \in Records
    PROVE  PassOK(load_attribute_id(s, r))
<1>1. /\ s \in [m : {s.m}, obj : ObjectIds \cup {RootsParent}, asked : {s.asked},
                result : {"ok", "failed", "crash"}]
      /\ ObjectsOK(s.m, s.asked)
      /\ s.obj # RootsParent => s.obj \in DOMAIN s.m
  BY DEF PassOK
<1>2. CASE ~r.whole \/ s.obj = RootsParent
  BY <1>1, <1>2 DEF PassOK, load_attribute_id
<1>3. CASE r.whole /\ s.obj # RootsParent
  <2> DEFINE v == [length |-> 0, data |-> "none"]
             at == Put(s.m[s.obj].attributes, r.aid, v)
             n == [s.m EXCEPT ![s.obj].attributes = at]
  <2>1. s.obj \in DOMAIN s.m /\ s.m[s.obj].attributes \in AttributeSets
    BY <1>1, <1>3 DEF ObjectsOK, ObjectsAre, ObjectRecords
  <2>2. r.aid \in AttributeIds \cup {0}
    BY DEF Records
  <2>3. at \in AttributeSets
    BY <2>1, <2>2, PutAttribute
  <2>4. load_attribute_id(s, r) = [s EXCEPT !.m = n]
    BY <1>1, <1>3 DEF load_attribute_id
  <2> HIDE DEF v, at
  <2>5. ObjectsOK(n, s.asked) /\ DOMAIN n = DOMAIN s.m
    BY <1>1, <2>1, <2>3, AttributesChange
  <2> HIDE DEF n
  <2>6. PassOK([s EXCEPT !.m = n])
    BY <1>1, <2>5 DEF PassOK
  <2> QED
    BY <2>4, <2>6
<1> QED
  BY <1>2, <1>3

LEMMA LoadedKeeps ==
    ASSUME NEW s, PassOK(s), NEW r \in Records
    PROVE  PassOK(Loaded(s, r))
BY LoadObjectKeeps, LoadAttributeKeeps DEF Loaded

\* The pass over the first n records of a file, as Load has it, is there.
Pass(file, n, f) == f = [k \in 0 .. n |-> IF k = 0 THEN Fresh ELSE Loaded(f[k - 1], file[k])]

LEMMA PassExists ==
    ASSUME NEW file, NEW n \in Nat
    PROVE  \E f : Pass(file, n, f)
<1> DEFINE Good == {k \in 0 .. n : \E f : Pass(file, k, f)}
<1>1. 0 \in Good
  <2> DEFINE f == [k \in 0 .. 0 |-> Fresh]
  <2>1. Pass(file, 0, f)
    BY DEF Pass
  <2> QED
    BY <2>1
<1>2. ASSUME NEW k \in 0 .. n - 1, k \in Good PROVE k + 1 \in Good
  <2>1. PICK f : Pass(file, k, f)
    BY <1>2
  <2>2. \A j \in 0 .. k : f[j] = IF j = 0 THEN Fresh ELSE Loaded(f[j - 1], file[j])
    BY <2>1, Zenon DEF Pass
  <2> DEFINE g == [j \in 0 .. k + 1 |-> IF j = k + 1 THEN Loaded(f[k], file[j]) ELSE f[j]]
             h == [j \in 0 .. k + 1 |-> IF j = 0 THEN Fresh ELSE Loaded(g[j - 1], file[j])]
  <2>3. ASSUME NEW j \in 0 .. k + 1 PROVE g[j] = h[j]
    <3>1. CASE j = k + 1
      <4>1. k \in 0 .. k + 1 /\ k # k + 1 /\ j - 1 = k /\ j # 0
        BY <3>1
      <4>2. g[k] = f[k]
        BY <4>1
      <4> QED
        BY <3>1, <4>1, <4>2
    <3>2. CASE j # k + 1 /\ j # 0
      <4>1. j \in 0 .. k /\ j - 1 \in 0 .. k + 1 /\ j - 1 # k + 1
        BY <3>2
      <4>2. g[j] = f[j] /\ g[j - 1] = f[j - 1]
        BY <3>2, <4>1
      <4>3. h[j] = Loaded(g[j - 1], file[j])
        BY <3>2
      <4> HIDE DEF g, h
      <4> QED
        BY <2>2, <3>2, <4>1, <4>2, <4>3
    <3>3. CASE j = 0
      <4>1. j # k + 1 /\ j \in 0 .. k
        BY <3>3
      <4>2. g[j] = f[j] /\ h[j] = Fresh
        BY <3>3, <4>1
      <4> QED
        BY <2>2, <3>3, <4>1, <4>2
    <3> QED
      BY <3>1, <3>2, <3>3
  <2>4. g = h
    <3>1. DOMAIN g = 0 .. k + 1 /\ DOMAIN h = 0 .. k + 1
      OBVIOUS
    <3>2. g = [j \in 0 .. k + 1 |-> g[j]] /\ h = [j \in 0 .. k + 1 |-> h[j]]
      OBVIOUS
    <3> HIDE DEF g, h
    <3> QED
      BY <2>3, <3>2, Zenon
  <2>5. Pass(file, k + 1, g)
    BY <2>4, Zenon DEF Pass
  <2> QED
    BY <2>5
<1> HIDE DEF Good
<1>3. 0 .. n \subseteq Good
  BY <1>1, <1>2, NatSetInduction
<1> QED
  BY <1>3 DEF Good

LEMMA LoadOK ==
    ASSUME NEW file \in Seq(Records)
    PROVE  PassOK(Load(file))
<1> DEFINE n == Len(file)
           after == CHOOSE f : f = [k \in 0 .. n |-> IF k = 0 THEN Fresh ELSE Loaded(f[k - 1], file[k])]
           Good == {k \in 0 .. n : PassOK(after[k])}
<1>1. n \in Nat
  OBVIOUS
<1>2. Load(file) = after[n]
  BY DEF Load
<1>3. Pass(file, n, after)
  <2>1. \E f : f = [k \in 0 .. n |-> IF k = 0 THEN Fresh ELSE Loaded(f[k - 1], file[k])]
    BY <1>1, PassExists DEF Pass
  <2> QED
    BY <2>1, Zenon DEF Pass
<1> HIDE DEF after
<1>4. \A k \in 0 .. n : after[k] = IF k = 0 THEN Fresh ELSE Loaded(after[k - 1], file[k])
  BY <1>3, Zenon DEF Pass
<1>5. 0 \in Good
  BY <1>1, <1>4, FreshOK
<1>6. ASSUME NEW k \in 0 .. n - 1, k \in Good PROVE k + 1 \in Good
  <2>1. k + 1 \in 0 .. n /\ k + 1 # 0 /\ (k + 1) - 1 = k
    BY <1>1
  <2>2. after[k + 1] = Loaded(after[k], file[k + 1])
    BY <1>4, <2>1
  <2>3. PassOK(after[k]) /\ file[k + 1] \in Records
    BY <1>6, <2>1
  <2> QED
    BY <2>1, <2>2, <2>3, LoadedKeeps
<1> HIDE DEF Good
<1>7. 0 .. n \subseteq Good
  BY <1>1, <1>5, <1>6, NatSetInduction
<1> QED
  BY <1>1, <1>2, <1>7 DEF Good
-----------------------------------------------------------------------------
LEMMA CutIsRecord ==
    ASSUME NEW r \in Records, NEW c \in Cut(r)
    PROVE  c \in Records
<1>1. CASE c = [r EXCEPT !.whole = FALSE]
  BY <1>1 DEF Records
<1>2. CASE \E o \in ObjectIds : c = [r EXCEPT !.id = o]
  BY <1>2 DEF Records
<1>3. CASE \E a \in AttributeIds : c = [r EXCEPT !.aid = a]
  BY <1>3 DEF Records
<1> QED
  BY <1>1, <1>2, <1>3 DEF Cut

\* What is left of a file that was not closed is records.
LEMMA FlushedAreRecords ==
    ASSUME NEW text \in Seq(Records), NEW left \in Flushed(text)
    PROVE  left \in Seq(Records)
<1>1. \A n \in 0 .. Len(text) : SubSeq(text, 1, n) \in Seq(Records)
  <2> TAKE n \in 0 .. Len(text)
  <2>1. \A i \in 1 .. n : text[i] \in Records
    OBVIOUS
  <2> QED
    BY <2>1
<1>2. CASE \E n \in 0 .. Len(text) : left = SubSeq(text, 1, n)
  BY <1>1, <1>2
<1>3. CASE \E n \in 1 .. Len(text) : \E r \in Cut(text[n]) : left = Append(SubSeq(text, 1, n - 1), r)
  <2>1. PICK n \in 1 .. Len(text) : \E r \in Cut(text[n]) : left = Append(SubSeq(text, 1, n - 1), r)
    BY <1>3
  <2>2. PICK r \in Cut(text[n]) : left = Append(SubSeq(text, 1, n - 1), r)
    BY <2>1
  <2>3. text[n] \in Records /\ n - 1 \in 0 .. Len(text)
    OBVIOUS
  <2>4. r \in Records
    BY <2>3, CutIsRecord
  <2>5. SubSeq(text, 1, n - 1) \in Seq(Records)
    BY <1>1, <2>3
  <2> QED
    BY <2>2, <2>4, <2>5
<1> QED
  BY <1>2, <1>3 DEF Flushed

\* A call that ends the process, or does nothing.
LEMMA CrashKeeps ==
    ASSUME ManagerInv, NEW step, Crash(step)
    PROVE  ManagerInv'
<1>1. /\ objects' = << >> /\ objectBlocks' = 0 /\ busy' = "no" /\ asked' = << >>
      /\ saving' = NotSaving
  BY DEF Crash
<1>2. ManagerOK'
  BY <1>1 DEF ManagerOK
<1>3. SavingOK'
  <2>1. << >> \in Seq(ObjectIds) /\ << >> \in Seq(Records)
    OBVIOUS
  <2> QED
    BY <1>1, <2>1 DEF SavingOK, NotSaving, Places
<1>4. DOMAIN files = FileNames /\ FilesAre /\ saving.text \in Seq(Records)
  BY DEF ManagerInv, SavingOK
<1>5. DOMAIN files' = FileNames /\ FilesAre'
  <2>1. CASE saving.at = "print"
    <3>1. PICK left \in Flushed(saving.text) : files' = [files EXCEPT !["om"] = left]
      BY <2>1, Zenon DEF Crash
    <3>2. left \in Seq(Records)
      BY <1>4, <3>1, FlushedAreRecords
    <3> QED
      BY <1>4, <3>1, <3>2 DEF FilesAre
  <2>2. CASE saving.at # "print"
    <3>1. files' = files
      BY <2>2 DEF Crash
    <3> QED
      BY <1>4, <3>1 DEF FilesAre
  <2> QED
    BY <2>1, <2>2
<1> QED
  BY <1>2, <1>3, <1>5 DEF ManagerInv

LEMMA SameManager == ManagerInv /\ UNCHANGED inMemory /\ UNCHANGED onDisk => ManagerInv'
BY DEF ManagerInv, ManagerOK, FilesAre, SavingOK, inMemory, onDisk

\* A manager in use has the root, and no other has an object.
LEMMA InUse ==
    ASSUME ManagerInv
    PROVE  /\ busy \in {"no", "yes", "read"}
           /\ busy # "no" => /\ ObjectsOK(objects, asked) /\ objectBlocks = BlocksOf(objects)
                             /\ busy = "read" => Resolved(objects)
           /\ busy = "no" => objects = << >> /\ objectBlocks = 0 /\ asked = << >>
BY DEF ManagerInv, ManagerOK

LEMMA SomeObject ==
    ASSUME ManagerInv, NEW o, o \in DOMAIN objects
    PROVE  busy # "no"
BY DEF ManagerInv, ManagerOK

LEMMA InitManager == OMInit => ManagerInv
<1> SUFFICES ASSUME OMInit PROVE ManagerInv
  OBVIOUS
<1>1. DOMAIN files = FileNames /\ FilesAre /\ ManagerOK
  BY FilesAssumption DEF OMInit, ManagerOK, FilesAre
<1>2. << >> \in Seq(ObjectIds) /\ << >> \in Seq(Records)
  OBVIOUS
<1>3. SavingOK
  BY <1>2 DEF OMInit, SavingOK, NotSaving, Places
<1> QED
  BY <1>1, <1>3 DEF ManagerInv

LEMMA InitKeeps == ManagerInv /\ om_init => ManagerInv'
<1> SUFFICES ASSUME ManagerInv, om_init PROVE ManagerInv'
  OBVIOUS
<1>1. DOMAIN files' = FileNames /\ FilesAre' /\ SavingOK'
  BY DEF om_init, onDisk, ManagerInv, FilesAre, SavingOK
<1>2. /\ objects' = Put(<< >>, Root, RootObject) /\ objectBlocks' = 1
      /\ busy' = "yes" /\ asked' = << >>
  BY DEF om_init
<1>3. ManagerOK'
  BY <1>2, RootAloneOK DEF ManagerOK
<1> QED
  BY <1>1, <1>3 DEF ManagerInv

LEMMA CreationKeeps ==
    ASSUME ManagerInv, NEW p \in ObjectIds, NEW o \in ObjectIds, om_object_create(p, o)
    PROVE  ManagerInv'
<1>1. CASE o \in DOMAIN objects \/ Crash("om_object_create")
  <2>1. UNCHANGED <<inMemory, onDisk>> \/ Crash("om_object_create")
    BY <1>1 DEF om_object_create, om_object_exists
  <2> QED
    BY <2>1, CrashKeeps, SameManager
<1>2. CASE o \notin DOMAIN objects /\ ~Crash("om_object_create")
  <2>1. /\ objects' = om_object_create_engine(objects, p, o)
        /\ objectBlocks' = objectBlocks + 1
        /\ asked' = Put(asked, o, p) /\ busy' = "yes" /\ busy # "no"
        /\ UNCHANGED <<onDisk, died>> /\ saving.at = "no"
    BY <1>2 DEF om_object_create, om_object_exists, CanChange
  <2>2. ObjectsOK(objects, asked) /\ objectBlocks = BlocksOf(objects)
    BY <2>1, InUse
  <2>3. ObjectsOK(objects', asked') /\ BlocksOf(objects') = objectBlocks'
    BY <1>2, <2>1, <2>2, CreateKeeps
  <2>4. ManagerOK'
    BY <2>1, <2>3 DEF ManagerOK
  <2>5. SavingOK'
    BY <2>1 DEF ManagerInv, SavingOK, onDisk
  <2> QED
    BY <2>1, <2>4, <2>5 DEF ManagerInv, FilesAre, onDisk
<1> QED
  BY <1>1, <1>2

\* The attributes of one object change, and the blocks as many.
LEMMA AttributesKeep ==
    ASSUME ManagerInv, NEW o \in DOMAIN objects, NEW at \in AttributeSets, NEW d \in Int,
           Cardinality(DOMAIN at) = Cardinality(DOMAIN objects[o].attributes) + d,
           objects' = [objects EXCEPT ![o].attributes = at],
           objectBlocks' = objectBlocks + d,
           busy' = "yes", UNCHANGED <<onDisk, died, asked, creates>>, CanChange
    PROVE  ManagerInv'
<1> DEFINE n == [objects EXCEPT ![o].attributes = at]
<1>1. busy # "no"
  BY SomeObject
<1>2. ObjectsOK(objects, asked) /\ objectBlocks = BlocksOf(objects)
  BY <1>1, InUse
<1>3. /\ ObjectsOK(n, asked) /\ DOMAIN n = DOMAIN objects /\ n[o].attributes = at
      /\ \A q \in DOMAIN objects \ {o} : n[q] = objects[q]
  BY <1>2, AttributesChange
<1>4. objects' = n
  OBVIOUS
<1> HIDE DEF n
<1>5. BlocksOf(n) = BlocksOf(objects) + d
  BY <1>2, <1>3, BlocksChange DEF ObjectsOK
<1>6. ManagerOK'
  BY <1>2, <1>3, <1>4, <1>5 DEF ManagerOK
<1>7. SavingOK'
  BY DEF ManagerInv, SavingOK, onDisk, CanChange
<1> QED
  BY <1>6, <1>7 DEF ManagerInv, FilesAre, onDisk

LEMMA AddKeeps ==
    ASSUME ManagerInv, NEW o \in ObjectIds, NEW aid \in AttributeIds, NEW value \in AttributeValues,
           om_attribute_add(o, aid, value)
    PROVE  ManagerInv'
<1> DEFINE f == objects[o].attributes
           at == Put(f, aid, value)
           d == IF aid \in DOMAIN f THEN 0 ELSE 1
<1>1. /\ o \in DOMAIN objects
      /\ objects' = [objects EXCEPT ![o].attributes = at]
      /\ objectBlocks' = objectBlocks + d
      /\ busy' = "yes" /\ UNCHANGED <<onDisk, died, asked, creates>> /\ CanChange
  BY DEF om_attribute_add, attribute_add_engine, om_object_exists, get_attribute_pointer
<1>2. f \in AttributeSets
  BY <1>1, SomeObject, InUse DEF ObjectsOK, ObjectsAre, ObjectRecords
<1>3. at \in AttributeSets /\ Cardinality(DOMAIN at) = Cardinality(DOMAIN f) + d
  BY <1>2, PutAttribute
<1>4. d \in Int
  OBVIOUS
<1> HIDE DEF at, d
<1> QED
  BY <1>1, <1>3, <1>4, AttributesKeep

LEMMA RemoveKeeps ==
    ASSUME ManagerInv, NEW o \in ObjectIds, NEW aid \in AttributeIds,
           om_attribute_remove(o, aid)
    PROVE  ManagerInv'
<1> DEFINE f == objects[o].attributes
           at == [a \in DOMAIN f \ {aid} |-> f[a]]
<1>1. /\ o \in DOMAIN objects /\ aid \in DOMAIN f
      /\ objects' = [objects EXCEPT ![o].attributes = at]
      /\ objectBlocks' = objectBlocks - 1
      /\ busy' = "yes" /\ UNCHANGED <<onDisk, died, asked, creates>> /\ CanChange
  BY DEF om_attribute_remove, om_object_exists, get_attribute_pointer
<1>2. busy # "no"
  BY <1>1, SomeObject
<1>3. f \in AttributeSets /\ objectBlocks \in Int
  <2>1. ObjectsAre(objects) /\ objectBlocks = BlocksOf(objects)
    BY <1>2, InUse DEF ObjectsOK
  <2>2. BlocksOf(objects) \in Int
    BY <2>1, BlocksIs
  <2> QED
    BY <1>1, <2>1, <2>2 DEF ObjectsAre, ObjectRecords
<1>4. at \in AttributeSets /\ Cardinality(DOMAIN at) = Cardinality(DOMAIN f) - 1
      /\ Cardinality(DOMAIN f) \in Int
  <2>1. f \in AttributeSets /\ aid \in DOMAIN f
    BY <1>1, <1>3
  <2> HIDE DEF f
  <2> QED
    BY <2>1, DropAttribute, AttributeSetIs
<1> DEFINE d == -1
<1>5. d \in Int /\ objectBlocks' = objectBlocks + d /\ Cardinality(DOMAIN at) = Cardinality(DOMAIN f) + d
  BY <1>1, <1>3, <1>4
<1> HIDE DEF at, d
<1> QED
  BY <1>1, <1>4, <1>5, AttributesKeep

\* om_write's steps leave the objects as they are.
LEMMA WriteKeepsObjects ==
    ASSUME ManagerInv, UNCHANGED inMemory, DOMAIN files' = FileNames, FilesAre',
           saving' \in [at : Places, todo : Seq(ObjectIds),
                        aids : SUBSET (AttributeIds \cup {0}), text : Seq(Records)],
           busy # "no",
           saving'.at = "print" => \A i \in DOMAIN saving'.todo : saving'.todo[i] \in DOMAIN objects
    PROVE  ManagerInv'
<1>1. ManagerOK'
  BY DEF ManagerInv, ManagerOK, inMemory
<1>2. SavingOK'
  BY DEF ManagerInv, SavingOK, inMemory
<1> QED
  BY <1>1, <1>2 DEF ManagerInv

LEMMA RenameKeepsObjects ==
    ManagerInv /\ (om_write \/ rename_backup \/ rename_om) => ManagerInv'
<1> SUFFICES ASSUME ManagerInv, om_write \/ rename_backup \/ rename_om PROVE ManagerInv'
  OBVIOUS
<1>1. /\ DOMAIN files = FileNames /\ FilesAre
      /\ saving \in [at : Places, todo : Seq(ObjectIds),
                     aids : SUBSET (AttributeIds \cup {0}), text : Seq(Records)]
      /\ busy = "no" => saving.at = "no"
  BY DEF ManagerInv, SavingOK
<1>2. UNCHANGED inMemory /\ busy # "no"
  BY <1>1 DEF om_write, CanChange, rename_backup, rename_om
<1>3. PICK place \in Places \ {"no", "print"} : saving' = [saving EXCEPT !.at = place]
  BY DEF om_write, rename_backup, rename_om, Places
<1>4. ASSUME NEW n \in FileNames
      PROVE  DOMAIN files' = FileNames /\ files'[n] \in Seq(Records) \cup {NoFile}
  BY <1>1 DEF om_write, rename_backup, rename_om, Renamed, FilesAre, FileNames
<1>5. DOMAIN files' = FileNames /\ FilesAre'
  BY <1>4 DEF FilesAre, FileNames
<1>6. saving' \in [at : Places, todo : Seq(ObjectIds),
                   aids : SUBSET (AttributeIds \cup {0}), text : Seq(Records)]
      /\ saving'.at = place
  BY <1>1, <1>3
<1> QED
  BY <1>2, <1>5, <1>6, WriteKeepsObjects

LEMMA OpenKeepsObjects == ManagerInv /\ fopen_om => ManagerInv'
<1> SUFFICES ASSUME ManagerInv, fopen_om PROVE ManagerInv'
  OBVIOUS
<1>1. /\ DOMAIN files = FileNames /\ FilesAre /\ saving.at = "fopen" /\ busy # "no"
      /\ saving \in [at : Places, todo : Seq(ObjectIds),
                     aids : SUBSET (AttributeIds \cup {0}), text : Seq(Records)]
      /\ UNCHANGED inMemory
  BY DEF ManagerInv, SavingOK, fopen_om
<1>2. << >> \in Seq(ObjectIds) /\ << >> \in Seq(Records)
  OBVIOUS
<1>3. CASE saving' = NotSaving /\ UNCHANGED files
  <2>1. saving' \in [at : Places, todo : Seq(ObjectIds),
                     aids : SUBSET (AttributeIds \cup {0}), text : Seq(Records)]
        /\ saving'.at = "no"
    BY <1>2, <1>3 DEF NotSaving, Places
  <2>2. DOMAIN files' = FileNames /\ FilesAre'
    BY <1>1, <1>3 DEF FilesAre
  <2> QED
    BY <1>1, <2>1, <2>2, WriteKeepsObjects
<1>4. CASE ~(saving' = NotSaving /\ UNCHANGED files)
  <2>1. PICK order \in WalkOrders :
          /\ ToSet(order) = DOMAIN objects
          /\ files' = [files EXCEPT !["om"] = << >>]
          /\ saving' = [saving EXCEPT !.at = "print", !.todo = order]
    BY <1>4, Zenon DEF fopen_om
  <2>2. order \in Seq(ObjectIds) /\ \A i \in DOMAIN order : order[i] \in DOMAIN objects
    BY <2>1, WalksAssumption DEF ToSet
  <2>3. saving' \in [at : Places, todo : Seq(ObjectIds),
                     aids : SUBSET (AttributeIds \cup {0}), text : Seq(Records)]
        /\ saving'.todo = order
    BY <1>1, <2>1, <2>2 DEF Places
  <2>4. DOMAIN files' = FileNames /\ FilesAre'
    BY <1>1, <1>2, <2>1 DEF FilesAre
  <2> QED
    BY <1>1, <2>2, <2>3, <2>4, WriteKeepsObjects
<1> QED
  BY <1>3, <1>4

LEMMA PrintKeepsObjects ==
    ManagerInv /\ (om_write_one_object_tfn \/ om_write_one_attribute) => ManagerInv'
<1> SUFFICES ASSUME ManagerInv, om_write_one_object_tfn \/ om_write_one_attribute,
                    ~Crash("om_write")
             PROVE  ManagerInv'
  BY CrashKeeps
<1>1. /\ DOMAIN files = FileNames /\ FilesAre /\ saving.at = "print" /\ busy # "no"
      /\ saving \in [at : Places, todo : Seq(ObjectIds),
                     aids : SUBSET (AttributeIds \cup {0}), text : Seq(Records)]
      /\ \A i \in DOMAIN saving.todo : saving.todo[i] \in DOMAIN objects
      /\ UNCHANGED inMemory /\ files' = files
  BY DEF ManagerInv, SavingOK, om_write_one_object_tfn, om_write_one_attribute
<1>2. DOMAIN files' = FileNames /\ FilesAre'
  BY <1>1 DEF FilesAre
<1>3. CASE om_write_one_object_tfn
  <2> DEFINE o == Head(saving.todo)
             r == [acronym |-> "OBJ", parent |-> objects[o].parent, id |-> o,
                   aid |-> 0, whole |-> TRUE]
             aids == DOMAIN objects[o].attributes
             text == Append(saving.text, r)
             todo == Tail(saving.todo)
  <2>1. saving.todo # << >> /\ saving' = [saving EXCEPT !.todo = todo, !.text = text, !.aids = aids]
    BY <1>3 DEF om_write_one_object_tfn
  <2>2. o \in DOMAIN objects /\ o \in ObjectIds
    BY <1>1, <2>1
  <2>3. /\ todo \in Seq(ObjectIds)
        /\ \A i \in DOMAIN todo : todo[i] \in DOMAIN objects
    BY <1>1, <2>1
  <2>4. objects[o] \in ObjectRecords
    BY <1>1, <2>2, InUse DEF ObjectsOK, ObjectsAre
  <2>5. r \in Records
    BY <2>2, <2>4 DEF Records, ObjectRecords
  <2>6. text \in Seq(Records)
    BY <1>1, <2>5
  <2>7. aids \subseteq AttributeIds \cup {0}
    BY <2>4 DEF ObjectRecords, AttributeSets
  <2> HIDE DEF text, todo, aids
  <2>8. saving' \in [at : Places, todo : Seq(ObjectIds),
                     aids : SUBSET (AttributeIds \cup {0}), text : Seq(Records)]
        /\ saving'.todo = todo
    BY <1>1, <2>1, <2>3, <2>6, <2>7
  <2> QED
    BY <1>1, <1>2, <2>3, <2>8, WriteKeepsObjects
<1>4. CASE om_write_one_attribute
  <2>1. PICK a \in saving.aids :
          saving' = [saving EXCEPT !.text = Append(saving.text,
                                     [acronym |-> "AID", parent |-> RootsParent,
                                      id |-> RootsParent, aid |-> a, whole |-> TRUE]),
                                   !.aids = saving.aids \ {a}]
    BY <1>4, Zenon DEF om_write_one_attribute
  <2> DEFINE r == [acronym |-> "AID", parent |-> RootsParent, id |-> RootsParent,
                   aid |-> a, whole |-> TRUE]
             text == Append(saving.text, r)
  <2>2. r \in Records
    BY <1>1 DEF Records
  <2>3. text \in Seq(Records)
    BY <1>1, <2>2
  <2>4. saving' = [saving EXCEPT !.text = text, !.aids = saving.aids \ {a}]
    BY <2>1
  <2> HIDE DEF text
  <2>5. saving' \in [at : Places, todo : Seq(ObjectIds),
                     aids : SUBSET (AttributeIds \cup {0}), text : Seq(Records)]
        /\ saving'.todo = saving.todo
    BY <1>1, <2>3, <2>4
  <2> QED
    BY <1>1, <1>2, <2>5, WriteKeepsObjects
<1> QED
  BY <1>3, <1>4

LEMMA ReadKeeps == ManagerInv /\ om_read => ManagerInv'
<1> SUFFICES ASSUME ManagerInv, om_read PROVE ManagerInv'
  OBVIOUS
<1> DEFINE s == Load(files["om"])
<1>1. files["om"] \in Seq(Records)
  BY DEF om_read, ManagerInv, FilesAre, FileNames
<1>2. PassOK(s)
  BY <1>1, LoadOK
<1>3. DOMAIN files' = FileNames /\ FilesAre' /\ UNCHANGED saving /\ saving.at = "no"
  BY DEF om_read, onDisk, ManagerInv, FilesAre, SavingOK
<1>4. \/ UNCHANGED <<objects, objectBlocks, busy, asked>>
      \/ /\ objects' = IF s.result = "ok" THEN om_resolve_all_parents(s.m) ELSE s.m
         /\ objectBlocks' = BlocksOf(s.m)
         /\ asked' = s.asked
         /\ busy' = IF s.result = "ok" THEN "read" ELSE "yes"
         /\ died' = "none"
  BY DEF om_read
<1> HIDE DEF s
<1>5. CASE UNCHANGED <<objects, objectBlocks, busy, asked>>
  <2>1. busy = "no"
    BY DEF om_read
  <2> QED
    BY <1>3, <1>5, <2>1 DEF ManagerInv, ManagerOK, SavingOK
<1>6. CASE /\ objects' = IF s.result = "ok" THEN om_resolve_all_parents(s.m) ELSE s.m
           /\ objectBlocks' = BlocksOf(s.m)
           /\ asked' = s.asked
           /\ busy' = IF s.result = "ok" THEN "read" ELSE "yes"
           /\ died' = "none"
  <2>1. ObjectsOK(s.m, s.asked)
    BY <1>2 DEF PassOK
  <2>4. SavingOK'
    BY <1>3, <1>6 DEF ManagerInv, SavingOK
  <2>2. CASE s.result = "ok"
    <3> DEFINE n == om_resolve_all_parents(s.m)
    <3>1. ObjectsOK(n, s.asked) /\ Resolved(n) /\ BlocksOf(n) = BlocksOf(s.m)
      BY <2>1, ResolveKeeps
    <3>2. objects' = n /\ asked' = s.asked /\ busy' = "read" /\ objectBlocks' = BlocksOf(s.m)
      BY <1>6, <2>2
    <3> HIDE DEF n
    <3>3. ManagerOK'
      BY <3>1, <3>2 DEF ManagerOK
    <3> QED
      BY <1>3, <2>4, <3>3 DEF ManagerInv
  <2>3. CASE s.result # "ok"
    <3>1. ManagerOK'
      BY <1>6, <2>1, <2>3 DEF ManagerOK
    <3> QED
      BY <1>3, <2>4, <3>1 DEF ManagerInv
  <2> QED
    BY <2>2, <2>3
<1> QED
  BY <1>4, <1>5, <1>6

LEMMA NextManager == ManagerInv /\ [OMNext]_omVars => ManagerInv'
<1> SUFFICES ASSUME ManagerInv, [OMNext]_omVars PROVE ManagerInv'
  OBVIOUS
<1>1. CASE UNCHANGED omVars
  BY <1>1, SameManager DEF omVars, onDisk, inMemory
<1>2. CASE om_init
  BY <1>2, InitKeeps
<1>3. CASE om_read
  BY <1>3, ReadKeeps
<1>4. CASE om_write \/ rename_backup \/ rename_om \/ fopen_om
             \/ om_write_one_object_tfn \/ om_write_one_attribute
  BY <1>4, RenameKeepsObjects, OpenKeepsObjects, PrintKeepsObjects
<1>5. CASE process_ends \/ om_object_create_fails
  BY <1>5, CrashKeeps, SameManager DEF process_ends, om_object_create_fails
<1>6. ASSUME NEW p \in ObjectIds, NEW o \in ObjectIds, om_object_create(p, o) PROVE ManagerInv'
  BY <1>6, CreationKeeps
<1>7. ASSUME NEW o \in ObjectIds, om_parent_get(o) PROVE ManagerInv'
  BY <1>7, CrashKeeps, SameManager DEF om_parent_get
<1>8. ASSUME NEW o \in ObjectIds, NEW aid \in AttributeIds, om_attribute_remove(o, aid)
      PROVE ManagerInv'
  BY <1>8, RemoveKeeps
<1>9. ASSUME NEW o \in ObjectIds, NEW aid \in AttributeIds, NEW value \in AttributeValues,
             om_attribute_add(o, aid, value)
      PROVE ManagerInv'
  BY <1>9, AddKeeps
<1> QED
  BY <1>1, <1>2, <1>3, <1>4, <1>5, <1>6, <1>7, <1>8, <1>9 DEF OMNext

LEMMA NoBlocks == BlocksOf(<< >>) = 0
<1>1. DOMAIN << >> = {}
  OBVIOUS
<1>2. SumFunction([o \in {} |-> Cardinality(DOMAIN (<< >>)[o].attributes)]) = 0
  BY SumEmpty DEF SumFunction
<1> QED
  BY <1>1, <1>2, FS_EmptySet DEF BlocksOf

LEMMA ManagerInvSuffices == ManagerInv => ObjectsWellFormed
<1> SUFFICES ASSUME ManagerInv PROVE ObjectsWellFormed
  OBVIOUS
<1>1. CASE busy = "no"
  <2>1. objects = << >> /\ asked = << >> /\ objectBlocks = 0
    BY <1>1, InUse
  <2>2. DOMAIN objects = {} /\ DOMAIN asked = {}
    BY <2>1
  <2>3. objectBlocks = BlocksOf(objects)
    BY <2>1, NoBlocks
  <2>4. OMTypeOK
    BY <1>1, <2>2 DEF OMTypeOK, ManagerInv, SavingOK, Places, om_object_exists
  <2> QED
    BY <1>1, <2>2, <2>3, <2>4 DEF ObjectsWellFormed
<1>2. CASE busy # "no"
  <2>1. /\ ObjectsAre(objects) /\ ParentsAre(objects, asked)
        /\ PointersAre(objects) /\ ChildrenAre(objects)
        /\ objectBlocks = BlocksOf(objects) /\ busy \in {"yes", "read"}
        /\ busy = "read" => Resolved(objects)
    BY <1>2, InUse DEF ObjectsOK
  <2>2. OMTypeOK
    BY <1>2, <2>1 DEF OMTypeOK, ManagerInv, SavingOK, Places, om_object_exists, ObjectsAre, ParentsAre
  <2>3. \A p \in DOMAIN objects :
          /\ IsInjective(objects[p].children)
          /\ \A o \in ToSet(objects[p].children) :
               om_object_exists(objects, o) /\ objects[o].parent = p /\ objects[o].is_pointer
    BY <2>1 DEF ChildrenAre, ChildOf, om_object_exists
  <2> QED
    BY <2>1, <2>2, <2>3
    DEF ObjectsWellFormed, ParentsAre, PointersAre, Resolved, om_object_exists
<1> QED
  BY <1>1, <1>2

-----------------------------------------------------------------------------
(***************************************************************************)
(* A step of the process is a step of the object that it uses, and leaves  *)
(* the others alone.                                                       *)
(***************************************************************************)
LEMMA EachObjectSteps ==
    ASSUME [Next]_allVars
    PROVE  /\ [LookupNext]_lookupVars
           /\ [BufferNext]_bufferVars
           /\ [BitNext]_bitVars
           /\ [TLVNext]_tlvVars
           /\ [MonitorNext]_monitorVars
           /\ [OMNext]_omVars
BY DEF Next, allVars, UsesBuffers, UsesPointers, UsesBits, UsesTLVs, UsesMonitor, UsesManager

\* A handle that was not cleared gives its pointer and one that was gives
\* none, whoever has the slot now, up to a round of the numbers, for tables
\* and rounds of any size (pointer_lookup.c:131).
THEOREM HandlesAreHeld == Spec => []HandlesHold
<1>1. Init => LookupInv
  BY InitLookup DEF Init, EachStarts
<1>2. LookupInv /\ [Next]_allVars => LookupInv'
  BY NextLookup, EachObjectSteps
<1> QED
  BY <1>1, <1>2, LookupInvSuffices, PTL DEF Spec

\* When no call is under way the monitor has what is held, for any number of
\* threads and any sizes: only two threads at the same counter make it wrong
\* (mem_monitor_object.c:73).
THEOREM CountersAreExact == Spec => []CountersExact
<1>1. Init => MonitorInv
  BY InitMonitor DEF Init, EachStarts
<1>2. MonitorInv /\ [Next]_allVars => MonitorInv'
  BY NextMonitor, EachObjectSteps
<1> QED
  BY <1>1, <1>2, MonitorInvSuffices, PTL DEF Spec

\* Every bit list gives back the bits that were written and counts and finds
\* them, whatever its range and the size of an int: the bits that the array
\* has above the range are never found (bitlist_object.c:160).
THEOREM BitsAreRight == Spec => []BitsRight
<1>1. Init => BitInv
  BY InitBits DEF Init, EachStarts
<1>2. BitInv /\ [Next]_allVars => BitInv'
  BY NextBits, EachObjectSteps
<1> QED
  BY <1>1, <1>2, BitInvSuffices, PTL DEF Spec

LEMMA BufferInvAlways == Spec => []BufferInv
<1>1. Init => BufferInv
  BY InitBuffers DEF Init, EachStarts
<1>2. BufferInv /\ [Next]_allVars => BufferInv'
  BY NextBuffers, EachObjectSteps
<1> QED
  BY <1>1, <1>2, PTL DEF Spec

\* Every buffer is free in the pool that it was carved for or has one user,
\* through any number of allocations, frees and destructions, for any sizes
\* and any blocks that could not be had (buffer_manager.c:62).
THEOREM BuffersAreAccountedFor == Spec => []BuffersAccountedFor
BY BufferInvAlways, BufferInvSuffices, PTL

\* An allocation takes a larger buffer than it needs, or fails, only when it
\* must, but for the entry that is not in the table (buffer_manager.c:262).
THEOREM FitsAreBest == Spec => []BestFit
BY BufferInvAlways, BufferInvSuffices, PTL

\* The tlvs of appends that follow one another are in the buffer, all of them
\* in their order, with their end type, and a parse gives all of them back, for
\* buffers and values of any sizes, up to the return value of one that is full
\* to the last byte (tlv_manager.c:73).  An append after a parse or a reset
\* begins another list (tlv_manager.c:66, 128), and of the one before it
\* nothing is said: AppendsContinue, which says more, is violated by a run.
THEOREM TLVsAreRead == Spec => []TLVsRead
<1>1. Init => TLVInv
  BY InitTLVs DEF Init, EachStarts
<1>2. TLVInv /\ [Next]_allVars => TLVInv'
  BY NextTLVs, EachObjectSteps
<1>3. TLVInv => TLVsRead
  BY DEF TLVInv
<1> QED
  BY <1>1, <1>2, <1>3, PTL DEF Spec

\* If names can be changed: the state before the first of two writes is in one
\* of the three files, whole, wherever a write stopped or its process ended,
\* between any two of its calls on files or with any part of the new file
\* written (object_manager.c:941-954), whatever the manager does in between
\* and whatever the files had.
THEOREM BackupsAreHeld == Spec => []BackupsHold
<1>1. Init => BackupInv
  BY InitBackups DEF Init, EachStarts
<1>2. BackupInv /\ [Next]_allVars => BackupInv'
  BY NextBackups, EachObjectSteps
<1> QED
  BY <1>1, <1>2, BackupInvSuffices, PTL DEF Spec

\* The objects of a manager stay well formed whoever made them, a caller or
\* the records of a file in any order and cut short anywhere: the second pass
\* leaves no parent that is there without its pointer, and what was read is
\* counted as what was made (object_manager.c:917-922), for any objects,
\* attributes and files.
THEOREM ObjectsAreWellFormed == Spec => []ObjectsWellFormed
<1>1. Init => ManagerInv
  BY InitManager DEF Init, EachStarts
<1>2. ManagerInv /\ [Next]_allVars => ManagerInv'
  BY NextManager, EachObjectSteps
<1> QED
  BY <1>1, <1>2, ManagerInvSuffices, PTL DEF Spec
=============================================================================
