-------------------------- MODULE EventManagerProofs --------------------------
(***************************************************************************)
(* Proofs about EventManager, for any types, registrants and depth of      *)
(* announcements: the memory is exact, a list changes under a walk in one  *)
(* way only, and an announcement tells those whom it owes; and what is     *)
(* registered is found, where the comparison is an order.                  *)
(***************************************************************************)
EXTENDS EventManager, DataFacts

\* What any list in order needs of its comparison: it tells the pairs that there
\* are apart and puts them in an order.  The one of the code does so if none
\* of the differences it takes is cut down to an int of the other sign.
ComparisonOrders ==
    \A p, q \in Registrants :
      /\ p = q \/ compare_f_and_args(p, q) < 0 \/ compare_f_and_args(q, p) < 0
      /\ compare_f_and_args(p, q) = 0 => p = q
      /\ \A r \in Registrants :
           compare_f_and_args(p, q) < 0 /\ compare_f_and_args(q, r) < 0 => compare_f_and_args(p, r) < 0

\* The functions of one program, and the arguments of any one of them.
FunctionsAreClose == \A p, q \in Registrants : 2 * (p.f - q.f) < IntSpan
ArgumentsAreClose == \A p, q \in Registrants : p.f = q.f => 2 * (p.arg - q.arg) < IntSpan

Before(p, q) == compare_f_and_args(p, q) < 0

Ascending(s) == \A i, j \in DOMAIN s : i < j => Before(s[i], s[j])

ListsAscend == \A l \in Lists : Ascending(lists[l])

\* While announcements are on their way the flag is up, unless one that was
\* made inside another one has returned.
FlagRight == /\ stack # << >> => should_not_be_modified \/ nested
             /\ fate = "disturbed" => nested

\* Where an announcement is, it has told what its walks have behind them, and
\* owes what is still before the one it is in.
FrameRight(f) ==
    /\ f.at <= Len(Walk(f, f.part))
    /\ \E told \in Seq(Registrants) :
         /\ f.owed = told \o Walk(f, f.part)
         /\ f.told = told \o SubSeq(Walk(f, f.part), 1, f.at)

\* No registration has come between, so far.
BeganRight(f) == f.began = f.owed \o (IF f.part = "all" THEN Walk(f, "one") ELSE << >>)

FramesRight == fate = "running" => \A i \in DOMAIN stack : FrameRight(stack[i])

FramesBegan == nested \/ \A i \in DOMAIN stack : BeganRight(stack[i])

WalkInv == EventTypeOK /\ FlagRight /\ FramesRight /\ FramesBegan

-----------------------------------------------------------------------------
\* A walk of a list stops at the first pair that does not come before r.
LEMMA StopIs ==
    ASSUME NEW l, NEW r, lists[l] \in Seq(Registrants)
    PROVE  /\ StopFor(l, r) \in 1 .. Len(lists[l]) + 1
           /\ StopFor(l, r) <= Len(lists[l]) =>
                compare_f_and_args(lists[l][StopFor(l, r)], r) >= 0
           /\ \A i \in 1 .. Len(lists[l]) :
                i < StopFor(l, r) => ~(compare_f_and_args(lists[l][i], r) >= 0)
<1> DEFINE s == lists[l]
           I == {i \in 1 .. Len(s) : compare_f_and_args(s[i], r) >= 0}
<1>1. StopFor(l, r) = IF I = {} THEN Len(s) + 1 ELSE Min(I)
  <2>1. SelectInSeq(s, LAMBDA q : compare_f_and_args(q, r) >= 0) = IF I # {} THEN Min(I) ELSE 0
    BY DEF SelectInSeq
  <2>2. I # {} => Min(I) \in Nat \ {0}
    <3> SUFFICES ASSUME I # {} PROVE Min(I) \in Nat \ {0}
      OBVIOUS
    <3>1. I \subseteq Nat \ {0}
      OBVIOUS
    <3> HIDE DEF I
    <3> QED
      BY <3>1, MinIs
  <2> QED
    BY <2>1, <2>2 DEF StopFor
<1>2. Len(s) \in Nat
  OBVIOUS
<1>3. CASE I = {}
  BY <1>1, <1>2, <1>3
<1>4. CASE I # {}
  <2>1. I \subseteq Nat
    OBVIOUS
  <2>2. Min(I) \in I /\ \A k \in I : Min(I) <= k
    <3> HIDE DEF I
    <3> QED
      BY <1>4, <2>1, MinIs
  <2>3. \A i \in 1 .. Len(s) : i < Min(I) => i \notin I
    <3>1. Min(I) \in Nat
      BY <2>1, <2>2
    <3> QED
      BY <2>2, <3>1
  <2> DEFINE m == Min(I)
  <2>4. StopFor(l, r) = m /\ m \in I
    BY <1>1, <1>4, <2>2
  <2>5. m \in 1 .. Len(s) /\ compare_f_and_args(s[m], r) >= 0
    BY <2>4
  <2>6. \A i \in 1 .. Len(s) : i < m => ~(compare_f_and_args(s[i], r) >= 0)
    BY <2>3
  <2> HIDE DEF m, I
  <2>7. m \in 1 .. Len(s) + 1
    BY <1>2, <2>5
  <2> QED
    BY <2>4, <2>5, <2>6, <2>7
<1> QED
  BY <1>3, <1>4

\* Differences of less than half the span are not cut.
LEMMA ToIntIs ==
    ASSUME NEW p \in Nat, NEW q \in Nat, 2 * (p - q) < IntSpan, 2 * (q - p) < IntSpan
    PROVE  AsInt(p - q) = p - q
<1>1. IntSpan \in Nat \ {0}
  BY BoundsAssumption
<1>2. CASE p >= q
  <2>1. (p - q) % IntSpan = p - q
    BY <1>1, <1>2
  <2> QED
    BY <1>1, <1>2, <2>1 DEF AsInt
<1>3. CASE p < q
  <2>1. (p - q) % IntSpan = p - q + IntSpan
    BY <1>1, <1>3
  <2> QED
    BY <1>1, <1>3, <2>1 DEF AsInt
<1> QED
  BY <1>1, <1>2, <1>3

LEMMA CompareType ==
    ASSUME NEW p \in Registrants, NEW q \in Registrants
    PROVE  /\ compare_f_and_args(p, q) \in Int
           /\ compare_f_and_args(p, p) = 0
<1>1. /\ p.f \in Nat /\ p.arg \in Nat /\ q.f \in Nat /\ q.arg \in Nat /\ IntSpan \in Nat \ {0}
  BY RegistrantsAssumption, BoundsAssumption
<1>2. \A n \in Int : AsInt(n) \in Int
  BY <1>1 DEF AsInt
<1>3. AsInt(0) = 0
  <2>1. 0 % IntSpan = 0
    BY <1>1
  <2> QED
    BY <1>1, <2>1 DEF AsInt
<1>4. p.f - q.f \in Int /\ p.arg - q.arg \in Int /\ p.f - p.f = 0 /\ p.arg - p.arg = 0
  BY <1>1
<1> QED
  BY <1>2, <1>3, <1>4 DEF compare_f_and_args

\* Functions of one program of less than half the span of an int, with arguments
\* that for each of them are no farther apart, are in an order.
THEOREM CloseOnesAreOrdered ==
    ASSUME FunctionsAreClose, ArgumentsAreClose
    PROVE  ComparisonOrders
<1>1. \A p \in Registrants : p \in [f : Nat, arg : Nat]
  BY RegistrantsAssumption
<1>2. ASSUME NEW p \in Registrants, NEW q \in Registrants
      PROVE  compare_f_and_args(p, q) = IF p.f # q.f THEN p.f - q.f ELSE p.arg - q.arg
  <2>1. p.f \in Nat /\ p.arg \in Nat /\ q.f \in Nat /\ q.arg \in Nat
    BY <1>1
  <2>2. AsInt(p.f - q.f) = p.f - q.f
    <3>1. 2 * (p.f - q.f) < IntSpan /\ 2 * (q.f - p.f) < IntSpan
      BY DEF FunctionsAreClose
    <3> QED
      BY <2>1, <3>1, ToIntIs
  <2>3. p.f = q.f => AsInt(p.arg - q.arg) = p.arg - q.arg
    <3> SUFFICES ASSUME p.f = q.f PROVE AsInt(p.arg - q.arg) = p.arg - q.arg
      OBVIOUS
    <3>1. 2 * (p.arg - q.arg) < IntSpan /\ 2 * (q.arg - p.arg) < IntSpan
      BY DEF ArgumentsAreClose
    <3> QED
      BY <2>1, <3>1, ToIntIs
  <2>4. p.f - q.f = 0 <=> p.f = q.f
    BY <2>1
  <2> QED
    BY <2>2, <2>3, <2>4 DEF compare_f_and_args
<1>3. ASSUME NEW p \in Registrants, NEW q \in Registrants
      PROVE  /\ p = q \/ compare_f_and_args(p, q) < 0 \/ compare_f_and_args(q, p) < 0
             /\ compare_f_and_args(p, q) = 0 => p = q
  <2>1. p.f \in Nat /\ p.arg \in Nat /\ q.f \in Nat /\ q.arg \in Nat
    BY <1>1
  <2>2. p.f = q.f /\ p.arg = q.arg => p = q
    BY <1>1
  <2>3. /\ compare_f_and_args(p, q) = IF p.f # q.f THEN p.f - q.f ELSE p.arg - q.arg
        /\ compare_f_and_args(q, p) = IF q.f # p.f THEN q.f - p.f ELSE q.arg - p.arg
    BY <1>2
  <2> QED
    BY <2>1, <2>2, <2>3
<1>4. ASSUME NEW p \in Registrants, NEW q \in Registrants, NEW r \in Registrants,
             compare_f_and_args(p, q) < 0, compare_f_and_args(q, r) < 0
      PROVE  compare_f_and_args(p, r) < 0
  <2>1. /\ p.f \in Nat /\ p.arg \in Nat /\ q.f \in Nat /\ q.arg \in Nat
        /\ r.f \in Nat /\ r.arg \in Nat
    BY <1>1
  <2>2. /\ compare_f_and_args(p, q) = IF p.f # q.f THEN p.f - q.f ELSE p.arg - q.arg
        /\ compare_f_and_args(q, r) = IF q.f # r.f THEN q.f - r.f ELSE q.arg - r.arg
        /\ compare_f_and_args(p, r) = IF p.f # r.f THEN p.f - r.f ELSE p.arg - r.arg
    BY <1>2
  <2> QED
    BY <1>4, <2>1, <2>2
<1> QED
  BY <1>3, <1>4 DEF ComparisonOrders

\* The order.
LEMMA BeforeIs ==
    ASSUME ComparisonOrders, NEW p \in Registrants, NEW q \in Registrants
    PROVE  /\ ~Before(p, p)
           /\ Before(p, q) => ~Before(q, p) /\ p # q
           /\ p = q \/ Before(p, q) \/ Before(q, p)
           /\ compare_f_and_args(p, q) >= 0 <=> ~Before(p, q)
           /\ compare_f_and_args(p, q) = 0 <=> p = q
           /\ \A r \in Registrants : Before(p, q) /\ Before(q, r) => Before(p, r)
<1>1. /\ compare_f_and_args(p, q) \in Int /\ compare_f_and_args(q, p) \in Int
      /\ compare_f_and_args(p, p) = 0
  BY CompareType
<1>2. ~Before(p, p)
  BY <1>1 DEF Before
<1>3. compare_f_and_args(p, q) >= 0 <=> ~Before(p, q)
  BY <1>1 DEF Before
<1>4. \A r \in Registrants : Before(p, q) /\ Before(q, r) => Before(p, r)
  BY DEF ComparisonOrders, Before
<1>5. p = q \/ Before(p, q) \/ Before(q, p)
  BY DEF ComparisonOrders, Before
<1>6. compare_f_and_args(p, q) = 0 <=> p = q
  BY <1>1 DEF ComparisonOrders
<1>7. Before(p, q) => ~Before(q, p) /\ p # q
  BY <1>2, <1>4
<1> QED
  BY <1>2, <1>3, <1>4, <1>5, <1>6, <1>7

\* In a list in order the stop divides what comes before r from the rest.
LEMMA StopDivides ==
    ASSUME ComparisonOrders, NEW l, NEW r \in Registrants,
           lists[l] \in Seq(Registrants), Ascending(lists[l])
    PROVE  /\ \A i \in 1 .. Len(lists[l]) :
                IF i < StopFor(l, r) THEN Before(lists[l][i], r) ELSE ~Before(lists[l][i], r)
           /\ Present(l, r) <=> r \in ToSet(lists[l])
<1> DEFINE s == lists[l]
           k == StopFor(l, r)
<1>1. Len(s) \in Nat /\ k \in 1 .. Len(s) + 1 /\ DOMAIN s = 1 .. Len(s)
  BY StopIs
<1>2. \A i \in 1 .. Len(s) : s[i] \in Registrants
  OBVIOUS
<1>4. \A i \in 1 .. Len(s) : i < k => Before(s[i], r)
  BY <1>2, StopIs, BeforeIs
<1>5. k <= Len(s) => ~Before(s[k], r) /\ (compare_f_and_args(s[k], r) = 0 <=> s[k] = r)
  <2> SUFFICES ASSUME k <= Len(s)
               PROVE  ~Before(s[k], r) /\ (compare_f_and_args(s[k], r) = 0 <=> s[k] = r)
    OBVIOUS
  <2>1. compare_f_and_args(s[k], r) >= 0
    BY StopIs
  <2>2. k \in 1 .. Len(s)
    BY <1>1
  <2>3. s[k] \in Registrants
    BY <1>2, <2>2
  <2> QED
    BY <2>1, <2>3, BeforeIs
<1> HIDE DEF k
<1>6. \A i \in 1 .. Len(s) : i > k => Before(r, s[i])
  <2> SUFFICES ASSUME NEW i \in 1 .. Len(s), i > k PROVE Before(r, s[i])
    OBVIOUS
  <2>1. k \in 1 .. Len(s) /\ Before(s[k], s[i])
    BY <1>1 DEF Ascending
  <2>2. s[k] \in Registrants /\ s[i] \in Registrants /\ ~Before(s[k], r)
    BY <1>1, <1>2, <1>5, <2>1
  <2>3. s[k] = r \/ Before(r, s[k])
    BY <2>2, BeforeIs
  <2> QED
    BY <2>1, <2>2, <2>3, BeforeIs
<1>7. Present(l, r) <=> r \in ToSet(s)
  <2>1. Present(l, r) <=> k <= Len(s) /\ s[k] = r
    BY <1>1, <1>5 DEF Present, k
  <2>2. r \in ToSet(s) <=> \E i \in 1 .. Len(s) : s[i] = r
    BY <1>1 DEF ToSet
  <2>3. ASSUME NEW i \in 1 .. Len(s), s[i] = r PROVE i = k
    <3>1. ~Before(r, r)
      BY BeforeIs
    <3>2. ~(i < k) /\ ~(i > k)
      BY <1>4, <1>6, <2>3, <3>1
    <3> QED
      BY <1>1, <3>2
  <2> QED
    BY <1>1, <2>1, <2>2, <2>3
<1>8. \A i \in 1 .. Len(s) : IF i < k THEN Before(s[i], r) ELSE ~Before(s[i], r)
  <2> SUFFICES ASSUME NEW i \in 1 .. Len(s)
               PROVE  IF i < k THEN Before(s[i], r) ELSE ~Before(s[i], r)
    OBVIOUS
  <2>1. CASE i < k
    BY <1>4, <2>1
  <2>2. CASE i = k
    BY <1>1, <1>5, <2>2
  <2>3. CASE i > k
    <3>1. Before(r, s[i]) /\ s[i] \in Registrants
      BY <1>2, <1>6, <2>3
    <3>2. ~Before(s[i], r)
      BY <3>1, BeforeIs
    <3> QED
      BY <1>1, <2>3, <3>2
  <2> QED
    BY <1>1, <2>1, <2>2, <2>3
<1> QED
  BY <1>7, <1>8 DEF k

-----------------------------------------------------------------------------
LEMMA ListsAre ==
    /\ IsFiniteSet(Specific) /\ IsFiniteSet(Lists)
    /\ \A kind \in Kinds : /\ \A type \in Types \cup {ALL_OBJECT_TYPES} : <<kind, type>> \in Lists
                           /\ <<kind, ALL_OBJECT_TYPES>> \in Lists
    /\ \A l \in Lists : l \in Specific \/ l[2] = ALL_OBJECT_TYPES
    /\ \A l \in Specific : l[2] # ALL_OBJECT_TYPES
<1>1. IsFiniteSet(Kinds) /\ IsFiniteSet({ALL_OBJECT_TYPES}) /\ IsFiniteSet(Types)
  <2>1. Kinds = {"object"} \cup {"attribute"}
    BY DEF Kinds
  <2>2. IsFiniteSet({"object"}) /\ IsFiniteSet({"attribute"}) /\ IsFiniteSet({ALL_OBJECT_TYPES})
    BY FS_Singleton
  <2> QED
    BY <2>1, <2>2, FS_Union, TypesAssumption
<1>2. IsFiniteSet(Specific) /\ IsFiniteSet(Kinds \X {ALL_OBJECT_TYPES})
  BY <1>1, FS_Product DEF Specific
<1>3. IsFiniteSet(Lists)
  BY <1>2, FS_Union DEF Lists
<1> QED
  BY <1>2, <1>3, TypesAssumption DEF Lists, Specific, ALL_OBJECT_TYPES

LEMMA PairsChange ==
    ASSUME NEW ls \in [Lists -> Seq(Registrants)], NEW l \in Lists, NEW s \in Seq(Registrants)
    PROVE  /\ PairsIn(ls) \in Int
           /\ PairsIn([ls EXCEPT ![l] = s]) = PairsIn(ls) - Len(ls[l]) + Len(s)
<1> DEFINE f == [k \in Lists |-> Len(ls[k])]
           g == [k \in Lists |-> Len([ls EXCEPT ![l] = s][k])]
<1>1. PairsIn(ls) = SumFunctionOnSet(f, Lists)
  BY DEF PairsIn, SumFunction
<1>2. PairsIn([ls EXCEPT ![l] = s]) = SumFunctionOnSet(g, Lists)
  BY DEF PairsIn, SumFunction
<1>3. /\ \A k \in Lists : f[k] \in Int /\ g[k] \in Int
      /\ \A k \in Lists \ {l} : g[k] = f[k]
      /\ f[l] = Len(ls[l]) /\ g[l] = Len(s)
  OBVIOUS
<1>4. IsFiniteSet(Lists)
  BY ListsAre
<1> HIDE DEF f, g
<1>5. SumFunctionOnSet(f, Lists) \in Int
  BY <1>3, <1>4, SumType
<1>6. SumFunctionOnSet(g, Lists) = SumFunctionOnSet(f, Lists) - f[l] + g[l]
  BY <1>3, <1>4, SumChange
<1> QED
  BY <1>1, <1>2, <1>3, <1>5, <1>6

LEMMA PairsNone ==
    ASSUME NEW ls, \A l \in Lists : ls[l] = << >>
    PROVE  PairsIn(ls) = 0
<1> DEFINE f == [k \in Lists |-> Len(ls[k])]
<1>1. \A k \in Lists : f[k] = 0
  OBVIOUS
<1>2. PairsIn(ls) = SumFunctionOnSet(f, Lists)
  BY DEF PairsIn, SumFunction
<1> HIDE DEF f
<1> QED
  BY <1>1, <1>2, SumZero, ListsAre

\* The containers a step adds or takes away.
LEMMA ContainersCount ==
    ASSUME NEW A \in SUBSET Specific, NEW B \in SUBSET Specific, A \subseteq B
    PROVE  /\ Cardinality(A) \in Nat /\ Cardinality(B \ A) \in Nat
           /\ Cardinality(B) = Cardinality(A) + Cardinality(B \ A)
<1>1. IsFiniteSet(A) /\ IsFiniteSet(B)
  BY ListsAre, FS_Subset
<1>2. B \cap A = A
  OBVIOUS
<1>3. IsFiniteSet(B \ A) /\ Cardinality(B \ A) = Cardinality(B) - Cardinality(A)
  BY <1>1, <1>2, FS_Difference
<1>4. Cardinality(A) \in Nat /\ Cardinality(B) \in Nat /\ Cardinality(B \ A) \in Nat
  BY <1>1, <1>3, FS_CardinalityType
<1> QED
  BY <1>3, <1>4

-----------------------------------------------------------------------------
\* The steps, with the list that they are about for the kind and the type.
LEMMA NextIs ==
    ASSUME EventNext
    PROVE  /\ fate = "running"
           /\ \/ \E l \in Lists, r \in Registrants : register(l, r) \/ un_register(l, r)
              \/ \E kind \in Kinds \cup {"neither"}, type \in Types \cup {ALL_OBJECT_TYPES} :
                    announce_event(kind, type)
              \/ NotifyNext \/ NotifyOneType \/ AnnouncementEnds
              \/ event_manager_destroy
<1>1. ASSUME NEW type \in Types \cup {ALL_OBJECT_TYPES}, NEW r \in Registrants,
             \/ register_for_object_events(type, r)
             \/ register_for_attribute_events(type, r)
             \/ un_register_from_object_events(type, r)
             \/ un_register_from_attribute_events(type, r)
      PROVE  \E l \in Lists, q \in Registrants : register(l, q) \/ un_register(l, q)
  <2>1. <<"object", type>> \in Lists /\ <<"attribute", type>> \in Lists
    BY ListsAre DEF Kinds
  <2> QED
    BY <1>1, <2>1 DEF register_for_object_events, register_for_attribute_events,
                      un_register_from_object_events, un_register_from_attribute_events
<1> QED
  BY <1>1 DEF EventNext

LEMMA WalkType ==
    ASSUME EventTypeOK, NEW f \in Frames, NEW part \in {"all", "one"}
    PROVE  Walk(f, part) \in Seq(Registrants)
<1>1. f.kind \in Kinds => <<f.kind, ALL_OBJECT_TYPES>> \in Lists /\ <<f.kind, f.type>> \in Lists
  BY ListsAre DEF Frames
<1> DEFINE l == <<f.kind, IF part = "all" THEN ALL_OBJECT_TYPES ELSE f.type>>
<1>2. f.kind \in Kinds => lists[l] \in Seq(Registrants)
  BY <1>1 DEF EventTypeOK
<1>3. Walk(f, part) = IF f.kind \in Kinds /\ Exists(l) THEN lists[l] ELSE << >>
  BY DEF Walk
<1> QED
  BY <1>2, <1>3

\* The lists of an event that is announced.
LEMMA EventWalks ==
    ASSUME EventTypeOK, NEW kind \in Kinds \cup {"neither"}, NEW type \in Types \cup {ALL_OBJECT_TYPES}
    PROVE  LET e == [kind |-> kind, type |-> type]
           IN  Walk(e, "all") \in Seq(Registrants) /\ Walk(e, "one") \in Seq(Registrants)
<1> DEFINE e == [kind |-> kind, type |-> type]
           h == [kind |-> kind, type |-> type, part |-> "all", at |-> 0,
                 told |-> << >>, owed |-> << >>, began |-> << >>]
<1>1. h \in Frames
  BY DEF Frames
<1>2. Walk(h, "all") \in Seq(Registrants) /\ Walk(h, "one") \in Seq(Registrants)
  BY <1>1, WalkType
<1>3. Walk(h, "all") = Walk(e, "all") /\ Walk(h, "one") = Walk(e, "one")
  BY DEF Walk
<1> QED
  BY <1>2, <1>3

LEMMA LastFrame ==
    ASSUME EventTypeOK, stack # << >>
    PROVE  /\ Len(stack) \in DOMAIN stack
           /\ Last(stack) = stack[Len(stack)] /\ Last(stack) \in Frames
           /\ Front(stack) \in Seq(Frames) /\ Len(Front(stack)) = Len(stack) - 1
           /\ \A i \in DOMAIN Front(stack) : i \in DOMAIN stack /\ Front(stack)[i] = stack[i]
<1>1. stack \in Seq(Frames) /\ Len(stack) \in Nat \ {0} /\ DOMAIN stack = 1 .. Len(stack)
  BY DEF EventTypeOK
<1>2. Last(stack) = stack[Len(stack)] /\ Last(stack) \in Frames
  BY <1>1 DEF Last
<1>3. /\ Front(stack) \in Seq(Frames) /\ Len(Front(stack)) = Len(stack) - 1
      /\ \A i \in 1 .. Len(stack) - 1 : Front(stack)[i] = stack[i]
  BY <1>1 DEF Front
<1>4. DOMAIN Front(stack) = 1 .. Len(stack) - 1
  BY <1>3
<1> QED
  BY <1>1, <1>2, <1>3, <1>4

-----------------------------------------------------------------------------
\* What a step of a walk does to the innermost announcement.
LEMMA NotifyIs ==
    ASSUME EventTypeOK, FramesRight, fate = "running", NotifyNext
    PROVE  LET n == Len(stack)
               f == stack[n]
               w == Walk(f, f.part)
               x == w[f.at + 1]
           IN  /\ n \in DOMAIN stack /\ f \in Frames
               /\ w \in Seq(Registrants) /\ f.at + 1 \in 1 .. Len(w) /\ x \in Registrants
               /\ stack' = [stack EXCEPT ![n] = [f EXCEPT !.at = f.at + 1,
                                                         !.told = Append(f.told, x)]]
<1> DEFINE n == Len(stack)
           f == stack[n]
           w == Walk(f, f.part)
           x == w[f.at + 1]
<1>1. stack # << >> /\ ~AtEnd(Last(stack))
  BY DEF NotifyNext
<1>2. n \in DOMAIN stack /\ f = Last(stack) /\ f \in Frames
  BY <1>1, LastFrame
<1>3. w \in Seq(Registrants) /\ f.at \in Nat /\ f.told \in Seq(Registrants)
  BY <1>2, WalkType DEF Frames
<1>4. f.at <= Len(w) /\ f.at # Len(w)
  BY <1>1, <1>2 DEF FramesRight, FrameRight, AtEnd
<1>5. f.at + 1 \in 1 .. Len(w) /\ x \in Registrants
  <2> HIDE DEF w
  <2>1. f.at + 1 \in 1 .. Len(w)
    BY <1>3, <1>4
  <2> QED
    BY <1>3, <2>1
<1>6. stack' = [stack EXCEPT ![n] = [f EXCEPT !.at = f.at + 1, !.told = Append(f.told, x)]]
  <2>1. stack' = [stack EXCEPT ![n].at = @ + 1, ![n].told = Append(@, Walk(Last(stack), Last(stack).part)[Last(stack).at + 1])]
    BY DEF NotifyNext
  <2>2. stack' = [stack EXCEPT ![n].at = @ + 1, ![n].told = Append(@, x)]
    BY <1>2, <2>1
  <2> HIDE DEF x
  <2> QED
    BY <1>2, <2>2 DEF Frames, EventTypeOK
<1> QED
  BY <1>2, <1>3, <1>5, <1>6

LEMMA NotifyOneIs ==
    ASSUME EventTypeOK, stack # << >>, NotifyOneType
    PROVE  LET n == Len(stack)
               f == stack[n]
           IN  stack' = [stack EXCEPT ![n] = [f EXCEPT !.part = "one", !.at = 0,
                                                     !.owed = f.owed \o Walk(f, "one")]]
<1> DEFINE n == Len(stack)
           f == stack[n]
           w == Walk(f, "one")
<1>1. n \in DOMAIN stack /\ f = Last(stack) /\ f \in Frames
  BY LastFrame
<1>2. stack' = [stack EXCEPT ![n].part = "one", ![n].at = 0, ![n].owed = @ \o w]
  BY <1>1 DEF NotifyOneType
<1> HIDE DEF w
<1>3. stack' = [stack EXCEPT ![n] = [f EXCEPT !.part = "one", !.at = 0, !.owed = f.owed \o w]]
  BY <1>1, <1>2 DEF Frames, EventTypeOK
<1> QED
  BY <1>3 DEF w

LEMMA OneTypeIs ==
    ASSUME EventTypeOK, NotifyOneType
    PROVE  LET n == Len(stack)
               f == stack[n]
           IN  /\ n \in DOMAIN stack /\ f \in Frames
               /\ f.part = "all" /\ f.at = Len(Walk(f, "all"))
               /\ stack' = [stack EXCEPT ![n] = [f EXCEPT !.part = "one", !.at = 0,
                                                         !.owed = f.owed \o Walk(f, "one")]]
<1>1. stack # << >> /\ AtEnd(Last(stack)) /\ Last(stack).part = "all"
  BY DEF NotifyOneType
<1>2. Len(stack) \in DOMAIN stack /\ stack[Len(stack)] = Last(stack) /\ Last(stack) \in Frames
  BY <1>1, LastFrame
<1>3. Last(stack).at = Len(Walk(Last(stack), "all"))
  BY <1>1 DEF AtEnd
<1> QED
  BY <1>1, <1>2, <1>3, NotifyOneIs

LEMMA InitTypeOK == EventInit => EventTypeOK
<1> SUFFICES ASSUME EventInit PROVE EventTypeOK
  OBVIOUS
<1>1. lists \in [Lists -> Seq(Registrants)]
  BY DEF EventInit
<1>2. stack \in Seq(Frames)
  BY DEF EventInit
<1>3. containers \subseteq Specific /\ blocks \in Int
  BY DEF EventInit
<1>4. should_not_be_modified \in BOOLEAN /\ nested \in BOOLEAN /\ fate \in {"running", "disturbed", "crashed"}
  BY DEF EventInit
<1> QED
  BY <1>1, <1>2, <1>3, <1>4 DEF EventTypeOK

\* The places of the walks are needed: a call beyond a list would be of nobody.
LEMMA NextTypeOK == EventTypeOK /\ FramesRight /\ [EventNext]_eventVars => EventTypeOK'
<1> SUFFICES ASSUME EventTypeOK, FramesRight, [EventNext]_eventVars PROVE EventTypeOK'
  OBVIOUS
<1>1. CASE UNCHANGED eventVars
  BY <1>1 DEF eventVars, EventTypeOK
<1>2. ASSUME NEW l \in Lists, NEW r \in Registrants, register(l, r) PROVE EventTypeOK'
  <2>1. create_f_and_arg_container(l) \subseteq Specific
    BY DEF create_f_and_arg_container
  <2>2. lists' \in [Lists -> Seq(Registrants)] /\ containers' \subseteq Specific
    <3>1. CASE RegisterNew(l, r)
      <4>1. StopFor(l, r) \in 1 .. Len(lists[l]) + 1
        BY StopIs DEF EventTypeOK
      <4>2. InsertAt(lists[l], StopFor(l, r), r) \in Seq(Registrants)
        BY <4>1, InsertAtIs DEF EventTypeOK
      <4> QED
        BY <2>1, <3>1, <4>2 DEF RegisterNew, EventTypeOK
    <3>2. CASE RegisterPresent(l, r)
      BY <3>2 DEF RegisterPresent, registrations, EventTypeOK
    <3>3. CASE RegisterFails(l, r)
      BY <2>1, <3>3 DEF RegisterFails, EventTypeOK
    <3> QED
      BY <1>2, <3>1, <3>2, <3>3 DEF register
  <2>3. blocks' \in Int
    <3>1. containers' \ containers \in SUBSET Specific /\ {} \subseteq containers' \ containers
      BY <2>2
    <3>2. Cardinality(containers' \ containers) \in Nat
      BY <3>1, ListsAre, FS_Subset, FS_CardinalityType
    <3> QED
      BY <1>2, <3>2 DEF register, RegisterNew, RegisterPresent, RegisterFails, registrations, EventTypeOK
  <2> QED
    BY <1>2, <2>2, <2>3 DEF register, AfterChange, progress, EventTypeOK
<1>3. ASSUME NEW l \in Lists, NEW r \in Registrants, un_register(l, r) PROVE EventTypeOK'
  <2>1. lists' \in [Lists -> Seq(Registrants)]
    <3>1. Present(l, r) => RemoveAt(lists[l], StopFor(l, r)) \in Seq(Registrants)
      <4> SUFFICES ASSUME Present(l, r) PROVE RemoveAt(lists[l], StopFor(l, r)) \in Seq(Registrants)
        OBVIOUS
      <4>1. lists[l] \in Seq(Registrants) /\ StopFor(l, r) \in 1 .. Len(lists[l]) + 1
        BY StopIs DEF EventTypeOK
      <4>2. StopFor(l, r) \in 1 .. Len(lists[l])
        BY <4>1 DEF Present
      <4> QED
        BY <4>1, <4>2, RemoveAtIs
    <3> QED
      BY <1>3, <3>1 DEF un_register, EventTypeOK
  <2>2. containers' \subseteq containers
    BY <1>3 DEF un_register, destroy_f_and_arg_container
  <2>3. Cardinality(containers \ containers') \in Nat
    <3>1. containers \ containers' \in SUBSET Specific
      BY DEF EventTypeOK
    <3> QED
      BY <3>1, ListsAre, FS_Subset, FS_CardinalityType
  <2>4. blocks' \in Int
    BY <1>3, <2>3 DEF un_register, EventTypeOK
  <2> QED
    BY <1>3, <2>1, <2>2, <2>4 DEF un_register, AfterChange, progress, EventTypeOK
<1>4. ASSUME NEW kind \in Kinds \cup {"neither"}, NEW type \in Types \cup {ALL_OBJECT_TYPES},
             announce_event(kind, type)
      PROVE  EventTypeOK'
  <2> DEFINE e == [kind |-> kind, type |-> type]
             f == [kind |-> kind, type |-> type, part |-> "all", at |-> 0, told |-> << >>,
                   owed |-> Walk(e, "all"), began |-> Walk(e, "all") \o Walk(e, "one")]
  <2>1. /\ Walk(e, "all") \in Seq(Registrants)
        /\ Walk(e, "all") \o Walk(e, "one") \in Seq(Registrants)
    <3>1. Walk(e, "all") \in Seq(Registrants) /\ Walk(e, "one") \in Seq(Registrants)
      BY <1>4, EventWalks
    <3> QED
      BY <3>1, ConcatProperties
  <2>2. f \in Frames
    BY <2>1 DEF Frames
  <2>3. stack' \in Seq(Frames)
    BY <1>4, <2>2 DEF announce_event, EventTypeOK
  <2> QED
    BY <1>4, <2>3 DEF announce_event, registrations, EventTypeOK
<1>5. ASSUME fate = "running", NotifyNext PROVE EventTypeOK'
  <2> DEFINE n == Len(stack)
             f == stack[n]
             x == Walk(f, f.part)[f.at + 1]
  <2>1. /\ n \in DOMAIN stack /\ f \in Frames /\ x \in Registrants
        /\ stack' = [stack EXCEPT ![n] = [f EXCEPT !.at = f.at + 1, !.told = Append(f.told, x)]]
    BY <1>5, NotifyIs
  <2> HIDE DEF x
  <2>2. [f EXCEPT !.at = f.at + 1, !.told = Append(f.told, x)] \in Frames
    <3>1. f.at + 1 \in Nat /\ Append(f.told, x) \in Seq(Registrants)
      BY <2>1 DEF Frames
    <3> QED
      BY <2>1, <3>1 DEF Frames
  <2>3. stack' \in Seq(Frames)
    BY <2>1, <2>2 DEF EventTypeOK
  <2> QED
    BY <1>5, <2>3 DEF NotifyNext, registrations, EventTypeOK
<1>6. CASE NotifyOneType
  <2>0. stack # << >>
    BY <1>6 DEF NotifyOneType
  <2>1. Len(stack) \in DOMAIN stack /\ stack[Len(stack)] \in Frames
    BY <2>0, LastFrame
  <2> DEFINE f == stack[Len(stack)]
             more == f.owed \o Walk(f, "one")
  <2>5. more \in Seq(Registrants)
    <3>1. Walk(f, "one") \in Seq(Registrants) /\ f.owed \in Seq(Registrants)
      BY <2>1, WalkType DEF Frames
    <3> QED
      BY <3>1, ConcatProperties
  <2>2. [f EXCEPT !.part = "one", !.at = 0, !.owed = more] \in Frames
    <3> HIDE DEF more
    <3> QED
      BY <2>1, <2>5 DEF Frames
  <2>3. stack' = [stack EXCEPT ![Len(stack)] = [f EXCEPT !.part = "one", !.at = 0, !.owed = more]]
    BY <1>6, <2>0, NotifyOneIs
  <2> HIDE DEF more
  <2>4. stack' \in Seq(Frames)
    BY <2>1, <2>2, <2>3 DEF EventTypeOK
  <2> QED
    BY <1>6, <2>4 DEF NotifyOneType, registrations, EventTypeOK
<1>7. CASE AnnouncementEnds
  <2>1. stack # << >> /\ stack' = Front(stack)
    BY <1>7 DEF AnnouncementEnds
  <2>2. stack' \in Seq(Frames)
    BY <2>1, LastFrame
  <2>3. nested' \in BOOLEAN /\ should_not_be_modified' \in BOOLEAN
    <3>1. nested' = (Len(stack) > 1) /\ should_not_be_modified' = FALSE
      BY <1>7 DEF AnnouncementEnds
    <3>2. (Len(stack) > 1) \in BOOLEAN
      OBVIOUS
    <3> QED
      BY <3>1, <3>2, Zenon
  <2>4. UNCHANGED <<lists, containers, blocks, fate>>
    BY <1>7 DEF AnnouncementEnds, registrations
  <2> QED
    BY <2>2, <2>3, <2>4 DEF EventTypeOK
<1>8. CASE event_manager_destroy
  <2>1. PairsIn(lists) \in Int
    <3>1. CASE Lists = {}
      BY <3>1, PairsNone
    <3>2. CASE Lists # {}
      <4> PICK l \in Lists : TRUE
        BY <3>2
      <4> QED
        BY PairsChange DEF EventTypeOK
    <3> QED
      BY <3>1, <3>2
  <2>2. lists' \in [Lists -> Seq(Registrants)]
    <3>1. \/ lists' = [l \in Lists |-> << >>]
          \/ lists' = lists
      BY <1>8 DEF event_manager_destroy
    <3>2. [l \in Lists |-> << >>] \in [Lists -> Seq(Registrants)]
      OBVIOUS
    <3> QED
      BY <3>1, <3>2 DEF EventTypeOK
  <2>3. blocks' \in Int /\ fate' \in {"running", "disturbed", "crashed"}
    BY <1>8, <2>1 DEF event_manager_destroy, EventTypeOK
  <2>4. UNCHANGED <<containers, should_not_be_modified, stack, nested>>
    BY <1>8 DEF event_manager_destroy, progress
  <2> QED
    BY <2>2, <2>3, <2>4 DEF EventTypeOK
<1> QED
  BY <1>1, <1>2, <1>3, <1>4, <1>5, <1>6, <1>7, <1>8, NextIs

-----------------------------------------------------------------------------
\* Where no list and no index changes, no walk does.
LEMMA WalksStay ==
    ASSUME UNCHANGED <<lists, containers>>
    PROVE  \A i : /\ FrameRight(stack[i])' <=> FrameRight(stack'[i])
                  /\ BeganRight(stack[i])' <=> BeganRight(stack'[i])
BY DEF FrameRight, BeganRight, Walk, Exists

LEMMA PrefixNext ==
    ASSUME NEW s \in Seq(Registrants), NEW at \in Nat, at + 1 \in 1 .. Len(s)
    PROVE  /\ SubSeq(s, 1, at + 1) = Append(SubSeq(s, 1, at), s[at + 1])
           /\ SubSeq(s, 1, at) \in Seq(Registrants) /\ s[at + 1] \in Registrants
<1>1. 1 \in 1 .. Len(s) /\ at + 1 \in 1 .. Len(s)
  OBVIOUS
<1>2. ASSUME NEW k \in 1 .. Len(s) PROVE SubSeq(s, 1, k) = SubSeq(s, 1, k - 1) \o <<s[k]>>
  <2>1. 1 \in 1 .. Len(s) /\ k \in 1 .. Len(s)
    BY <1>1, <1>2
  <2> QED
    BY <2>1, SubSeqRecursiveSecond
<1> DEFINE k == at + 1
<1>3. k \in 1 .. Len(s) /\ k - 1 = at
  BY <1>1
<1> HIDE DEF k
<1>4. SubSeq(s, 1, k) = SubSeq(s, 1, k - 1) \o <<s[k]>>
  BY <1>2, <1>3
<1>5. SubSeq(s, 1, at + 1) = SubSeq(s, 1, at) \o <<s[at + 1]>>
  BY <1>3, <1>4 DEF k
<1>6. SubSeq(s, 1, at) \in Seq(Registrants) /\ s[at + 1] \in Registrants
  OBVIOUS
<1> QED
  BY <1>5, <1>6, AppendIsConcat

\* One call more, and one pair more is told.
LEMMA NotifyRight ==
    ASSUME EventTypeOK, NEW f \in Frames, FrameRight(f), f.at + 1 \in 1 .. Len(Walk(f, f.part))
    PROVE  FrameRight([f EXCEPT !.at = f.at + 1,
                                !.told = Append(f.told, Walk(f, f.part)[f.at + 1])])
<1> DEFINE w == Walk(f, f.part)
           x == w[f.at + 1]
           g == [f EXCEPT !.at = f.at + 1, !.told = Append(f.told, x)]
<1>1. /\ g.kind = f.kind /\ g.type = f.type /\ g.part = f.part /\ g.owed = f.owed
      /\ g.at = f.at + 1 /\ g.told = Append(f.told, x)
  BY DEF Frames
<1>2. Walk(g, g.part) = w
  BY <1>1 DEF Walk
<1>3. f.at \in Nat /\ w \in Seq(Registrants)
  BY WalkType DEF Frames
<1>4. PICK told \in Seq(Registrants) : f.owed = told \o w /\ f.told = told \o SubSeq(w, 1, f.at)
  BY DEF FrameRight
<1> DEFINE s == SubSeq(w, 1, f.at)
<1>5. SubSeq(w, 1, f.at + 1) = Append(s, x) /\ s \in Seq(Registrants) /\ x \in Registrants
  <2> HIDE DEF w
  <2> QED
    BY <1>3, PrefixNext DEF w
<1>6. g.told = Append(told \o s, x)
  BY <1>1, <1>4
<1> HIDE DEF w, s, x, g
<1>7. Append(told \o s, x) = (told \o s) \o <<x>>
  BY <1>5, AppendIsConcat, ConcatProperties
<1>8. (told \o s) \o <<x>> = told \o (s \o <<x>>)
  <2>1. <<x>> \in Seq(Registrants)
    BY <1>5
  <2> QED
    BY <1>5, <2>1, ConcatAssociative
<1>9. s \o <<x>> = Append(s, x)
  BY <1>5, AppendIsConcat
<1>10. g.told = told \o SubSeq(w, 1, g.at)
  BY <1>1, <1>5, <1>6, <1>7, <1>8, <1>9
<1>11. g.owed = told \o w
  BY <1>1, <1>4
<1>12. g.at <= Len(w)
  BY <1>1, <1>3 DEF w
<1>13. FrameRight(g)
  BY <1>2, <1>10, <1>11, <1>12 DEF FrameRight
<1> QED
  BY <1>13 DEF g, x, w

\* From the list of all types to that of one: what that has is owed from now on.
LEMMA NotifyOneRight ==
    ASSUME EventTypeOK, NEW f \in Frames, FrameRight(f), f.part = "all", f.at = Len(Walk(f, "all"))
    PROVE  /\ FrameRight([f EXCEPT !.part = "one", !.at = 0, !.owed = f.owed \o Walk(f, "one")])
           /\ BeganRight(f) =>
                BeganRight([f EXCEPT !.part = "one", !.at = 0, !.owed = f.owed \o Walk(f, "one")])
<1> DEFINE w(part) == Walk(f, part)
           g == [f EXCEPT !.part = "one", !.at = 0, !.owed = f.owed \o w("one")]
<1>1. /\ g.kind = f.kind /\ g.type = f.type /\ g.part = "one" /\ g.began = f.began
      /\ g.owed = f.owed \o w("one") /\ g.at = 0 /\ g.told = f.told
  BY DEF Frames
<1>2. Walk(g, "one") = w("one")
  BY <1>1 DEF Walk
<1>3. w("all") \in Seq(Registrants) /\ w("one") \in Seq(Registrants) /\ f.owed \in Seq(Registrants)
  BY WalkType DEF Frames
<1>4. PICK told \in Seq(Registrants) : /\ f.owed = told \o w("all")
                                       /\ f.told = told \o SubSeq(w("all"), 1, Len(w("all")))
  BY DEF FrameRight
<1>10. BeganRight(f) => f.began = f.owed \o w("one")
  BY DEF BeganRight
<1> HIDE DEF g, w
<1>5. f.told = f.owed
  BY <1>3, <1>4, SubSeqFull
<1>6. SubSeq(w("one"), 1, 0) = << >>
  BY SubSeqEmpty
<1>7. f.owed \o SubSeq(w("one"), 1, 0) = f.owed
  BY <1>3, <1>6, ConcatEmptySeq
<1>8. 0 <= Len(w("one"))
  BY <1>3
<1>9. FrameRight(g)
  BY <1>1, <1>2, <1>3, <1>5, <1>7, <1>8 DEF FrameRight
<1>11. BeganRight(f) => BeganRight(g)
  <2> SUFFICES ASSUME BeganRight(f) PROVE BeganRight(g)
    OBVIOUS
  <2>1. g.owed \in Seq(Registrants)
    BY <1>1, <1>3, ConcatProperties
  <2>2. g.owed \o << >> = g.owed
    BY <2>1, ConcatEmptySeq
  <2> QED
    BY <1>1, <1>10, <2>2 DEF BeganRight
<1> QED
  BY <1>9, <1>11 DEF g, w

LEMMA AnnounceRight ==
    ASSUME EventTypeOK, NEW kind \in Kinds \cup {"neither"}, NEW type \in Types \cup {ALL_OBJECT_TYPES}
    PROVE  LET e == [kind |-> kind, type |-> type]
               f == [kind |-> kind, type |-> type, part |-> "all", at |-> 0, told |-> << >>,
                     owed |-> Walk(e, "all"), began |-> Walk(e, "all") \o Walk(e, "one")]
           IN  FrameRight(f) /\ BeganRight(f)
<1> DEFINE e == [kind |-> kind, type |-> type]
           f == [kind |-> kind, type |-> type, part |-> "all", at |-> 0, told |-> << >>,
                 owed |-> Walk(e, "all"), began |-> Walk(e, "all") \o Walk(e, "one")]
<1>1. Walk(f, "all") = Walk(e, "all") /\ Walk(f, "one") = Walk(e, "one")
  BY DEF Walk
<1>2. Walk(e, "all") \in Seq(Registrants)
  BY EventWalks
<1>3. SubSeq(Walk(f, "all"), 1, 0) = << >> /\ 0 <= Len(Walk(f, "all"))
  BY <1>1, <1>2, SubSeqEmpty
<1>4. /\ << >> \in Seq(Registrants)
      /\ << >> \o Walk(f, "all") = Walk(f, "all") /\ << >> \o << >> = << >>
  BY <1>1, <1>2, ConcatEmptySeq
<1>5. f.owed = Walk(f, "all") /\ f.told = << >> /\ f.part = "all" /\ f.at = 0
      /\ f.began = f.owed \o Walk(f, "one")
  BY <1>1
<1> HIDE DEF f
<1>6. FrameRight(f)
  BY <1>3, <1>4, <1>5 DEF FrameRight
<1>7. BeganRight(f)
  BY <1>5 DEF BeganRight
<1> QED
  BY <1>6, <1>7 DEF f

LEMMA NextFramesRight == EventTypeOK /\ FramesRight /\ [EventNext]_eventVars => FramesRight'
<1> SUFFICES ASSUME EventTypeOK, FramesRight, [EventNext]_eventVars, fate' = "running",
                    NEW i \in DOMAIN stack'
             PROVE  FrameRight(stack[i])'
  BY DEF FramesRight
<1>0. fate = "running"
  BY NextIs DEF eventVars
<1>1. \A k \in DOMAIN stack : FrameRight(stack[k])
  BY <1>0 DEF FramesRight
<1>2. CASE UNCHANGED eventVars
  BY <1>1, <1>2, WalksStay DEF eventVars
<1>3. ASSUME NEW l \in Lists, NEW r \in Registrants, register(l, r) \/ un_register(l, r)
      PROVE  FrameRight(stack[i])'
  <2>1. stack' = stack /\ AfterChange
    BY <1>3 DEF register, un_register, progress
  <2>2. Walk(stack[i], stack[i].part)' = Walk(stack[i], stack[i].part)
    BY <2>1 DEF AfterChange
  <2>3. FrameRight(stack[i])
    BY <1>1, <2>1
  <2> QED
    BY <2>1, <2>2, <2>3 DEF FrameRight
<1>4. ASSUME NEW kind \in Kinds \cup {"neither"}, NEW type \in Types \cup {ALL_OBJECT_TYPES},
             announce_event(kind, type)
      PROVE  FrameRight(stack[i])'
  <2> DEFINE e == [kind |-> kind, type |-> type]
             f == [kind |-> kind, type |-> type, part |-> "all", at |-> 0, told |-> << >>,
                   owed |-> Walk(e, "all"), began |-> Walk(e, "all") \o Walk(e, "one")]
  <2>1. stack' = Append(stack, f) /\ UNCHANGED <<lists, containers>>
    BY <1>4 DEF announce_event, registrations
  <2>2. FrameRight(f)
    BY <1>4, AnnounceRight
  <2>3. (i \in DOMAIN stack /\ stack'[i] = stack[i]) \/ stack'[i] = f
    BY <2>1 DEF EventTypeOK
  <2> HIDE DEF f
  <2>4. FrameRight(stack'[i])
    BY <1>1, <2>2, <2>3
  <2> QED
    BY <2>1, <2>4, WalksStay
<1>5. CASE NotifyNext
  <2> DEFINE n == Len(stack)
             f == stack[n]
             x == Walk(f, f.part)[f.at + 1]
             g == [f EXCEPT !.at = f.at + 1, !.told = Append(f.told, x)]
  <2>1. /\ n \in DOMAIN stack /\ f \in Frames /\ f.at + 1 \in 1 .. Len(Walk(f, f.part))
        /\ stack' = [stack EXCEPT ![n] = g]
    BY <1>0, <1>5, NotifyIs
  <2>2. FrameRight(g)
    BY <1>1, <2>1, NotifyRight
  <2> HIDE DEF g
  <2>3. i \in DOMAIN stack /\ (stack'[i] = stack[i] \/ stack'[i] = g)
    BY <2>1 DEF EventTypeOK
  <2>4. FrameRight(stack'[i])
    BY <1>1, <2>2, <2>3
  <2> QED
    BY <1>5, <2>4, WalksStay DEF NotifyNext, registrations
<1>6. CASE NotifyOneType
  <2> DEFINE n == Len(stack)
             f == stack[n]
             g == [f EXCEPT !.part = "one", !.at = 0, !.owed = f.owed \o Walk(f, "one")]
  <2>1. /\ n \in DOMAIN stack /\ f \in Frames /\ f.part = "all" /\ f.at = Len(Walk(f, "all"))
        /\ stack' = [stack EXCEPT ![n] = g]
    BY <1>6, OneTypeIs
  <2>4. FrameRight(g)
    BY <1>1, <2>1, NotifyOneRight
  <2> HIDE DEF g
  <2>6. i \in DOMAIN stack /\ (stack'[i] = stack[i] \/ stack'[i] = g)
    BY <2>1 DEF EventTypeOK
  <2>7. FrameRight(stack'[i])
    BY <1>1, <2>4, <2>6
  <2> QED
    BY <1>6, <2>7, WalksStay DEF NotifyOneType, registrations
<1>7. CASE AnnouncementEnds
  <2>1. stack # << >> /\ stack' = Front(stack) /\ UNCHANGED <<lists, containers>>
    BY <1>7 DEF AnnouncementEnds, registrations
  <2>2. FrameRight(stack'[i])
    BY <1>1, <2>1, LastFrame
  <2> QED
    BY <2>1, <2>2, WalksStay
<1>8. CASE event_manager_destroy
  BY <1>8 DEF event_manager_destroy, progress
<1> QED
  BY <1>2, <1>3, <1>4, <1>5, <1>6, <1>7, <1>8, NextIs

\* While no announcement inside another one has returned, the flag is up and
\* the lists are those they were.
LEMMA NextFramesBegan ==
    EventTypeOK /\ FlagRight /\ FramesRight /\ FramesBegan /\ [EventNext]_eventVars => FramesBegan'
<1> SUFFICES ASSUME EventTypeOK, FlagRight, FramesRight, FramesBegan, [EventNext]_eventVars, ~nested',
                    NEW i \in DOMAIN stack'
             PROVE  BeganRight(stack[i])'
  BY DEF FramesBegan
<1>1. CASE UNCHANGED eventVars
  BY <1>1, WalksStay DEF eventVars, FramesBegan
<1>3. ASSUME NEW l \in Lists, NEW r \in Registrants, register(l, r) \/ un_register(l, r)
      PROVE  FALSE
  <2>1. stack' = stack /\ nested' = nested /\ ~should_not_be_modified
    BY <1>3 DEF register, un_register, progress, CanBeModified
  <2>2. stack = << >>
    BY <2>1 DEF FlagRight
  <2> QED
    BY <2>1, <2>2
<1>4. ASSUME NEW kind \in Kinds \cup {"neither"}, NEW type \in Types \cup {ALL_OBJECT_TYPES},
             announce_event(kind, type)
      PROVE  BeganRight(stack[i])'
  <2> DEFINE e == [kind |-> kind, type |-> type]
             f == [kind |-> kind, type |-> type, part |-> "all", at |-> 0, told |-> << >>,
                   owed |-> Walk(e, "all"), began |-> Walk(e, "all") \o Walk(e, "one")]
  <2>1. stack' = Append(stack, f) /\ nested' = nested /\ UNCHANGED <<lists, containers>>
    BY <1>4 DEF announce_event, registrations
  <2>2. BeganRight(f)
    BY <1>4, AnnounceRight
  <2>3. (i \in DOMAIN stack /\ stack'[i] = stack[i]) \/ stack'[i] = f
    BY <2>1 DEF EventTypeOK
  <2> HIDE DEF f
  <2>4. BeganRight(stack'[i])
    BY <2>1, <2>2, <2>3 DEF FramesBegan
  <2> QED
    BY <2>1, <2>4, WalksStay
<1>5. ASSUME fate = "running", NotifyNext PROVE BeganRight(stack[i])'
  <2> DEFINE n == Len(stack)
             f == stack[n]
             x == Walk(f, f.part)[f.at + 1]
             g == [f EXCEPT !.at = f.at + 1, !.told = Append(f.told, x)]
  <2>1. /\ n \in DOMAIN stack /\ f \in Frames /\ stack' = [stack EXCEPT ![n] = g]
    BY <1>5, NotifyIs
  <2>2. nested' = nested /\ UNCHANGED <<lists, containers>>
    BY <1>5 DEF NotifyNext, registrations
  <2>3. BeganRight(f)
    BY <2>1, <2>2 DEF FramesBegan
  <2>4. /\ g.kind = f.kind /\ g.type = f.type /\ g.part = f.part
        /\ g.owed = f.owed /\ g.began = f.began
    BY <2>1 DEF Frames
  <2> HIDE DEF g
  <2>5. BeganRight(g)
    BY <2>3, <2>4 DEF BeganRight, Walk
  <2>6. i \in DOMAIN stack /\ (stack'[i] = stack[i] \/ stack'[i] = g)
    BY <2>1 DEF EventTypeOK
  <2>7. BeganRight(stack'[i])
    BY <2>2, <2>5, <2>6 DEF FramesBegan
  <2> QED
    BY <2>2, <2>7, WalksStay
<1>6. ASSUME fate = "running", NotifyOneType PROVE BeganRight(stack[i])'
  <2> DEFINE n == Len(stack)
             f == stack[n]
             g == [f EXCEPT !.part = "one", !.at = 0, !.owed = f.owed \o Walk(f, "one")]
  <2>1. /\ n \in DOMAIN stack /\ f \in Frames /\ f.part = "all" /\ f.at = Len(Walk(f, "all"))
        /\ stack' = [stack EXCEPT ![n] = g]
    BY <1>6, OneTypeIs
  <2>2. nested' = nested /\ UNCHANGED <<lists, containers>>
    BY <1>6 DEF NotifyOneType, registrations
  <2>3. BeganRight(f) /\ FrameRight(f)
    BY <1>6, <2>1, <2>2 DEF FramesBegan, FramesRight
  <2>4. BeganRight(g)
    BY <2>1, <2>3, NotifyOneRight
  <2> HIDE DEF g
  <2>6. i \in DOMAIN stack /\ (stack'[i] = stack[i] \/ stack'[i] = g)
    BY <2>1 DEF EventTypeOK
  <2>7. BeganRight(stack'[i])
    BY <2>2, <2>4, <2>6 DEF FramesBegan
  <2> QED
    BY <2>2, <2>7, WalksStay
<1>7. CASE AnnouncementEnds
  <2>1. stack # << >> /\ stack' = Front(stack) /\ nested' = (Len(stack) > 1)
    BY <1>7 DEF AnnouncementEnds
  <2>2. ~(Len(stack) > 1)
    BY <2>1, Zenon
  <2>3. Len(stack') = Len(stack) - 1 /\ Len(stack) \in Nat /\ stack' \in Seq(Frames)
    BY <2>1, LastFrame DEF EventTypeOK
  <2>4. DOMAIN stack' = 1 .. Len(stack')
    BY <2>3
  <2> QED
    BY <2>2, <2>3, <2>4
<1>8. CASE event_manager_destroy
  BY <1>8 DEF event_manager_destroy, progress
<1> QED
  BY <1>1, <1>3, <1>4, <1>5, <1>6, <1>7, <1>8, NextIs

LEMMA NextFlagRight == EventTypeOK /\ FlagRight /\ [EventNext]_eventVars => FlagRight'
<1> SUFFICES ASSUME EventTypeOK, FlagRight, [EventNext]_eventVars PROVE FlagRight'
  OBVIOUS
<1>1. CASE UNCHANGED eventVars
  BY <1>1 DEF FlagRight, eventVars
<1>2. ASSUME NEW l \in Lists, NEW r \in Registrants, register(l, r) \/ un_register(l, r)
      PROVE  FlagRight'
  <2>1. ~should_not_be_modified /\ AfterChange /\ UNCHANGED <<should_not_be_modified, stack, nested>>
    BY <1>2 DEF register, un_register, progress, CanBeModified
  <2>2. fate' = "disturbed" => stack # << >>
    BY <2>1 DEF AfterChange, EventTypeOK
  <2> QED
    BY <2>1, <2>2 DEF FlagRight
<1>3. ASSUME NEW kind \in Kinds \cup {"neither"}, NEW type \in Types \cup {ALL_OBJECT_TYPES},
             announce_event(kind, type)
      PROVE  FlagRight'
  BY <1>3 DEF announce_event, FlagRight
<1>4. CASE NotifyNext
  BY <1>4 DEF NotifyNext, FlagRight
<1>5. CASE NotifyOneType
  BY <1>5 DEF NotifyOneType, FlagRight
<1>6. ASSUME fate = "running", AnnouncementEnds PROVE FlagRight'
  <2>1. stack # << >> /\ stack' = Front(stack) /\ nested' = (Len(stack) > 1) /\ fate' = fate
    BY <1>6 DEF AnnouncementEnds
  <2>2. Len(Front(stack)) = Len(stack) - 1 /\ Len(stack) \in Nat /\ Front(stack) \in Seq(Frames)
    BY <2>1, LastFrame DEF EventTypeOK
  <2>3. stack' # << >> => nested'
    <3> SUFFICES ASSUME stack' # << >> PROVE nested'
      OBVIOUS
    <3>1. Len(stack) > 1
      BY <2>1, <2>2
    <3> QED
      BY <2>1, <3>1, Zenon
  <2> QED
    BY <1>6, <2>1, <2>3 DEF FlagRight
<1>7. CASE event_manager_destroy
  BY <1>7 DEF event_manager_destroy, progress, FlagRight
<1> QED
  BY <1>1, <1>2, <1>3, <1>4, <1>5, <1>6, <1>7, NextIs

LEMMA WalkInvariance == EventSpec => []WalkInv
<1>1. EventInit => WalkInv
  <2> SUFFICES ASSUME EventInit PROVE WalkInv
    OBVIOUS
  <2>1. stack = << >> /\ fate = "running"
    BY DEF EventInit
  <2> QED
    BY <2>1, InitTypeOK DEF WalkInv, FlagRight, FramesRight, FramesBegan
<1>2. WalkInv /\ [EventNext]_eventVars => WalkInv'
  BY NextTypeOK, NextFramesRight, NextFlagRight, NextFramesBegan DEF WalkInv
<1> QED
  BY <1>1, <1>2, PTL DEF EventSpec

\* No list changes under a walk, whatever the user's functions call, unless
\* one of them made an announcement that has cleared the flag
\* (event_manager.c:412).
THEOREM WalksStaySafe == EventSpec => []WalksAreSafe
<1>1. WalkInv => WalksAreSafe
  BY DEF WalkInv, FlagRight, WalksAreSafe
<1> QED
  BY <1>1, WalkInvariance, PTL

\* Every announcement that returns has told, in order and once for each
\* registration, those that its lists had when it came to them, at any depth,
\* and unless the flag was cleared under it those that they had when it began
\* (event_manager.c:399).
THEOREM AllAreTold == EventSpec => ToldAll
<1>1. ASSUME WalkInv, [EventNext]_eventVars
      PROVE  [Len(stack') < Len(stack) =>
                /\ Last(stack).told = Last(stack).owed
                /\ nested \/ Last(stack).told = Last(stack).began]_eventVars
  <2> SUFFICES ASSUME EventNext, Len(stack') < Len(stack)
               PROVE  /\ Last(stack).told = Last(stack).owed
                      /\ nested \/ Last(stack).told = Last(stack).began
    BY <1>1
  <2>0. EventTypeOK /\ FramesRight /\ FramesBegan /\ fate = "running" /\ Len(stack) \in Nat
    BY <1>1, NextIs DEF WalkInv, EventTypeOK
  <2>1. CASE AnnouncementEnds
    <3> DEFINE f == Last(stack)
               w == Walk(f, "one")
    <3>1. f \in Frames /\ FrameRight(f) /\ f.part = "one" /\ f.at = Len(w)
      BY <2>0, <2>1, LastFrame DEF AnnouncementEnds, AtEnd, FramesRight
    <3>2. w \in Seq(Registrants) /\ f.owed \in Seq(Registrants)
      BY <2>0, <3>1, WalkType DEF Frames
    <3>3. PICK told : f.owed = told \o w /\ f.told = told \o SubSeq(w, 1, Len(w))
      BY <3>1 DEF FrameRight
    <3>4. SubSeq(w, 1, Len(w)) = w
      BY <3>2, SubSeqFull
    <3>5. f.told = f.owed
      BY <3>3, <3>4
    <3>6. nested \/ BeganRight(f)
      BY <2>0, <2>1, LastFrame DEF AnnouncementEnds, FramesBegan
    <3>7. BeganRight(f) => f.began = f.owed
      BY <3>1, <3>2, ConcatEmptySeq DEF BeganRight
    <3> QED
      BY <3>5, <3>6, <3>7
  <2>2. ~AnnouncementEnds => Len(stack') >= Len(stack)
    <3>1. ASSUME NEW l \in Lists, NEW r \in Registrants, register(l, r) \/ un_register(l, r)
          PROVE  stack' = stack
      BY <3>1 DEF register, un_register, progress
    <3>2. ASSUME NEW kind, NEW type, announce_event(kind, type)
          PROVE  Len(stack') >= Len(stack)
      BY <2>0, <3>2 DEF announce_event, EventTypeOK
    <3>3. NotifyNext \/ NotifyOneType => Len(stack') = Len(stack)
      BY <2>0 DEF NotifyNext, NotifyOneType, EventTypeOK
    <3>4. event_manager_destroy => stack' = stack
      BY DEF event_manager_destroy, progress
    <3> QED
      BY <2>0, <3>1, <3>2, <3>3, <3>4, NextIs
  <2>3. Len(stack') \in Nat
    BY <1>1, NextTypeOK DEF WalkInv, EventTypeOK
  <2> QED
    BY <2>0, <2>1, <2>2, <2>3
<1> QED
  BY <1>1, WalkInvariance, PTL DEF EventSpec, ToldAll

\* Only a registration that failed leaves a container without pairs.
THEOREM ContainersAreNeeded == EventSpec => NoEmptyContainers
<1>1. ASSUME EventTypeOK, [EventNext]_eventVars
      PROVE  [\A l \in containers' :
                 (lists'[l] = << >> /\ (l \notin containers \/ lists[l] # << >>))
                   => \E r \in Registrants : RegisterFails(l, r)]_eventVars
  <2> SUFFICES ASSUME EventNext, NEW l \in containers', lists'[l] = << >>,
                      l \notin containers \/ lists[l] # << >>
               PROVE  \E r \in Registrants : RegisterFails(l, r)
    BY <1>1
  <2>1. ASSUME NEW k \in Lists, NEW r \in Registrants, RegisterNew(k, r) PROVE FALSE
    <3>1. lists[k] \in Seq(Registrants) /\ StopFor(k, r) \in 1 .. Len(lists[k]) + 1
      BY <1>1, StopIs DEF EventTypeOK
    <3>2. Len(InsertAt(lists[k], StopFor(k, r), r)) = Len(lists[k]) + 1
      BY <3>1, InsertAtIs
    <3>3. lists'[k] = InsertAt(lists[k], StopFor(k, r), r) /\ \A j \in Lists \ {k} : lists'[j] = lists[j]
      BY <1>1, <2>1 DEF RegisterNew, EventTypeOK
    <3>4. lists'[k] # << >>
      BY <3>1, <3>2, <3>3
    <3>5. l # k /\ l \in containers /\ l \in Lists
      BY <1>1, <2>1, <3>4 DEF RegisterNew, create_f_and_arg_container, EventTypeOK, Lists
    <3> QED
      BY <3>3, <3>5
  <2>2. ASSUME NEW k \in Lists, NEW r \in Registrants, RegisterFails(k, r)
        PROVE  \E q \in Registrants : RegisterFails(l, q)
    <3>1. l = k
      BY <2>2 DEF RegisterFails, create_f_and_arg_container
    <3> QED
      BY <2>2, <3>1
  <2>3. ASSUME NEW k \in Lists, NEW r \in Registrants, un_register(k, r) PROVE FALSE
    <3>1. /\ \A j \in Lists \ {k} : lists'[j] = lists[j]
          /\ containers' \subseteq containers
          /\ lists'[k] = << >> => k \notin containers'
      BY <1>1, <2>3 DEF un_register, destroy_f_and_arg_container, EventTypeOK
    <3>2. l \in Lists
      BY <1>1, <3>1 DEF EventTypeOK, Lists
    <3> QED
      BY <3>1, <3>2
  <2>4. ASSUME UNCHANGED <<lists, containers>> PROVE FALSE
    BY <2>4
  <2>5. ASSUME event_manager_destroy PROVE FALSE
    BY <2>5 DEF event_manager_destroy
  <2>6. (\E kind, type : announce_event(kind, type)) \/ NotifyNext \/ NotifyOneType
          \/ AnnouncementEnds => UNCHANGED <<lists, containers>>
    BY DEF announce_event, NotifyNext, NotifyOneType, AnnouncementEnds, registrations
  <2>7. ASSUME NEW k \in Lists, NEW r \in Registrants, RegisterPresent(k, r) PROVE FALSE
    BY <2>7 DEF RegisterPresent, registrations
  <2> QED
    BY <2>1, <2>2, <2>3, <2>4, <2>5, <2>6, <2>7, NextIs DEF register
<1>2. WalkInv => EventTypeOK
  BY DEF WalkInv
<1> QED
  BY <1>1, <1>2, WalkInvariance, PTL DEF EventSpec, NoEmptyContainers

-----------------------------------------------------------------------------
\* An insertion at the stop of a pair that the list does not have.
LEMMA InsertAscends ==
    ASSUME ComparisonOrders, NEW l, NEW r \in Registrants,
           lists[l] \in Seq(Registrants), Ascending(lists[l]), ~Present(l, r)
    PROVE  Ascending(InsertAt(lists[l], StopFor(l, r), r))
<1> DEFINE s == lists[l]
           k == StopFor(l, r)
           t == InsertAt(s, k, r)
<1>1. k \in 1 .. Len(s) + 1 /\ Len(s) \in Nat
  BY StopIs
<1>2. /\ t \in Seq(Registrants) /\ Len(t) = Len(s) + 1
      /\ \A i \in 1 .. Len(s) + 1 : t[i] = IF i < k THEN s[i] ELSE IF i = k THEN r ELSE s[i - 1]
  <2>1. s \in Seq(Registrants)
    OBVIOUS
  <2> HIDE DEF s, k
  <2> QED
    BY <1>1, <2>1, InsertAtIs
<1>3. \A i \in 1 .. Len(s) : s[i] \in Registrants
  OBVIOUS
<1>4. DOMAIN s = 1 .. Len(s) /\ r \notin ToSet(s)
  BY StopDivides
<1>5. \A i \in 1 .. Len(s) : IF i < k THEN Before(s[i], r) ELSE Before(r, s[i])
  <2> SUFFICES ASSUME NEW i \in 1 .. Len(s) PROVE IF i < k THEN Before(s[i], r) ELSE Before(r, s[i])
    OBVIOUS
  <2>1. IF i < k THEN Before(s[i], r) ELSE ~Before(s[i], r)
    BY StopDivides
  <2>2. s[i] # r /\ s[i] \in Registrants
    BY <1>3, <1>4 DEF ToSet
  <2>3. ~Before(s[i], r) => Before(r, s[i])
    BY <2>2, BeforeIs
  <2> HIDE DEF k
  <2> QED
    BY <2>1, <2>3
<1>6. \A i, j \in 1 .. Len(s) : i < j => Before(s[i], s[j])
  BY <1>4 DEF Ascending
<1> HIDE DEF s, k, t
<1>7. ASSUME NEW i \in 1 .. Len(s) + 1, NEW j \in 1 .. Len(s) + 1, i < j PROVE Before(t[i], t[j])
  <2>1. CASE j < k
    <3>1. i \in 1 .. Len(s) /\ j \in 1 .. Len(s) /\ t[i] = s[i] /\ t[j] = s[j]
      BY <1>1, <1>2, <1>7, <2>1
    <3> QED
      BY <1>6, <1>7, <3>1
  <2>2. CASE j = k
    <3>1. i \in 1 .. Len(s) /\ i < k /\ t[i] = s[i] /\ t[j] = r
      BY <1>1, <1>2, <1>7, <2>2
    <3> QED
      BY <1>5, <3>1
  <2>3. CASE j > k /\ i < k
    <3>1. i \in 1 .. Len(s) /\ j - 1 \in 1 .. Len(s) /\ ~(j - 1 < k) /\ t[i] = s[i] /\ t[j] = s[j - 1]
      BY <1>1, <1>2, <1>7, <2>3
    <3>2. Before(s[i], r) /\ Before(r, s[j - 1])
      BY <1>5, <2>3, <3>1
    <3>3. s[i] \in Registrants /\ s[j - 1] \in Registrants
      BY <1>3, <3>1
    <3> QED
      BY <3>1, <3>2, <3>3, BeforeIs
  <2>4. CASE j > k /\ i = k
    <3>1. j - 1 \in 1 .. Len(s) /\ ~(j - 1 < k) /\ t[i] = r /\ t[j] = s[j - 1]
      BY <1>1, <1>2, <1>7, <2>4
    <3> QED
      BY <1>5, <3>1
  <2>5. CASE j > k /\ i > k
    <3>1. i - 1 \in 1 .. Len(s) /\ j - 1 \in 1 .. Len(s) /\ i - 1 < j - 1
          /\ t[i] = s[i - 1] /\ t[j] = s[j - 1]
      BY <1>1, <1>2, <1>7, <2>5
    <3> QED
      BY <1>6, <3>1
  <2> QED
    BY <1>1, <2>1, <2>2, <2>3, <2>4, <2>5
<1>8. DOMAIN t = 1 .. Len(s) + 1
  BY <1>2
<1>9. Ascending(t)
  BY <1>7, <1>8 DEF Ascending
<1> QED
  BY <1>9 DEF s, k, t

LEMMA RemoveAscends ==
    ASSUME NEW s \in Seq(Registrants), Ascending(s), NEW k \in 1 .. Len(s)
    PROVE  Ascending(RemoveAt(s, k))
<1> DEFINE t == RemoveAt(s, k)
<1>1. /\ t \in Seq(Registrants) /\ Len(t) = Len(s) - 1
      /\ \A i \in 1 .. Len(s) - 1 : t[i] = IF i < k THEN s[i] ELSE s[i + 1]
  BY RemoveAtIs
<1> HIDE DEF t
<1>2. DOMAIN t = 1 .. Len(s) - 1 /\ DOMAIN s = 1 .. Len(s) /\ Len(s) \in Nat
  BY <1>1
<1>3. ASSUME NEW i \in DOMAIN t, NEW j \in DOMAIN t, i < j PROVE Before(t[i], t[j])
  <2> DEFINE a == IF i < k THEN i ELSE i + 1
             b == IF j < k THEN j ELSE j + 1
  <2>1. a \in DOMAIN s /\ b \in DOMAIN s /\ a < b
    BY <1>2, <1>3
  <2>2. t[i] = s[a] /\ t[j] = s[b]
    BY <1>1, <1>2
  <2> HIDE DEF a, b
  <2> QED
    BY <2>1, <2>2 DEF Ascending
<1> QED
  BY <1>3 DEF Ascending, t

\* What a change of one list means for the lists and the blocks.
LEMMA ListChanges ==
    ASSUME BlocksExact, EventTypeOK', NEW l \in Lists, NEW s \in Seq(Registrants),
           lists' = [lists EXCEPT ![l] = s],
           \A k \in Lists \ {l} : Exists(k) => Exists(k)',
           s # << >> => Exists(l)',
           blocks' = blocks + Len(s) - Len(lists[l]) + Cardinality(containers') - Cardinality(containers)
    PROVE  BlocksExact'
<1>1. lists \in [Lists -> Seq(Registrants)] /\ containers \in SUBSET Specific
      /\ containers' \in SUBSET Specific /\ blocks \in Int
  BY DEF BlocksExact, EventTypeOK
<1>3. \A k \in Lists : lists'[k] # << >> => Exists(k)'
  BY <1>1 DEF BlocksExact
<1>4. Cardinality(containers) \in Nat /\ Cardinality(containers') \in Nat
  BY <1>1, ContainersCount
<1>5. PairsIn(lists) \in Int /\ PairsIn(lists') = PairsIn(lists) - Len(lists[l]) + Len(s)
  BY <1>1, PairsChange
<1>6. blocks' = PairsIn(lists)' + Cardinality(containers')
  <2>1. blocks = PairsIn(lists) + Cardinality(containers)
    BY DEF BlocksExact
  <2>2. Len(s) \in Nat /\ Len(lists[l]) \in Nat
    BY <1>1
  <2>3. PairsIn(lists)' = PairsIn(lists')
    BY DEF PairsIn
  <2> QED
    BY <1>1, <1>4, <1>5, <2>1, <2>2, <2>3
<1> QED
  BY <1>3, <1>6 DEF BlocksExact

LEMMA NextBlocks ==
    ASSUME WalkInv, BlocksExact, [EventNext]_eventVars
    PROVE  BlocksExact'
<1>1. EventTypeOK /\ EventTypeOK' /\ lists \in [Lists -> Seq(Registrants)] /\ containers \in SUBSET Specific
      /\ containers' \in SUBSET Specific /\ blocks \in Int
  BY NextTypeOK DEF WalkInv, EventTypeOK
<1>2. ASSUME UNCHANGED <<lists, containers, blocks>> PROVE BlocksExact'
  BY <1>1, <1>2 DEF BlocksExact, Exists, PairsIn
<1>3. ASSUME NEW l \in Lists, NEW r \in Registrants, register(l, r) PROVE BlocksExact'
  <2>0. /\ lists[l] \in Seq(Registrants) /\ StopFor(l, r) \in 1 .. Len(lists[l]) + 1
        /\ lists[l] # << >> => Exists(l)
    BY <1>1, StopIs DEF BlocksExact
  <2> DEFINE more == create_f_and_arg_container(l)
  <2>1. \A k \in Lists : containers \subseteq containers' /\ Exists(k) => Exists(k)'
    BY DEF Exists
  <2>2. containers \subseteq containers' =>
          Cardinality(containers') - Cardinality(containers) = Cardinality(containers' \ containers)
    BY <1>1, ContainersCount
  <2>3. CASE RegisterNew(l, r)
    <3> DEFINE s == InsertAt(lists[l], StopFor(l, r), r)
    <3>2. s \in Seq(Registrants) /\ Len(s) = Len(lists[l]) + 1
      BY <2>0, InsertAtIs
    <3>3. /\ lists' = [lists EXCEPT ![l] = s] /\ containers' = containers \cup more
          /\ blocks' = blocks + 1 + Cardinality(containers' \ containers)
      BY <2>3 DEF RegisterNew
    <3> HIDE DEF s
    <3>4. Exists(l)'
      BY <3>3, ListsAre DEF Exists, create_f_and_arg_container
    <3>5. containers \subseteq containers'
      BY <3>3
    <3>6. Cardinality(containers) \in Nat /\ Cardinality(containers') \in Nat
          /\ Cardinality(containers' \ containers) \in Nat
      BY <1>1, <3>5, ContainersCount
    <3>8. Len(lists[l]) \in Nat
      BY <2>0
    <3>7. blocks' = blocks + Len(s) - Len(lists[l]) + Cardinality(containers') - Cardinality(containers)
      BY <1>1, <2>2, <3>2, <3>3, <3>5, <3>6, <3>8
    <3> QED
      BY <1>1, <2>1, <3>2, <3>3, <3>4, <3>5, <3>7, ListChanges
  <2>4. CASE RegisterPresent(l, r)
    BY <1>2, <2>4 DEF RegisterPresent, registrations
  <2>5. CASE RegisterFails(l, r)
    <3>1. /\ lists' = [lists EXCEPT ![l] = lists[l]] /\ containers \subseteq containers'
          /\ blocks' = blocks + Cardinality(containers' \ containers)
      BY <1>1, <2>5 DEF RegisterFails
    <3>2. Cardinality(containers) \in Nat /\ Cardinality(containers') \in Nat
          /\ Cardinality(containers' \ containers) \in Nat
      BY <1>1, <3>1, ContainersCount
    <3>4. Len(lists[l]) \in Nat
      BY <2>0
    <3>3. blocks' = blocks + Len(lists[l]) - Len(lists[l]) + Cardinality(containers') - Cardinality(containers)
      BY <1>1, <2>2, <3>1, <3>2, <3>4
    <3> QED
      BY <1>1, <2>0, <2>1, <3>1, <3>3, ListChanges
  <2> QED
    BY <1>3, <2>3, <2>4, <2>5 DEF register
<1>4. ASSUME NEW l \in Lists, NEW r \in Registrants, un_register(l, r) PROVE BlocksExact'
  <2> DEFINE s == IF Present(l, r) THEN RemoveAt(lists[l], StopFor(l, r)) ELSE lists[l]
  <2>1. lists[l] \in Seq(Registrants) /\ StopFor(l, r) \in 1 .. Len(lists[l]) + 1
    BY <1>1, StopIs
  <2>2. /\ s \in Seq(Registrants)
        /\ Len(s) = Len(lists[l]) - (IF Present(l, r) THEN 1 ELSE 0)
    <3>1. CASE Present(l, r)
      <4>1. StopFor(l, r) \in 1 .. Len(lists[l])
        BY <2>1, <3>1 DEF Present
      <4> QED
        BY <2>1, <3>1, <4>1, RemoveAtIs
    <3>2. CASE ~Present(l, r)
      BY <2>1, <3>2
    <3> QED
      BY <3>1, <3>2
  <2>3. /\ lists' = [lists EXCEPT ![l] = s] /\ Exists(l)
        /\ containers' = IF s = << >> THEN containers \ {l} ELSE containers
        /\ blocks' = blocks - (IF Present(l, r) THEN 1 ELSE 0) - Cardinality(containers \ containers')
    <3>1. lists'[l] = s
      BY <1>1, <1>4 DEF un_register
    <3> QED
      BY <1>4, <3>1 DEF un_register, destroy_f_and_arg_container
  <2>4. Cardinality(containers) \in Nat /\ Cardinality(containers') \in Nat
        /\ Cardinality(containers \ containers') = Cardinality(containers) - Cardinality(containers')
    <3>1. containers' \subseteq containers
      BY <2>3
    <3>2. containers \in SUBSET Specific /\ containers' \in SUBSET Specific
      BY <1>1, <3>1
    <3> DEFINE A == containers'
               B == containers
    <3>3. /\ Cardinality(A) \in Nat /\ Cardinality(B \ A) \in Nat
          /\ Cardinality(B) = Cardinality(A) + Cardinality(B \ A)
      BY <3>1, <3>2, ContainersCount
    <3> QED
      BY <3>3
  <2>5. Len(s) \in Nat /\ Len(lists[l]) \in Nat
    <3> HIDE DEF s
    <3> QED
      BY <2>1, <2>2
  <2> HIDE DEF s
  <2>6. blocks' = blocks + Len(s) - Len(lists[l]) + Cardinality(containers') - Cardinality(containers)
    BY <1>1, <2>2, <2>3, <2>4, <2>5
  <2>7. /\ \A k \in Lists \ {l} : Exists(k) => Exists(k)'
        /\ s # << >> => Exists(l)'
    BY <2>3 DEF Exists
  <2> QED
    BY <1>1, <2>2, <2>3, <2>6, <2>7, ListChanges
<1>5. ASSUME event_manager_destroy PROVE BlocksExact'
  <2>1. CASE containers = {}
    <3>1. \A l \in Lists : lists'[l] = << >>
      BY <1>5, <2>1 DEF event_manager_destroy
    <3>2. blocks' = blocks - PairsIn(lists) /\ containers' = {}
      BY <1>5, <2>1 DEF event_manager_destroy
    <3>3. Cardinality({}) = 0
      BY FS_EmptySet
    <3>4. PairsIn(lists)' = 0
      <4>1. PairsIn(lists') = 0
        BY <3>1, PairsNone
      <4> QED
        BY <4>1 DEF PairsIn
    <3>5. blocks = PairsIn(lists) + Cardinality(containers)
      BY DEF BlocksExact
    <3>6. PairsIn(lists) \in Int
      <4>1. <<"object", ALL_OBJECT_TYPES>> \in Lists
        BY ListsAre DEF Kinds
      <4>2. lists[<<"object", ALL_OBJECT_TYPES>>] \in Seq(Registrants)
        BY <1>1, <4>1
      <4> QED
        BY <1>1, <4>1, <4>2, PairsChange
    <3>7. blocks' = 0
      BY <2>1, <3>2, <3>3, <3>5, <3>6
    <3> QED
      BY <1>1, <3>1, <3>2, <3>3, <3>4, <3>7 DEF BlocksExact
  <2>2. CASE containers # {}
    BY <1>2, <1>5, <2>2 DEF event_manager_destroy
  <2> QED
    BY <2>1, <2>2
<1>6. CASE UNCHANGED eventVars
  BY <1>2, <1>6 DEF eventVars
<1>7. ASSUME (\E kind, type : announce_event(kind, type)) \/ NotifyNext \/ NotifyOneType \/ AnnouncementEnds
      PROVE  BlocksExact'
  BY <1>2, <1>7 DEF announce_event, NotifyNext, NotifyOneType, AnnouncementEnds, registrations
<1> QED
  BY <1>3, <1>4, <1>5, <1>6, <1>7, NextIs

\* The lists stay in order, if there is one.
LEMMA NextAscend ==
    ASSUME ComparisonOrders, WalkInv, BlocksExact, ListsAscend, [EventNext]_eventVars
    PROVE  ListsAscend'
<1>1. EventTypeOK /\ lists \in [Lists -> Seq(Registrants)]
  BY DEF WalkInv, EventTypeOK
<1>2. ASSUME UNCHANGED lists PROVE ListsAscend'
  BY <1>2 DEF ListsAscend
<1>3. ASSUME NEW l \in Lists, NEW r \in Registrants, RegisterNew(l, r) PROVE ListsAscend'
  <2>1. /\ lists[l] \in Seq(Registrants) /\ Ascending(lists[l])
        /\ lists[l] # << >> => Exists(l)
    BY <1>1 DEF ListsAscend, BlocksExact
  <2>2. ~Present(l, r)
    <3>1. CASE Exists(l)
      BY <1>3, <3>1 DEF RegisterNew, already_registered
    <3>2. CASE ~Exists(l)
      <4>1. lists[l] = << >> /\ StopFor(l, r) \in 1 .. Len(lists[l]) + 1
        BY <2>1, <3>2, StopIs
      <4> QED
        BY <4>1 DEF Present
    <3> QED
      BY <3>1, <3>2
  <2>3. Ascending(InsertAt(lists[l], StopFor(l, r), r))
    BY <2>1, <2>2, InsertAscends
  <2>4. lists' = [lists EXCEPT ![l] = InsertAt(lists[l], StopFor(l, r), r)]
    BY <1>3 DEF RegisterNew
  <2> QED
    BY <1>1, <2>3, <2>4 DEF ListsAscend
<1>4. ASSUME NEW l \in Lists, NEW r \in Registrants, un_register(l, r) PROVE ListsAscend'
  <2>1. lists[l] \in Seq(Registrants) /\ Ascending(lists[l]) /\ StopFor(l, r) \in 1 .. Len(lists[l]) + 1
    BY <1>1, StopIs DEF ListsAscend
  <2>2. Present(l, r) => Ascending(RemoveAt(lists[l], StopFor(l, r)))
    <3> SUFFICES ASSUME Present(l, r) PROVE Ascending(RemoveAt(lists[l], StopFor(l, r)))
      OBVIOUS
    <3>1. StopFor(l, r) \in 1 .. Len(lists[l])
      BY <2>1 DEF Present
    <3> QED
      BY <2>1, <3>1, RemoveAscends
  <2>3. lists' = [lists EXCEPT ![l] = IF Present(l, r) THEN RemoveAt(@, StopFor(l, r)) ELSE @]
    BY <1>4 DEF un_register
  <2> QED
    BY <1>1, <2>1, <2>2, <2>3 DEF ListsAscend
<1>5. ASSUME event_manager_destroy PROVE ListsAscend'
  <2>1. CASE containers = {}
    <3>1. \A l \in Lists : lists'[l] = << >>
      BY <1>5, <2>1 DEF event_manager_destroy
    <3> QED
      BY <3>1 DEF ListsAscend, Ascending
  <2>2. CASE containers # {}
    BY <1>2, <1>5, <2>2 DEF event_manager_destroy
  <2> QED
    BY <2>1, <2>2
<1>6. CASE UNCHANGED eventVars
  BY <1>2, <1>6 DEF eventVars
<1>7. ASSUME (\E kind, type : announce_event(kind, type)) \/ NotifyNext \/ NotifyOneType \/ AnnouncementEnds
      PROVE  ListsAscend'
  BY <1>2, <1>7 DEF announce_event, NotifyNext, NotifyOneType, AnnouncementEnds, registrations
<1>8. ASSUME NEW l \in Lists, NEW r \in Registrants, register(l, r) PROVE ListsAscend'
  BY <1>2, <1>3, <1>8 DEF register, RegisterPresent, RegisterFails, registrations
<1> QED
  BY <1>4, <1>5, <1>6, <1>7, <1>8, NextIs

\* A list in order has each pair once, and a search finds what it has.
LEMMA AscendingSuffices ==
    ASSUME ComparisonOrders, BlocksExact, ListsAscend
    PROVE  RegistrationsExact
<1>1. EventTypeOK
  BY DEF BlocksExact
<1>2. ASSUME NEW l \in Lists
      PROVE  /\ \A r \in Registrants : already_registered(l, r) <=> r \in ToSet(lists[l])
             /\ IsInjective(lists[l])
  <2>1. lists[l] \in Seq(Registrants) /\ Ascending(lists[l]) /\ (lists[l] # << >> => Exists(l))
    BY <1>1 DEF EventTypeOK, ListsAscend, BlocksExact
  <2>2. \A r \in Registrants : Present(l, r) <=> r \in ToSet(lists[l])
    BY <2>1, StopDivides
  <2>3. \A r : r \in ToSet(lists[l]) => Exists(l)
    BY <2>1 DEF ToSet
  <2>4. IsInjective(lists[l])
    <3>1. ASSUME NEW i \in DOMAIN lists[l], NEW j \in DOMAIN lists[l], i < j
          PROVE  lists[l][i] # lists[l][j]
      <4>1. Before(lists[l][i], lists[l][j]) /\ lists[l][i] \in Registrants
        BY <2>1, <3>1 DEF Ascending
      <4>2. ~Before(lists[l][i], lists[l][i])
        BY <4>1, BeforeIs
      <4> QED
        BY <4>1, <4>2
    <3>2. \A i \in DOMAIN lists[l] : i \in Int
      BY <2>1
    <3> QED
      BY <3>1, <3>2 DEF IsInjective
  <2> QED
    BY <2>2, <2>3, <2>4 DEF already_registered
<1> QED
  BY <1>2 DEF RegistrationsExact, RegisteredOnce

LEMMA InitBlocks == EventInit => BlocksExact /\ ListsAscend
<1> SUFFICES ASSUME EventInit PROVE BlocksExact /\ ListsAscend
  OBVIOUS
<1>1. EventTypeOK /\ (\A l \in Lists : lists[l] = << >>) /\ containers = {} /\ blocks = 0
  BY InitTypeOK DEF EventInit
<1>2. PairsIn(lists) = 0 /\ Cardinality(containers) = 0
  BY <1>1, PairsNone, FS_EmptySet
<1>3. ListsAscend
  BY <1>1 DEF ListsAscend, Ascending
<1> QED
  BY <1>1, <1>2, <1>3 DEF BlocksExact

\* The memory is that of what is registered, wherever in its list a pair was
\* put and whichever registration failed half way (event_manager.c:315).
THEOREM BlocksAreExact == EventSpec => []BlocksExact
<1>1. EventInit => BlocksExact
  BY InitBlocks
<1>2. WalkInv /\ BlocksExact /\ [EventNext]_eventVars => BlocksExact'
  BY NextBlocks
<1> QED
  BY <1>1, <1>2, WalkInvariance, PTL DEF EventSpec

\* What is registered is found, once, after any registrations, failures and
\* removals, of whatever addresses, if the comparison of them, which cuts their
\* differences down to ints (event_manager.c:72), is an order: no list in order
\* promises anything without one, and a run has three pairs without one that
\* violate RegisteredOnce.  CloseOnesAreOrdered has the usual case of one.
THEOREM RegistrationsAreExact == ComparisonOrders => (EventSpec => []RegistrationsExact)
<1> SUFFICES ASSUME ComparisonOrders PROVE EventSpec => []RegistrationsExact
  OBVIOUS
<1>1. EventInit => ListsAscend
  BY InitBlocks
<1>2. WalkInv /\ BlocksExact /\ ListsAscend /\ [EventNext]_eventVars => ListsAscend'
  BY NextAscend
<1>3. BlocksExact /\ ListsAscend => RegistrationsExact
  BY AscendingSuffices
<1> QED
  BY <1>1, <1>2, <1>3, BlocksAreExact, WalkInvariance, PTL DEF EventSpec
=============================================================================
