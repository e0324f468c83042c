------------------------- MODULE IndexObjectProofs -------------------------
(***************************************************************************)
(* Proofs about IndexObject, for any data, any keys and any sizes: the     *)
(* array stays sorted, the search is right, destroy hands out everything   *)
(* once, and the index implements the abstract dictionary.                 *)
(***************************************************************************)
EXTENDS IndexObject, TLAPS

\* What the properties leave out and an inductive invariant needs: which
\* calls can be in progress while a handler runs, and that the insertion
\* point is one of the two ends of the window after every probe.
Control ==
    /\ should_not_be_modified => i >= 0
    /\ i >= 0 => should_not_be_modified
    /\ i <= n
    /\ pc \in {"probe", "found"} => request \in [op : Ops, data : Data]
    /\ pc \in {"probe", "found"} /\ request.op # "search" => i = -1
    /\ pc = "dead" => i = -1 /\ n = 0
    /\ pc = "probe" => insertion_point = lo \/ insertion_point = hi + 1

IInv == TypeOK /\ Control /\ InOrder /\ SearchIsRight /\ HandsOutAll

-----------------------------------------------------------------------------
\* CopyPointerBlocks and the assignment after it open a gap for one element.
LEMMA InsertedIs ==
    ASSUME NEW size \in Nat, NEW block \in [0..(size - 1) -> Data \cup {NULL}],
           n \in Nat, n < size, insertion_point \in 0..n, request.data \in Data
    PROVE  /\ Inserted(block) \in [0..(size - 1) -> Data \cup {NULL}]
           /\ \A x \in 0..n : Inserted(block)[x] =
                 IF x < insertion_point THEN block[x]
                 ELSE IF x = insertion_point THEN request.data ELSE block[x - 1]
<1> DEFINE p == insertion_point
           copy == CopyPointerBlocks(block, p, p + 1, n - p)
<1>1. copy \in [0..(size - 1) -> Data \cup {NULL}]
      /\ \A x \in 0..(size - 1) : copy[x] = IF p + 1 <= x /\ x < p + 1 + (n - p)
                                            THEN block[x + p - (p + 1)] ELSE block[x]
  <2> HIDE DEF p
  <2>1. p \in 0..n
    BY DEF p
  <2> QED
    BY <2>1 DEF CopyPointerBlocks
<1>2. Inserted(block) = [copy EXCEPT ![p] = request.data]
  BY DEF Inserted
<1> HIDE DEF copy, p
<1>3. p \in 0..n /\ insertion_point = p
  BY DEF p
<1> QED
  BY <1>1, <1>2, <1>3

\* A resize keeps the first pointers.
LEMMA ResizedIs ==
    ASSUME NEW size \in Nat, NEW old \in Nat, NEW count \in 0..old, count <= size,
           NEW block \in [0..(old - 1) -> Data \cup {NULL}]
    PROVE  /\ Resized(block, count, size) \in [0..(size - 1) -> Data \cup {NULL}]
           /\ \A x \in 0..(count - 1) : Resized(block, count, size)[x] = block[x]
BY DEF Resized

\* A removal closes the gap.
LEMMA RemovedIs ==
    ASSUME NEW size \in Nat, NEW block \in [0..(size - 1) -> Data \cup {NULL}],
           NEW count \in 1..size, NEW at \in 0..(count - 1)
    PROVE  LET rest == CopyPointerBlocks(block, at + 1, at, count - 1 - at)
           IN /\ rest \in [0..(size - 1) -> Data \cup {NULL}]
              /\ \A x \in 0..(count - 2) :
                    rest[x] = IF x < at THEN block[x] ELSE block[x + 1]
BY DEF CopyPointerBlocks

-----------------------------------------------------------------------------
LEMMA Initial == Init => IInv
<1> SUFFICES ASSUME Init PROVE IInv
  OBVIOUS
<1>1. elements \in [0..(maximum_size - 1) -> Data \cup {NULL}]
  BY DEF Init, Zalloc
<1>2. answer \in Answers
  BY DEF Init, NoAnswer, Answers
<1>3. TypeOK
  <2>1. maximum_size \in Nat /\ n \in 0..maximum_size
    BY SizeAssumption DEF Init
  <2>2. should_not_be_modified \in BOOLEAN
    BY DEF Init
  <2>3. lo \in Nat /\ hi \in Int /\ mid \in Nat /\ diff \in {-1, 0, 1} /\ i \in Nat \cup {-1}
    BY DEF Init
  <2>4. owed \in SUBSET Data /\ pc \in {"ready", "probe", "found", "dead"}
    BY DEF Init
  <2>5. request \in [op : Ops, data : Data] \cup {NoRequest}
    BY DEF Init
  <2> QED
    BY <1>1, <1>2, <2>1, <2>2, <2>3, <2>4, <2>5 DEF TypeOK
<1>4. Control
  BY DEF Init, Control, insertion_point
<1>5. InOrder /\ SearchIsRight /\ HandsOutAll
  BY DEF Init, InOrder, SearchIsRight, HandsOutAll, OwedIsRest, EachHandedOut
<1> QED
  BY <1>3, <1>4, <1>5 DEF IInv

\* Where a search that failed leaves the insertion point.
LEMMA MissPoint ==
    ASSUME IInv, pc = "probe", lo > hi
    PROVE  /\ insertion_point \in 0..n
           /\ request.data \in Data
           /\ \A x \in 0..(n - 1) : IF x < insertion_point
                 THEN Key[elements[x]] < Key[request.data]
                 ELSE Key[elements[x]] > Key[request.data]
BY DEF IInv, TypeOK, Control, SearchIsRight

LEMMA HitAt ==
    ASSUME IInv, pc = "found"
    PROVE  /\ mid \in 0..(n - 1)
           /\ request.data \in Data
           /\ elements[mid] \in Data
           /\ Key[elements[mid]] = Key[request.data]
BY DEF IInv, TypeOK, Control, SearchIsRight, InOrder

\* A call that returns leaves the search and the handler alone.
LEMMA ReturnControl ==
    ASSUME IInv, NEW rc \in {"ok", "ENODATA", "ENOSPC", "ENOMEM"},
           NEW found \in Data \cup {NULL}, Return(rc, found),
           pc \in {"probe", "found"}, n' \in Nat, i <= n'
    PROVE  /\ pc' = "ready" /\ i' = i /\ owed' = owed
           /\ should_not_be_modified' = should_not_be_modified
           /\ should_not_be_modified' \in BOOLEAN
           /\ request' \in [op : Ops, data : Data] \cup {NoRequest}
           /\ lo' \in Nat /\ hi' \in Int /\ mid' \in Nat /\ diff' \in {-1, 0, 1}
           /\ i' \in Nat \cup {-1} /\ owed' \in SUBSET Data
           /\ answer' \in Answers
           /\ Control' /\ SearchIsRight'
<1>1. answer' \in Answers
  BY DEF IInv, TypeOK, Control, Return, Answer, Answers, Ops
<1> QED
  BY <1>1 DEF IInv, TypeOK, Control, SearchIsRight, Return, bisection, destruction

\* The same for a call that changed the array: what is left to show is that
\* the array is one, and sorted.
LEMMA ReturnKeeps ==
    ASSUME IInv, NEW rc \in {"ok", "ENODATA", "ENOSPC", "ENOMEM"},
           NEW found \in Data \cup {NULL}, Return(rc, found),
           pc \in {"probe", "found"}, i = -1,
           maximum_size' \in Nat, n' \in 0..maximum_size',
           elements' \in [0..(maximum_size' - 1) -> Data \cup {NULL}], InOrder'
    PROVE  IInv'
<1>1. i <= n' /\ n' \in Nat
  OBVIOUS
<1>2. TypeOK'
  BY <1>1, ReturnControl DEF TypeOK
<1>3. HandsOutAll'
  BY <1>1, ReturnControl DEF IInv, HandsOutAll, OwedIsRest, EachHandedOut
<1> QED
  BY <1>1, <1>2, <1>3, ReturnControl DEF IInv

\* And for one that did not.
LEMMA ReturnSame ==
    ASSUME IInv, NEW rc \in {"ok", "ENODATA", "ENOSPC", "ENOMEM"},
           NEW found \in Data \cup {NULL}, Return(rc, found),
           pc \in {"probe", "found"}, UNCHANGED array
    PROVE  IInv'
<1>1. UNCHANGED <<elements, maximum_size, n>>
  BY DEF array
<1>2. i <= n' /\ n' \in Nat
  BY <1>1 DEF IInv, TypeOK, Control
<1>3. TypeOK' /\ InOrder'
  BY <1>1, <1>2, ReturnControl DEF IInv, TypeOK, InOrder
<1>4. HandsOutAll'
  BY <1>1, <1>2, ReturnControl DEF IInv, HandsOutAll, OwedIsRest, EachHandedOut
<1> QED
  BY <1>2, <1>3, <1>4, ReturnControl DEF IInv

-----------------------------------------------------------------------------
LEMMA CallKeeps ==
    ASSUME IInv, NEW op \in Ops, NEW d \in Data, Call(op, d)
    PROVE  IInv'
<1>1. UNCHANGED <<elements, maximum_size, n, should_not_be_modified, i, owed, answer>>
  BY DEF Call, StartSearch, array, destruction
<1>2. pc' = "probe" /\ request' = [op |-> op, data |-> d]
      /\ lo' = 0 /\ hi' = n - 1 /\ mid' = 0 /\ diff' = 0
  BY DEF Call, StartSearch
<1>3. TypeOK'
  BY <1>1, <1>2 DEF IInv, TypeOK
<1>4. i <= n /\ (op # "search" => i = -1)
  BY DEF IInv, TypeOK, Control, Call, Ops
<1>5. Control'
  BY <1>1, <1>2, <1>4 DEF IInv, Control, insertion_point
<1>6. SearchIsRight'
  BY <1>1, <1>2 DEF IInv, TypeOK, SearchIsRight, insertion_point
<1>7. InOrder' /\ HandsOutAll'
  BY <1>1 DEF IInv, InOrder, HandsOutAll, OwedIsRest, EachHandedOut
<1> QED
  BY <1>3, <1>5, <1>6, <1>7 DEF IInv

LEMMA RefusedKeeps ==
    ASSUME IInv, NEW op \in Ops, NEW d \in Data, Refused(op, d)
    PROVE  IInv'
<1>1. UNCHANGED <<elements, maximum_size, n, should_not_be_modified, i, owed, lo, hi, mid, diff, pc>>
  BY DEF Refused, array, destruction, bisection
<1>2. request' \in [op : Ops, data : Data] /\ answer' \in Answers /\ pc = "ready"
  BY DEF Refused, Answers, Ops
<1>3. TypeOK' /\ Control'
  BY <1>1, <1>2 DEF IInv, TypeOK, Control, insertion_point
<1>4. SearchIsRight' /\ InOrder' /\ HandsOutAll'
  BY <1>1, <1>2 DEF IInv, SearchIsRight, InOrder, HandsOutAll, OwedIsRest, EachHandedOut
<1> QED
  BY <1>3, <1>4 DEF IInv

LEMMA ProbeKeeps ==
    ASSUME IInv, Probe
    PROVE  IInv'
<1> DEFINE m == (hi + lo) \div 2
<1>1. UNCHANGED <<elements, maximum_size, n, should_not_be_modified, i, owed, request, answer>>
  BY DEF Probe, array, destruction
<1>2. pc = "probe" /\ request \in [op : Ops, data : Data] /\ request.data \in Data
  BY DEF Probe, IInv, Control
<1>3. lo \in Nat /\ hi \in Int /\ hi < n /\ n \in Nat /\ lo <= hi
  BY <1>2 DEF Probe, IInv, TypeOK, SearchIsRight
<1>m. m \in Nat /\ lo <= m /\ m <= hi /\ m < n
  BY <1>3
<1>d. mid' = m /\ diff' = Sign(Key[request.data], Key[elements[m]])
      /\ lo' = (IF diff' > 0 THEN m + 1 ELSE lo) /\ hi' = (IF diff' < 0 THEN m - 1 ELSE hi)
      /\ pc' = IF diff' = 0 THEN "found" ELSE "probe"
  BY DEF Probe
<1> HIDE DEF m
<1>n. mid' \in Nat
  BY <1>d, <1>m
<1>4. elements[m] \in Data /\ Key[elements[m]] \in Int /\ Key[request.data] \in Int
  BY <1>2, <1>3, <1>m, KeyAssumption DEF IInv, InOrder
<1>5. diff' = Sign(Key[request.data], Key[elements[m]])
  BY <1>d
<1>k. \A x \in 0..(n - 1) : elements[x] \in Data /\ Key[elements[x]] \in Int
  BY KeyAssumption DEF IInv, InOrder
<1>s. \A x, y \in 0..(n - 1) : x < y => Key[elements[x]] < Key[elements[y]]
  BY DEF IInv, InOrder
<1>9. diff' \in {-1, 0, 1}
  BY <1>5 DEF Sign
<1>6. CASE diff' > 0
  <2>1. Key[elements[m]] < Key[request.data] /\ diff' = 1
    BY <1>4, <1>5, <1>6 DEF Sign
  <2>2. pc' = "probe" /\ lo' = m + 1 /\ hi' = hi
    BY <2>1, <1>d
  <2>h. lo' \in Nat /\ hi' \in Int
    BY <2>2, <1>3, <1>m
  <2>i. insertion_point' = lo'
    BY <2>1, <2>2, <2>h, <1>m, <1>d DEF insertion_point
  <2>n. lo' \in Nat /\ hi' \in Int /\ hi' < n /\ lo' <= hi' + 1
    BY <2>2, <2>h, <1>3, <1>m
  <2>3. \A x \in 0..(lo' - 1) : Key[elements[x]] < Key[request.data]
    <3> SUFFICES ASSUME NEW x \in 0..(lo' - 1) PROVE Key[elements[x]] < Key[request.data]
      OBVIOUS
    <3>1. x \in 0..(n - 1) /\ x <= m
      BY <2>2, <2>h, <1>3, <1>m
    <3>2. x = m \/ Key[elements[x]] < Key[elements[m]]
      BY <3>1, <1>3, <1>m, <1>s
    <3> QED
      BY <3>1, <3>2, <2>1, <1>m, <1>k, <1>4
  <2>t. TypeOK'
    BY <1>1, <1>n, <1>9, <2>2, <2>n DEF IInv, TypeOK
  <2>c. Control'
    BY <1>1, <1>2, <2>2, <2>i DEF IInv, Control
  <2>4. SearchIsRight'
    <3>1. \A x \in (hi' + 1)..(n - 1) : Key[elements[x]] > Key[request.data]
      BY <1>2, <2>2 DEF IInv, SearchIsRight
    <3>2. lo' > hi' => insertion_point' = lo'
      BY <2>i, <2>n
    <3> QED
      BY <1>1, <2>2, <2>n, <2>3, <3>1, <3>2 DEF SearchIsRight
  <2> QED
    BY <1>1, <2>t, <2>c, <2>4 DEF IInv, InOrder, HandsOutAll, OwedIsRest, EachHandedOut
<1>7. CASE diff' < 0
  <2>1. Key[request.data] < Key[elements[m]] /\ diff' = -1
    BY <1>4, <1>5, <1>7 DEF Sign
  <2>2. pc' = "probe" /\ lo' = lo /\ hi' = m - 1
    BY <2>1, <1>d
  <2>h. lo' \in Nat /\ hi' \in Int
    BY <2>2, <1>3, <1>m
  <2>i. insertion_point' = hi' + 1
    BY <2>1, <2>2, <2>h, <1>m, <1>d DEF insertion_point
  <2>n. lo' \in Nat /\ hi' \in Int /\ hi' < n /\ lo' <= hi' + 1
    BY <2>2, <2>h, <1>3, <1>m
  <2>3. \A x \in (hi' + 1)..(n - 1) : Key[elements[x]] > Key[request.data]
    <3> SUFFICES ASSUME NEW x \in (hi' + 1)..(n - 1) PROVE Key[elements[x]] > Key[request.data]
      OBVIOUS
    <3>1. x \in 0..(n - 1) /\ x >= m
      BY <2>2, <2>h, <1>3, <1>m
    <3>2. x = m \/ Key[elements[m]] < Key[elements[x]]
      BY <3>1, <1>3, <1>m, <1>s
    <3> QED
      BY <3>1, <3>2, <2>1, <1>m, <1>k, <1>4
  <2>t. TypeOK'
    BY <1>1, <1>n, <1>9, <2>2, <2>n DEF IInv, TypeOK
  <2>c. Control'
    BY <1>1, <1>2, <2>2, <2>i DEF IInv, Control
  <2>4. SearchIsRight'
    <3>1. \A x \in 0..(lo' - 1) : Key[elements[x]] < Key[request.data]
      BY <1>2, <2>2 DEF IInv, SearchIsRight
    <3>2. ASSUME lo' > hi' PROVE lo' = m
      BY <3>2, <2>2, <1>3, <1>m
    <3>3. insertion_point' = m
      BY <2>1, <1>d DEF insertion_point
    <3> QED
      BY <1>1, <2>2, <2>n, <2>3, <3>1, <3>2, <3>3 DEF SearchIsRight
  <2> QED
    BY <1>1, <2>t, <2>c, <2>4 DEF IInv, InOrder, HandsOutAll, OwedIsRest, EachHandedOut
<1>8. CASE diff' = 0
  <2>1. Key[request.data] = Key[elements[m]]
    BY <1>4, <1>5, <1>8 DEF Sign
  <2>2. pc' = "found" /\ lo' = lo /\ hi' = hi
    BY <1>8, <1>d
  <2>3. TypeOK' /\ Control'
    BY <1>1, <1>2, <1>3, <1>n, <1>8, <2>2 DEF IInv, TypeOK, Control
  <2>4. SearchIsRight'
    BY <1>1, <1>m, <1>d, <2>1, <2>2 DEF SearchIsRight
  <2> QED
    BY <1>1, <2>3, <2>4 DEF IInv, InOrder, HandsOutAll, OwedIsRest, EachHandedOut
<1> QED
  BY <1>6, <1>7, <1>8, <1>9

-----------------------------------------------------------------------------
\* Overwriting an element with one of the same key keeps the order.
LEMMA InsertPresentKeeps ==
    ASSUME IInv, NEW overwrite \in BOOLEAN, InsertPresent(overwrite)
    PROVE  IInv'
<1>1. pc = "found" /\ request.op = "insert" /\ i = -1
  BY DEF InsertPresent, Hit, IInv, Control
<1>2. Return("ok", elements[mid]) /\ maximum_size' = maximum_size /\ n' = n
  BY DEF InsertPresent
<1>3. /\ mid \in 0..(n - 1) /\ request.data \in Data /\ elements[mid] \in Data
      /\ Key[elements[mid]] = Key[request.data]
  BY <1>1, HitAt
<1>4. n \in 0..maximum_size /\ maximum_size \in Nat
      /\ elements \in [0..(maximum_size - 1) -> Data \cup {NULL}]
  BY DEF IInv, TypeOK
<1>5. elements' = IF overwrite THEN [elements EXCEPT ![mid] = request.data] ELSE elements
  BY DEF InsertPresent
<1>6. elements' \in [0..(maximum_size - 1) -> Data \cup {NULL}]
  BY <1>3, <1>4, <1>5
<1>7. \A x \in 0..(n - 1) : elements'[x] \in Data /\ Key[elements'[x]] = Key[elements[x]]
  BY <1>3, <1>4, <1>5 DEF IInv, InOrder
<1>8. InOrder'
  BY <1>2, <1>7 DEF IInv, InOrder
<1> QED
  BY <1>1, <1>2, <1>3, <1>4, <1>6, <1>8, ReturnKeeps

\* What both successful insertions do to the array: block is the old array,
\* as it is or expanded.
LEMMA InsertionIs ==
    ASSUME IInv, NEW size \in Nat, NEW block \in [0..(size - 1) -> Data \cup {NULL}],
           n < size, \A x \in 0..(n - 1) : block[x] = elements[x],
           Miss("insert"), elements' = Inserted(block)
    PROVE  /\ elements' \in [0..(size - 1) -> Data \cup {NULL}]
           /\ \A x \in 0..n : elements'[x] =
                IF x < insertion_point THEN elements[x]
                ELSE IF x = insertion_point THEN request.data ELSE elements[x - 1]
<1> DEFINE p == insertion_point
<1>1. pc = "probe" /\ lo > hi
  BY DEF Miss
<1>2. p \in 0..n /\ request.data \in Data
  BY <1>1, MissPoint
<1>3. n \in Nat
  BY DEF IInv, TypeOK
<1>4. /\ elements' \in [0..(size - 1) -> Data \cup {NULL}]
      /\ \A x \in 0..n : elements'[x] = IF x < p THEN block[x]
                                        ELSE IF x = p THEN request.data ELSE block[x - 1]
  BY <1>2, <1>3, InsertedIs
<1> HIDE DEF p
<1>5. \A x \in 0..n : elements'[x] = IF x < p THEN elements[x]
                                     ELSE IF x = p THEN request.data ELSE elements[x - 1]
  BY <1>2, <1>3, <1>4
<1> QED
  BY <1>4, <1>5 DEF p

LEMMA InsertionKeeps ==
    ASSUME IInv, NEW size \in Nat, NEW block \in [0..(size - 1) -> Data \cup {NULL}],
           n < size, \A x \in 0..(n - 1) : block[x] = elements[x],
           Miss("insert"), elements' = Inserted(block), maximum_size' = size,
           n' = n + 1, Return("ok", NULL)
    PROVE  IInv'
<1> DEFINE p == insertion_point
<1>1. pc = "probe" /\ lo > hi /\ i = -1
  BY DEF Miss, IInv, Control
<1>2. /\ p \in 0..n /\ request.data \in Data
      /\ \A x \in 0..(n - 1) : IF x < p THEN Key[elements[x]] < Key[request.data]
                                        ELSE Key[elements[x]] > Key[request.data]
  BY <1>1, MissPoint
<1>3. n \in Nat
  BY DEF IInv, TypeOK
<1>4. /\ elements' \in [0..(size - 1) -> Data \cup {NULL}]
      /\ \A x \in 0..n : elements'[x] = IF x < p THEN elements[x]
                                        ELSE IF x = p THEN request.data ELSE elements[x - 1]
  BY InsertionIs
<1> HIDE DEF p
<1>5. \A x \in 0..n : elements'[x] = IF x < p THEN elements[x]
                                     ELSE IF x = p THEN request.data ELSE elements[x - 1]
  BY <1>4
<1>6. \A x \in 0..(n - 1) : elements[x] \in Data /\ Key[elements[x]] \in Int
  BY KeyAssumption DEF IInv, InOrder
<1>7. \A x \in 0..n : elements'[x] \in Data
  BY <1>2, <1>3, <1>5, <1>6
<1>8. ASSUME NEW x \in 0..n, NEW y \in 0..n, x < y
      PROVE  Key[elements'[x]] < Key[elements'[y]]
  <2>1. \A v, w \in 0..(n - 1) : v < w => Key[elements[v]] < Key[elements[w]]
    BY DEF IInv, InOrder
  <2>2. Key[request.data] \in Int
    BY <1>2, KeyAssumption
  <2>3. CASE y < p
    BY <1>2, <1>3, <1>5, <1>8, <2>1, <2>3
  <2>4. CASE y = p
    BY <1>2, <1>3, <1>5, <1>8, <2>4
  <2>5. CASE y > p /\ x > p
    <3>1. x - 1 \in 0..(n - 1) /\ y - 1 \in 0..(n - 1) /\ x - 1 < y - 1
      BY <1>2, <1>3, <1>8, <2>5
    <3>2. elements'[x] = elements[x - 1] /\ elements'[y] = elements[y - 1]
      BY <1>2, <1>3, <1>5, <2>5
    <3> QED
      BY <3>1, <3>2, <2>1
  <2>6. CASE y > p /\ x <= p
    <3>1. y - 1 \in 0..(n - 1) /\ p <= y - 1 /\ elements'[y] = elements[y - 1]
      BY <1>2, <1>3, <1>5, <1>8, <2>6
    <3>2. Key[elements[y - 1]] > Key[request.data] /\ Key[elements[y - 1]] \in Int
      BY <1>2, <1>3, <1>6, <3>1
    <3>3. CASE x = p
      BY <1>5, <3>1, <3>2, <3>3
    <3>4. CASE x < p
      <4>1. x \in 0..(n - 1) /\ elements'[x] = elements[x]
        BY <1>2, <1>3, <1>5, <3>4
      <4>2. Key[elements[x]] < Key[request.data] /\ Key[elements[x]] \in Int
        BY <1>2, <1>6, <3>4, <4>1
      <4> QED
        BY <2>2, <3>1, <3>2, <4>1, <4>2
    <3> QED
      BY <1>2, <1>3, <2>6, <3>3, <3>4
  <2> QED
    BY <1>2, <1>3, <2>3, <2>4, <2>5, <2>6
<1>9. n' \in Nat /\ 0..(n' - 1) = 0..n /\ n' \in 0..size
  BY <1>3
<1>10. InOrder'
  BY <1>7, <1>8, <1>9 DEF InOrder
<1> QED
  BY <1>1, <1>4, <1>9, <1>10, ReturnKeeps

\* A removal moves what is behind the element one down.
LEMMA RemovalIs ==
    ASSUME IInv, NEW shrink \in 0..MaxShrink, NEW resized \in BOOLEAN, RemoveHit(shrink, resized)
    PROVE  /\ n' = n - 1 /\ n' \in 0..maximum_size' /\ maximum_size' \in Nat
           /\ elements' \in [0..(maximum_size' - 1) -> Data \cup {NULL}]
           /\ \A x \in 0..(n - 2) : elements'[x] = IF x < mid THEN elements[x] ELSE elements[x + 1]
<1> DEFINE rest == CopyPointerBlocks(elements, mid + 1, mid, n - 1 - mid)
           shrinks == shrink > 0 /\ maximum_size > n - 1 + shrink /\ resized
           size == IF shrinks THEN n - 1 + shrink ELSE maximum_size
<1>1. pc = "found" /\ i = -1
  BY DEF RemoveHit, Hit, IInv, Control
<1>2. mid \in 0..(n - 1) /\ elements[mid] \in Data
  BY <1>1, HitAt
<1>3. n \in 1..maximum_size /\ maximum_size \in Nat
      /\ elements \in [0..(maximum_size - 1) -> Data \cup {NULL}]
  BY <1>2 DEF IInv, TypeOK
<1>4. Return("ok", elements[mid]) /\ n' = n - 1 /\ maximum_size' = size
      /\ elements' = IF shrinks THEN Resized(rest, n - 1, size) ELSE rest
  BY DEF RemoveHit
<1>5. /\ rest \in [0..(maximum_size - 1) -> Data \cup {NULL}]
      /\ \A x \in 0..(n - 2) : rest[x] = IF x < mid THEN elements[x] ELSE elements[x + 1]
  BY <1>2, <1>3, RemovedIs
<1> HIDE DEF rest
<1>6. size \in Nat /\ n - 1 \in 0..size /\ n - 1 \in 0..maximum_size
  BY <1>3, SizeAssumption
<1>7. elements' \in [0..(size - 1) -> Data \cup {NULL}]
      /\ \A x \in 0..(n - 2) : elements'[x] = rest[x]
  <2>1. CASE shrinks
    <3>1. Resized(rest, n - 1, size) \in [0..(size - 1) -> Data \cup {NULL}]
          /\ \A x \in 0..(n - 1 - 1) : Resized(rest, n - 1, size)[x] = rest[x]
      <4> HIDE DEF size
      <4> QED
        BY <1>3, <1>5, <1>6, ResizedIs
    <3> QED
      BY <1>3, <1>4, <2>1, <3>1
  <2>2. CASE ~shrinks
    BY <1>4, <1>5, <2>2
  <2> QED
    BY <2>1, <2>2
<1> HIDE DEF size, shrinks
<1>8. \A x \in 0..(n - 2) : elements'[x] = IF x < mid THEN elements[x] ELSE elements[x + 1]
  BY <1>5, <1>7
<1> QED
  BY <1>3, <1>4, <1>6, <1>7, <1>8

LEMMA RemoveHitKeeps ==
    ASSUME IInv, NEW shrink \in 0..MaxShrink, NEW resized \in BOOLEAN, RemoveHit(shrink, resized)
    PROVE  IInv'
<1>1. pc = "found" /\ i = -1 /\ Return("ok", elements[mid])
  BY DEF RemoveHit, Hit, IInv, Control
<1>2. mid \in 0..(n - 1) /\ elements[mid] \in Data
  BY <1>1, HitAt
<1>3. n \in Nat /\ n > 0
  BY <1>2 DEF IInv, TypeOK
<1>7. /\ n' = n - 1 /\ n' \in 0..maximum_size' /\ maximum_size' \in Nat
      /\ elements' \in [0..(maximum_size' - 1) -> Data \cup {NULL}]
  BY RemovalIs
<1>8. \A x \in 0..(n - 2) : elements'[x] = IF x < mid THEN elements[x] ELSE elements[x + 1]
  BY RemovalIs
<1>9. \A x \in 0..(n - 2) : elements'[x] \in Data
  BY <1>2, <1>3, <1>8 DEF IInv, InOrder
<1>10. ASSUME NEW x \in 0..(n - 2), NEW y \in 0..(n - 2), x < y
       PROVE  Key[elements'[x]] < Key[elements'[y]]
  <2>1. \A v, w \in 0..(n - 1) : v < w => Key[elements[v]] < Key[elements[w]]
    BY DEF IInv, InOrder
  <2>2. PICK v \in {x, x + 1}, w \in {y, y + 1} :
          elements'[x] = elements[v] /\ elements'[y] = elements[w] /\ v < w
    BY <1>2, <1>3, <1>8, <1>10
  <2>3. v \in 0..(n - 1) /\ w \in 0..(n - 1)
    BY <1>3
  <2> QED
    BY <2>1, <2>2, <2>3
<1>11. 0..(n' - 1) = 0..(n - 2)
  BY <1>3, <1>7
<1>12. InOrder'
  BY <1>9, <1>10, <1>11 DEF InOrder
<1> QED
  BY <1>1, <1>2, <1>7, <1>12, ReturnKeeps

LEMMA InsertNewKeeps == IInv /\ InsertNew => IInv'
<1> SUFFICES ASSUME IInv, InsertNew PROVE IInv'
  OBVIOUS
<1>1. /\ Miss("insert") /\ n < maximum_size /\ Return("ok", NULL)
      /\ elements' = Inserted(elements) /\ n' = n + 1 /\ maximum_size' = maximum_size
  BY DEF InsertNew
<1>2. maximum_size \in Nat /\ elements \in [0..(maximum_size - 1) -> Data \cup {NULL}]
  BY DEF IInv, TypeOK
<1> QED
  BY <1>1, <1>2, InsertionKeeps

LEMMA InsertExpandKeeps == IInv /\ InsertExpand => IInv'
<1> SUFFICES ASSUME IInv, InsertExpand PROVE IInv'
  OBVIOUS
<1> DEFINE size == maximum_size + ExpansionSize
           block == Resized(elements, n, size)
<1>1. /\ Miss("insert") /\ n >= maximum_size /\ ExpansionSize > 0 /\ Return("ok", NULL)
      /\ elements' = Inserted(block) /\ n' = n + 1 /\ maximum_size' = size
  BY DEF InsertExpand
<1>2. /\ maximum_size \in Nat /\ n \in 0..maximum_size /\ size \in Nat /\ n < size
      /\ elements \in [0..(maximum_size - 1) -> Data \cup {NULL}]
  BY <1>1, SizeAssumption DEF IInv, TypeOK
<1> HIDE DEF size
<1>3. /\ block \in [0..(size - 1) -> Data \cup {NULL}]
      /\ \A x \in 0..(n - 1) : block[x] = elements[x]
  BY <1>2, ResizedIs
<1> QED
  BY <1>1, <1>2, <1>3, InsertionKeeps

LEMMA ReplaceKeeps ==
    ASSUME IInv, NEW at \in 0..(n - 1), NEW d \in Data, Replace(at, d)
    PROVE  IInv'
<1>1. /\ elements' = [elements EXCEPT ![at] = d] /\ KeepsOrder(at, d) /\ pc = "ready"
      /\ UNCHANGED <<maximum_size, n, should_not_be_modified, i, owed, lo, hi, mid, diff,
                     pc, request, answer>>
      /\ i = -1
  BY DEF Replace, Idle, destruction, bisection
<1>2. /\ n \in 0..maximum_size /\ maximum_size \in Nat
      /\ elements \in [0..(maximum_size - 1) -> Data \cup {NULL}]
  BY DEF IInv, TypeOK
<1>3. /\ elements' \in [0..(maximum_size - 1) -> Data \cup {NULL}]
      /\ \A x \in 0..(n - 1) : elements'[x] = IF x = at THEN d ELSE elements[x]
  BY <1>1, <1>2
<1>4. /\ \A x \in 0..(n - 1) : elements[x] \in Data /\ Key[elements[x]] \in Int
      /\ \A x, y \in 0..(n - 1) : x < y => Key[elements[x]] < Key[elements[y]]
      /\ Key[d] \in Int
  BY KeyAssumption DEF IInv, InOrder
<1>5. ASSUME NEW x \in 0..(n - 1), x < at PROVE Key[elements[x]] < Key[d]
  <2>1. at - 1 \in 0..(n - 1) /\ Key[elements[at - 1]] < Key[d]
    BY <1>1, <1>2, <1>5 DEF KeepsOrder
  <2>2. x = at - 1 \/ Key[elements[x]] < Key[elements[at - 1]]
    BY <1>2, <1>4, <1>5, <2>1
  <2> QED
    BY <1>4, <2>1, <2>2
<1>6. ASSUME NEW x \in 0..(n - 1), x > at PROVE Key[d] < Key[elements[x]]
  <2>1. at + 1 \in 0..(n - 1) /\ Key[d] < Key[elements[at + 1]]
    BY <1>1, <1>2, <1>6 DEF KeepsOrder
  <2>2. x = at + 1 \/ Key[elements[at + 1]] < Key[elements[x]]
    BY <1>2, <1>4, <1>6, <2>1
  <2> QED
    BY <1>4, <2>1, <2>2
<1>7. InOrder'
  BY <1>1, <1>3, <1>4, <1>5, <1>6 DEF InOrder
<1>8. TypeOK' /\ Control' /\ SearchIsRight'
  BY <1>1, <1>3 DEF IInv, TypeOK, Control, SearchIsRight, insertion_point
<1>9. HandsOutAll'
  BY <1>1 DEF IInv, HandsOutAll, OwedIsRest, EachHandedOut
<1> QED
  BY <1>7, <1>8, <1>9 DEF IInv

LEMMA ResetKeeps ==
    ASSUME IInv, NEW resized \in BOOLEAN, Reset(resized)
    PROVE  IInv'
<1>1. /\ n' = 0 /\ pc = "ready" /\ i = -1
      /\ UNCHANGED <<should_not_be_modified, i, owed, lo, hi, mid, diff, pc, request, answer>>
  BY DEF Reset, Idle, destruction, bisection
<1>2. maximum_size' \in Nat /\ elements' \in [0..(maximum_size' - 1) -> Data \cup {NULL}]
  BY SizeAssumption DEF Reset, Zalloc, IInv, TypeOK
<1>3. n' \in 0..maximum_size'
  BY <1>1, <1>2
<1>4. TypeOK'
  BY <1>1, <1>2, <1>3 DEF IInv, TypeOK
<1>5. Control' /\ SearchIsRight' /\ InOrder' /\ HandsOutAll'
  BY <1>1 DEF IInv, Control, SearchIsRight, InOrder, HandsOutAll, OwedIsRest, EachHandedOut
<1> QED
  BY <1>4, <1>5 DEF IInv

LEMMA DestroyStartKeeps == IInv /\ DestroyStart => IInv'
<1> SUFFICES ASSUME IInv, DestroyStart PROVE IInv'
  OBVIOUS
<1>1. /\ should_not_be_modified' = TRUE /\ i' = 0 /\ owed' = Contents /\ pc = "ready"
      /\ UNCHANGED <<elements, maximum_size, n, lo, hi, mid, diff, pc, request, answer>>
  BY DEF DestroyStart, Idle, array, bisection
<1>2. owed' \in SUBSET Data /\ n \in Nat
  BY <1>1 DEF IInv, InOrder, TypeOK, Contents
<1>3. TypeOK' /\ Control' /\ SearchIsRight' /\ InOrder'
  BY <1>1, <1>2 DEF IInv, TypeOK, Control, SearchIsRight, InOrder
<1>4. HandsOutAll'
  BY <1>1 DEF HandsOutAll, OwedIsRest, EachHandedOut, Contents
<1> QED
  BY <1>3, <1>4 DEF IInv

LEMMA DestroyHandOutKeeps == IInv /\ DestroyHandOut => IInv'
<1> SUFFICES ASSUME IInv, DestroyHandOut PROVE IInv'
  OBVIOUS
<1>1. /\ i >= 0 /\ i < n /\ i' = i + 1 /\ owed' = owed \ {elements[i]} /\ pc = "ready"
      /\ UNCHANGED <<elements, maximum_size, n, should_not_be_modified, lo, hi, mid, diff,
                     pc, request, answer>>
  BY DEF DestroyHandOut, array, bisection
<1>2. i \in Nat /\ n \in Nat /\ owed \in SUBSET Data
  BY <1>1 DEF IInv, TypeOK
<1>3. i' \in Nat /\ i' <= n /\ i' >= 0 /\ i' # -1
  BY <1>1, <1>2
<1>4. TypeOK' /\ Control' /\ SearchIsRight' /\ InOrder'
  BY <1>1, <1>2, <1>3 DEF IInv, TypeOK, Control, SearchIsRight, InOrder
<1>5. \A x \in (i + 1)..(n - 1) : elements[x] # elements[i]
  <2> SUFFICES ASSUME NEW x \in (i + 1)..(n - 1) PROVE elements[x] # elements[i]
    OBVIOUS
  <2>1. x \in 0..(n - 1) /\ i \in 0..(n - 1) /\ i < x
    BY <1>1, <1>2
  <2>2. Key[elements[i]] < Key[elements[x]] /\ Key[elements[x]] \in Int
    BY <2>1, KeyAssumption DEF IInv, InOrder
  <2> QED
    BY <2>2
<1>6. owed = {elements[x] : x \in i..(n - 1)}
  BY <1>1 DEF IInv, HandsOutAll, OwedIsRest
<1>7. i..(n - 1) = {i} \cup (i + 1)..(n - 1)
  BY <1>1, <1>2
<1>8. owed' = {elements[x] : x \in (i + 1)..(n - 1)}
  BY <1>1, <1>5, <1>6, <1>7
<1>9. HandsOutAll'
  BY <1>1, <1>3, <1>8 DEF HandsOutAll, OwedIsRest, EachHandedOut
<1> QED
  BY <1>4, <1>9 DEF IInv

LEMMA DestroyEndKeeps == IInv /\ DestroyEnd => IInv'
<1> SUFFICES ASSUME IInv, DestroyEnd PROVE IInv'
  OBVIOUS
<1>1. /\ pc = "ready" /\ i >= n /\ pc' = "dead" /\ maximum_size' = 0 /\ n' = 0
      /\ should_not_be_modified' = FALSE /\ i' = -1
      /\ UNCHANGED <<owed, lo, hi, mid, diff, request, answer>>
  BY DEF DestroyEnd, bisection
<1>2. elements' \in [0..(maximum_size' - 1) -> Data \cup {NULL}]
  BY <1>1 DEF DestroyEnd, Zalloc
<1>3. TypeOK'
  <2>1. maximum_size' \in Nat /\ n' \in 0..maximum_size'
    BY <1>1
  <2>2. should_not_be_modified' \in BOOLEAN
    BY <1>1
  <2>3. i' \in Nat \cup {-1}
    BY <1>1
  <2> QED
    BY <1>1, <1>2, <2>1, <2>2, <2>3 DEF IInv, TypeOK
<1>4. Control' /\ SearchIsRight' /\ InOrder'
  BY <1>1 DEF Control, SearchIsRight, InOrder
<1>5. i >= 0 /\ n \in Nat /\ i \in Nat
  BY <1>1 DEF IInv, TypeOK
<1>6. owed = {}
  BY <1>1, <1>5 DEF IInv, HandsOutAll, OwedIsRest
<1>7. HandsOutAll'
  BY <1>1, <1>6 DEF HandsOutAll, OwedIsRest, EachHandedOut
<1> QED
  BY <1>3, <1>4, <1>7 DEF IInv

LEMMA ReinitKeeps == IInv /\ Reinit => IInv'
<1> SUFFICES ASSUME IInv, Reinit PROVE IInv'
  OBVIOUS
<1>1. /\ pc = "dead" /\ pc' = "ready" /\ maximum_size' = InitialSize
      /\ UNCHANGED <<n, should_not_be_modified, i, owed, lo, hi, mid, diff, request, answer>>
  BY DEF Reinit, destruction, bisection
<1>2. elements' \in [0..(maximum_size' - 1) -> Data \cup {NULL}] /\ n = 0 /\ i = -1
  BY <1>1 DEF Reinit, Zalloc, IInv, Control
<1>3. TypeOK'
  BY <1>1, <1>2, SizeAssumption DEF IInv, TypeOK
<1>4. Control' /\ SearchIsRight' /\ InOrder' /\ HandsOutAll'
  BY <1>1, <1>2 DEF IInv, Control, SearchIsRight, InOrder, HandsOutAll, OwedIsRest, EachHandedOut
<1> QED
  BY <1>3, <1>4 DEF IInv

-----------------------------------------------------------------------------
LEMMA Step == IInv /\ [Next]_vars => IInv'
<1> SUFFICES ASSUME IInv, [Next]_vars PROVE IInv'
  OBVIOUS
<1>1. ASSUME NEW op \in Ops, NEW d \in Data, Call(op, d) \/ Refused(op, d) PROVE IInv'
  BY <1>1, CallKeeps, RefusedKeeps
<1>2. CASE Probe
  BY <1>2, ProbeKeeps
<1>3. ASSUME NEW overwrite \in BOOLEAN, InsertPresent(overwrite) PROVE IInv'
  BY <1>3, InsertPresentKeeps
<1>4. CASE InsertNew \/ InsertExpand
  BY <1>4, InsertNewKeeps, InsertExpandKeeps
<1>5. CASE InsertFails
  <2>1. PICK rc \in {"ENOSPC", "ENOMEM"} : Return(rc, NULL)
    BY <1>5 DEF InsertFails
  <2> QED
    BY <1>5, <2>1, ReturnSame DEF InsertFails, Miss
<1>6. CASE SearchHit
  <2>1. elements[mid] \in Data
    BY <1>6, HitAt DEF SearchHit, Hit
  <2> QED
    BY <1>6, <2>1, ReturnSame DEF SearchHit, Hit
<1>7. CASE SearchMiss \/ RemoveMiss
  BY <1>7, ReturnSame DEF SearchMiss, RemoveMiss, Miss
<1>8. ASSUME NEW shrink \in 0..MaxShrink, NEW resized \in BOOLEAN, RemoveHit(shrink, resized)
      PROVE IInv'
  BY <1>8, RemoveHitKeeps
<1>9. ASSUME NEW at \in 0..(n - 1), NEW d \in Data, Replace(at, d) PROVE IInv'
  BY <1>9, ReplaceKeeps
<1>10. ASSUME NEW resized \in BOOLEAN, Reset(resized) PROVE IInv'
  BY <1>10, ResetKeeps
<1>11. CASE DestroyStart \/ DestroyHandOut \/ DestroyEnd \/ Reinit
  BY <1>11, DestroyStartKeeps, DestroyHandOutKeeps, DestroyEndKeeps, ReinitKeeps
<1>12. CASE UNCHANGED vars
  <2>1. UNCHANGED <<elements, maximum_size, n, should_not_be_modified, pc, request,
                    lo, hi, mid, diff, i, owed, answer>>
    BY <1>12 DEF vars
  <2> QED
    BY <2>1 DEF IInv, TypeOK, Control, InOrder, SearchIsRight, HandsOutAll, OwedIsRest,
                EachHandedOut, insertion_point
<1> QED
  BY <1>1, <1>2, <1>3, <1>4, <1>5, <1>6, <1>7, <1>8, <1>9, <1>10, <1>11, <1>12 DEF Next

LEMMA Invariance == Spec => []IInv
BY Initial, Step, PTL DEF Spec

\* The array is sorted by key without duplicates and fits its block, whatever
\* the keys, the sizes and the order of the calls.
THEOREM AlwaysSorted == Spec => []Sorted
<1>1. IInv => Sorted
  BY DEF IInv, Sorted
<1> QED
  BY <1>1, Invariance, PTL

\* Every search of every array ends at the element or at the place where it
\* would have to be.
THEOREM SearchCorrect == Spec => []SearchIsRight
<1>1. IInv => SearchIsRight
  BY DEF IInv
<1> QED
  BY <1>1, Invariance, PTL

\* Destroy owes the handler exactly the elements it has not reached, and
\* nothing at the end.
THEOREM DestroyComplete == Spec => []HandsOutAll
<1>1. IInv => HandsOutAll
  BY DEF IInv
<1> QED
  BY <1>1, Invariance, PTL

-----------------------------------------------------------------------------
(***************************************************************************)
(* The index implements the dictionary.                                    *)
(***************************************************************************)
LEMMA HitHas ==
    ASSUME IInv, pc = "found"
    PROVE  elements[mid] \in Contents /\ Key[elements[mid]] = Key[request.data]
BY HitAt DEF Contents

LEMMA MissMissing ==
    ASSUME IInv, pc = "probe", lo > hi
    PROVE  Dict!Missing(request.data)
<1>1. /\ request.data \in Data
      /\ \A x \in 0..(n - 1) : IF x < insertion_point
            THEN Key[elements[x]] < Key[request.data]
            ELSE Key[elements[x]] > Key[request.data]
  BY MissPoint
<1>2. \A x \in 0..(n - 1) : elements[x] \in Data /\ Key[elements[x]] \in Int
  BY KeyAssumption DEF IInv, InOrder
<1>3. Key[request.data] \in Int
  BY <1>1, KeyAssumption
<1> QED
  BY <1>1, <1>2, <1>3 DEF Dict!Missing, Contents

\* An element put in the place of another one.
LEMMA ContentsReplaced ==
    ASSUME IInv, NEW at \in 0..(n - 1), NEW d \in Data,
           elements' = [elements EXCEPT ![at] = d], n' = n
    PROVE  Contents' = (Contents \ {elements[at]}) \cup {d}
<1>1. /\ n \in 0..maximum_size /\ maximum_size \in Nat
      /\ elements \in [0..(maximum_size - 1) -> Data \cup {NULL}]
  BY DEF IInv, TypeOK
<1>2. \A x \in 0..(n - 1) : elements'[x] = IF x = at THEN d ELSE elements[x]
  BY <1>1
<1>3. \A x, y \in 0..(n - 1) : x # y => elements[x] # elements[y]
  BY KeyAssumption DEF IInv, InOrder
<1>4. Contents' = {elements'[x] : x \in 0..(n - 1)}
  BY DEF Contents
<1> QED
  BY <1>2, <1>3, <1>4 DEF Contents

LEMMA ContentsInserted ==
    ASSUME IInv, n' = n + 1, pc = "probe", lo > hi,
           \A x \in 0..n : elements'[x] =
                IF x < insertion_point THEN elements[x]
                ELSE IF x = insertion_point THEN request.data ELSE elements[x - 1]
    PROVE  Contents' = Contents \cup {request.data}
<1> DEFINE p == insertion_point
<1>1. p \in 0..n /\ n \in Nat
  BY MissPoint DEF IInv, TypeOK
<1>2. \A x \in 0..n : elements'[x] = IF x < p THEN elements[x]
                                     ELSE IF x = p THEN request.data ELSE elements[x - 1]
  OBVIOUS
<1> HIDE DEF p
<1>3. Contents' = {elements'[x] : x \in 0..n}
  <2>1. 0..(n' - 1) = 0..n
    BY <1>1
  <2> QED
    BY <2>1 DEF Contents
<1>4. ASSUME NEW e \in Contents' PROVE e \in Contents \cup {request.data}
  <2>1. PICK x \in 0..n : e = elements'[x]
    BY <1>3, <1>4
  <2>2. x < p => x \in 0..(n - 1)
    BY <1>1
  <2>3. x > p => x - 1 \in 0..(n - 1)
    BY <1>1
  <2> QED
    BY <1>1, <1>2, <2>1, <2>2, <2>3 DEF Contents
<1>5. ASSUME NEW e \in Contents PROVE e \in Contents'
  <2>1. PICK x \in 0..(n - 1) : e = elements[x]
    BY <1>5 DEF Contents
  <2>2. CASE x < p
    <3>1. x \in 0..n /\ e = elements'[x]
      BY <1>1, <1>2, <2>1, <2>2
    <3> QED
      BY <1>3, <3>1
  <2>3. CASE x >= p
    <3>1. x + 1 \in 0..n /\ e = elements'[x + 1]
      BY <1>1, <1>2, <2>1, <2>3
    <3> QED
      BY <1>3, <3>1
  <2> QED
    BY <1>1, <2>2, <2>3
<1>6. request.data \in Contents'
  <2>1. elements'[p] = request.data
    BY <1>1, <1>2
  <2> QED
    BY <1>1, <1>3, <2>1
<1> QED
  BY <1>4, <1>5, <1>6

LEMMA ContentsRemoved ==
    ASSUME IInv, NEW shrink \in 0..MaxShrink, NEW resized \in BOOLEAN, RemoveHit(shrink, resized)
    PROVE  Contents' = Contents \ {elements[mid]}
<1>1. pc = "found" /\ mid \in 0..(n - 1) /\ n \in Nat
  BY HitAt DEF RemoveHit, Hit, IInv, TypeOK
<1>2. n' = n - 1
      /\ \A x \in 0..(n - 2) : elements'[x] = IF x < mid THEN elements[x] ELSE elements[x + 1]
  BY RemovalIs
<1>3. Contents' = {elements'[x] : x \in 0..(n - 2)}
  <2>1. 0..(n' - 1) = 0..(n - 2)
    BY <1>1, <1>2
  <2> QED
    BY <2>1 DEF Contents
<1>4. \A x, y \in 0..(n - 1) : x # y => elements[x] # elements[y]
  BY KeyAssumption DEF IInv, InOrder
<1>5. ASSUME NEW e \in Contents' PROVE e \in Contents \ {elements[mid]}
  <2>1. PICK x \in 0..(n - 2) : e = elements'[x]
    BY <1>3, <1>5
  <2>2. PICK y \in {x, x + 1} : e = elements[y] /\ y # mid
    BY <1>1, <1>2, <2>1
  <2>3. y \in 0..(n - 1)
    BY <1>1
  <2> QED
    BY <1>1, <1>4, <2>2, <2>3 DEF Contents
<1>6. ASSUME NEW e \in Contents \ {elements[mid]} PROVE e \in Contents'
  <2>1. PICK x \in 0..(n - 1) : e = elements[x]
    BY <1>6 DEF Contents
  <2>2. x # mid
    BY <1>6, <2>1
  <2>3. CASE x < mid
    <3>1. x \in 0..(n - 2) /\ e = elements'[x]
      BY <1>1, <1>2, <2>1, <2>3
    <3> QED
      BY <1>3, <3>1
  <2>4. CASE x > mid
    <3>1. x - 1 \in 0..(n - 2) /\ e = elements'[x - 1]
      BY <1>1, <1>2, <2>1, <2>4
    <3> QED
      BY <1>3, <3>1
  <2> QED
    BY <1>1, <2>2, <2>3, <2>4
<1> QED
  BY <1>5, <1>6

\* The steps that leave the dictionary alone, and the calls that are refused.
LEMMA QuietSteps ==
    ASSUME IInv, [Next]_vars
    PROVE  /\ \A op \in Ops, d \in Data : Call(op, d) => UNCHANGED Dict!vars
           /\ Probe \/ DestroyHandOut \/ UNCHANGED vars => UNCHANGED Dict!vars
           /\ \A op \in Ops, d \in Data : Refused(op, d) => Dict!Refuse(op, d)
<1>1. ASSUME UNCHANGED <<elements, n, should_not_be_modified, answer>>
      PROVE  UNCHANGED Dict!vars
  BY <1>1 DEF Dict!vars, Contents
<1>2. ASSUME NEW op \in Ops, NEW d \in Data, Call(op, d) PROVE UNCHANGED Dict!vars
  BY <1>1, <1>2 DEF Call, StartSearch, array, destruction
<1>3. ASSUME Probe PROVE UNCHANGED Dict!vars
  BY <1>1, <1>3 DEF Probe, array, destruction
<1>4. ASSUME DestroyHandOut PROVE UNCHANGED Dict!vars
  BY <1>1, <1>4 DEF DestroyHandOut, array
<1>5. ASSUME UNCHANGED vars PROVE UNCHANGED Dict!vars
  BY <1>1, <1>5 DEF vars
<1>6. ASSUME NEW op \in Ops, NEW d \in Data, Refused(op, d) PROVE Dict!Refuse(op, d)
  <2>1. UNCHANGED <<elements, n, should_not_be_modified>>
    BY <1>6 DEF Refused, array, destruction
  <2> QED
    BY <1>6, <2>1 DEF Refused, Dict!Refuse, Dict!Says, Contents
<1> QED
  BY <1>2, <1>3, <1>4, <1>5, <1>6

\* What a return says, in the words of the dictionary.
LEMMA ReturnSays ==
    ASSUME NEW rc, NEW found, Return(rc, found)
    PROVE  /\ Dict!Says(request.op, request.data, rc, found)
           /\ UNCHANGED should_not_be_modified
BY DEF Return, Answer, Dict!Says, destruction

LEMMA SameContents == UNCHANGED array => Contents' = Contents
BY DEF array, Contents

LEMMA NotFrozen ==
    ASSUME IInv, pc \in {"probe", "found"}, request.op # "search"
    PROVE  ~should_not_be_modified
BY DEF IInv, Control

LEMMA DictInsert ==
    ASSUME IInv
    PROVE  /\ InsertNew \/ InsertExpand => Dict!Insert(request.data)
           /\ InsertFails => \E rc \in {"ENOSPC", "ENOMEM"} : Dict!InsertFails(request.data, rc)
           /\ \A overwrite \in BOOLEAN :
                InsertPresent(overwrite) => Dict!InsertOver(request.data, elements[mid])
<1>1. ASSUME NEW size \in Nat, NEW block \in [0..(size - 1) -> Data \cup {NULL}],
             n < size, \A x \in 0..(n - 1) : block[x] = elements[x],
             Miss("insert"), elements' = Inserted(block), n' = n + 1, Return("ok", NULL)
      PROVE  Dict!Insert(request.data)
  <2>1. pc = "probe" /\ lo > hi /\ request.op = "insert"
    BY <1>1 DEF Miss
  <2>2. \A x \in 0..n : elements'[x] =
                IF x < insertion_point THEN elements[x]
                ELSE IF x = insertion_point THEN request.data ELSE elements[x - 1]
    BY <1>1, InsertionIs
  <2>3. Contents' = Contents \cup {request.data}
    BY <1>1, <2>1, <2>2, ContentsInserted
  <2> QED
    BY <1>1, <2>1, <2>3, MissMissing, NotFrozen, ReturnSays DEF Dict!Insert
<1>2. maximum_size \in Nat /\ elements \in [0..(maximum_size - 1) -> Data \cup {NULL}]
      /\ n \in 0..maximum_size
  BY DEF IInv, TypeOK
<1>3. ASSUME InsertNew PROVE Dict!Insert(request.data)
  BY <1>1, <1>2, <1>3 DEF InsertNew
<1>4. ASSUME InsertExpand PROVE Dict!Insert(request.data)
  <2> DEFINE size == maximum_size + ExpansionSize
             block == Resized(elements, n, size)
  <2>1. size \in Nat /\ n < size
    BY <1>2, <1>4, SizeAssumption DEF InsertExpand
  <2>2. /\ Miss("insert") /\ elements' = Inserted(block) /\ n' = n + 1 /\ Return("ok", NULL)
    BY <1>4 DEF InsertExpand
  <2> HIDE DEF size
  <2>3. /\ block \in [0..(size - 1) -> Data \cup {NULL}]
        /\ \A x \in 0..(n - 1) : block[x] = elements[x]
    BY <1>2, <2>1, ResizedIs
  <2> QED
    BY <1>1, <2>1, <2>2, <2>3
<1>5. ASSUME InsertFails
      PROVE  \E rc \in {"ENOSPC", "ENOMEM"} : Dict!InsertFails(request.data, rc)
  <2>1. pc = "probe" /\ lo > hi /\ request.op = "insert" /\ Contents' = Contents
    BY <1>5, SameContents DEF InsertFails, Miss
  <2>2. PICK rc \in {"ENOSPC", "ENOMEM"} : Return(rc, NULL)
    BY <1>5 DEF InsertFails
  <2>3. Dict!InsertFails(request.data, rc)
    BY <2>1, <2>2, MissMissing, NotFrozen, ReturnSays DEF Dict!InsertFails
  <2> QED
    BY <2>3
<1>6. ASSUME NEW overwrite \in BOOLEAN, InsertPresent(overwrite)
      PROVE  Dict!InsertOver(request.data, elements[mid])
  <2>1. pc = "found" /\ request.op = "insert" /\ Return("ok", elements[mid]) /\ n' = n
        /\ elements' = IF overwrite THEN [elements EXCEPT ![mid] = request.data] ELSE elements
    BY <1>6 DEF InsertPresent, Hit
  <2>2. mid \in 0..(n - 1) /\ request.data \in Data
    BY <2>1, HitAt
  <2>3. CASE overwrite
    <3>1. Contents' = (Contents \ {elements[mid]}) \cup {request.data}
      BY <2>1, <2>2, <2>3, ContentsReplaced
    <3> QED
      BY <2>1, <3>1, HitHas, NotFrozen, ReturnSays DEF Dict!InsertOver, Dict!Has
  <2>4. CASE ~overwrite
    <3>1. Contents' = Contents
      BY <2>1, <2>4 DEF Contents
    <3> QED
      BY <2>1, <3>1, HitHas, NotFrozen, ReturnSays DEF Dict!InsertOver, Dict!Has
  <2> QED
    BY <2>3, <2>4
<1> QED
  BY <1>3, <1>4, <1>5, <1>6

LEMMA DictLookup ==
    ASSUME IInv
    PROVE  /\ SearchHit => Dict!Search(request.data, elements[mid])
           /\ SearchMiss => Dict!SearchFails(request.data)
           /\ RemoveMiss => Dict!RemoveFails(request.data)
           /\ \A shrink \in 0..MaxShrink, resized \in BOOLEAN :
                RemoveHit(shrink, resized) => Dict!Remove(request.data, elements[mid])
<1>1. ASSUME SearchHit PROVE Dict!Search(request.data, elements[mid])
  BY <1>1, SameContents, HitHas, ReturnSays DEF SearchHit, Hit, Dict!Search, Dict!Has
<1>2. ASSUME SearchMiss PROVE Dict!SearchFails(request.data)
  BY <1>2, SameContents, MissMissing, ReturnSays DEF SearchMiss, Miss, Dict!SearchFails
<1>3. ASSUME RemoveMiss PROVE Dict!RemoveFails(request.data)
  BY <1>3, SameContents, MissMissing, NotFrozen, ReturnSays DEF RemoveMiss, Miss, Dict!RemoveFails
<1>4. ASSUME NEW shrink \in 0..MaxShrink, NEW resized \in BOOLEAN, RemoveHit(shrink, resized)
      PROVE  Dict!Remove(request.data, elements[mid])
  <2>1. pc = "found" /\ request.op = "remove" /\ Return("ok", elements[mid])
    BY <1>4 DEF RemoveHit, Hit
  <2>2. Contents' = Contents \ {elements[mid]}
    BY <1>4, ContentsRemoved
  <2> QED
    BY <2>1, <2>2, HitHas, NotFrozen, ReturnSays DEF Dict!Remove, Dict!Has
<1> QED
  BY <1>1, <1>2, <1>3, <1>4

LEMMA DictWhole ==
    ASSUME IInv
    PROVE  /\ \A at \in 0..(n - 1), d \in Data : Replace(at, d) => Dict!Replace(elements[at], d)
           /\ \A resized \in BOOLEAN : Reset(resized) => Dict!Clear
           /\ DestroyStart => Dict!Freeze
           /\ DestroyEnd => Dict!Close
           /\ Reinit => UNCHANGED Dict!vars
<1>1. ASSUME NEW at \in 0..(n - 1), NEW d \in Data, Replace(at, d)
      PROVE  Dict!Replace(elements[at], d)
  <2>1. /\ elements' = [elements EXCEPT ![at] = d] /\ KeepsOrder(at, d) /\ n' = n /\ i = -1
        /\ UNCHANGED <<should_not_be_modified, answer>>
    BY <1>1 DEF Replace, Idle, destruction
  <2>2. Contents' = (Contents \ {elements[at]}) \cup {d}
    BY <2>1, ContentsReplaced
  <2>3. \A x \in Contents \ {elements[at]} : Key[x] # Key[d]
    <3> SUFFICES ASSUME NEW x \in 0..(n - 1), x # at PROVE Key[elements[x]] # Key[d]
      BY DEF Contents
    <3>1. /\ Key[d] \in Int /\ n \in Nat
          /\ \A y \in 0..(n - 1) : Key[elements[y]] \in Int
          /\ \A y, z \in 0..(n - 1) : y < z => Key[elements[y]] < Key[elements[z]]
      BY KeyAssumption DEF IInv, InOrder, TypeOK
    <3>2. CASE x < at
      <4>1. at - 1 \in 0..(n - 1) /\ Key[elements[at - 1]] < Key[d]
        BY <2>1, <3>1, <3>2 DEF KeepsOrder
      <4>2. x = at - 1 \/ Key[elements[x]] < Key[elements[at - 1]]
        BY <3>1, <3>2, <4>1
      <4> QED
        BY <3>1, <4>1, <4>2
    <3>3. CASE x > at
      <4>1. at + 1 \in 0..(n - 1) /\ Key[d] < Key[elements[at + 1]]
        BY <2>1, <3>1, <3>3 DEF KeepsOrder
      <4>2. x = at + 1 \/ Key[elements[at + 1]] < Key[elements[x]]
        BY <3>1, <3>3, <4>1
      <4> QED
        BY <3>1, <4>1, <4>2
    <3> QED
      BY <3>1, <3>2, <3>3
  <2>4. ~should_not_be_modified
    BY <2>1 DEF IInv, Control
  <2>5. elements[at] \in Contents
    BY DEF Contents
  <2> QED
    BY <2>1, <2>2, <2>3, <2>4, <2>5 DEF Dict!Replace
<1>2. ASSUME NEW resized \in BOOLEAN, Reset(resized) PROVE Dict!Clear
  <2>1. n' = 0 /\ i = -1 /\ UNCHANGED <<should_not_be_modified, answer>>
    BY <1>2 DEF Reset, Idle, destruction
  <2>2. Contents' = {} /\ ~should_not_be_modified
    BY <2>1 DEF Contents, IInv, Control
  <2> QED
    BY <2>1, <2>2 DEF Dict!Clear
<1>3. ASSUME DestroyStart PROVE Dict!Freeze
  <2>1. ~should_not_be_modified
    BY <1>3 DEF DestroyStart, Idle, IInv, Control
  <2> QED
    BY <1>3, <2>1, SameContents DEF DestroyStart, Dict!Freeze
<1>4. ASSUME DestroyEnd PROVE Dict!Close
  <2>1. n' = 0 /\ should_not_be_modified' = FALSE /\ answer' = answer /\ i >= n
    BY <1>4 DEF DestroyEnd
  <2>2. i >= 0
    BY <2>1 DEF IInv, TypeOK
  <2>3. Contents' = {} /\ should_not_be_modified
    BY <2>1, <2>2 DEF Contents, IInv, Control
  <2> QED
    BY <2>1, <2>3 DEF Dict!Close
<1>5. ASSUME Reinit PROVE UNCHANGED Dict!vars
  <2>1. n = 0 /\ n' = 0 /\ UNCHANGED <<should_not_be_modified, answer>>
    BY <1>5 DEF Reinit, destruction, IInv, Control
  <2>2. Contents' = Contents
    BY <2>1 DEF Contents
  <2> QED
    BY <2>1, <2>2 DEF Dict!vars
<1> QED
  BY <1>1, <1>2, <1>3, <1>4, <1>5

LEMMA DictStep == IInv /\ [Next]_vars => [Dict!Next]_(Dict!vars)
<1> SUFFICES ASSUME IInv, [Next]_vars PROVE Dict!Next \/ UNCHANGED Dict!vars
  BY Zenon
<1>1. pc \in {"probe", "found"} => request.data \in Data
  BY DEF IInv, Control
<1>2. ASSUME NEW op \in Ops, NEW d \in Data, Call(op, d) \/ Refused(op, d)
      PROVE  Dict!Next \/ UNCHANGED Dict!vars
  <2>1. Call(op, d) => UNCHANGED Dict!vars
    BY QuietSteps
  <2>2. Refused(op, d) => Dict!Refuse(op, d) /\ op \in {"insert", "remove"}
    BY QuietSteps DEF Refused
  <2> QED
    BY <1>2, <2>1, <2>2 DEF Dict!Next
<1>3. CASE Probe \/ DestroyHandOut \/ UNCHANGED vars
  BY <1>3, QuietSteps
<1>4. ASSUME NEW overwrite \in BOOLEAN, InsertPresent(overwrite) PROVE Dict!Next
  <2>1. request.data \in Data /\ elements[mid] \in Data
    BY <1>4, HitAt DEF InsertPresent, Hit
  <2>2. Dict!InsertOver(request.data, elements[mid])
    BY <1>4, DictInsert
  <2> QED
    BY <2>1, <2>2 DEF Dict!Next
<1>5. CASE InsertNew \/ InsertExpand
  <2>1. request.data \in Data
    BY <1>1, <1>5 DEF InsertNew, InsertExpand, Miss
  <2>2. Dict!Insert(request.data)
    BY <1>5, DictInsert
  <2> QED
    BY <2>1, <2>2 DEF Dict!Next
<1>6. CASE InsertFails
  <2>1. request.data \in Data
    BY <1>1, <1>6 DEF InsertFails, Miss
  <2>2. \E rc \in {"ENOSPC", "ENOMEM"} : Dict!InsertFails(request.data, rc)
    BY <1>6, DictInsert
  <2> QED
    BY <2>1, <2>2 DEF Dict!Next
<1>7. CASE SearchHit
  <2>1. request.data \in Data /\ elements[mid] \in Data
    BY <1>7, HitAt DEF SearchHit, Hit
  <2>2. Dict!Search(request.data, elements[mid])
    BY <1>7, DictLookup
  <2> QED
    BY <2>1, <2>2 DEF Dict!Next
<1>8. CASE SearchMiss \/ RemoveMiss
  <2>1. request.data \in Data
    BY <1>1, <1>8 DEF SearchMiss, RemoveMiss, Miss
  <2>2. Dict!SearchFails(request.data) \/ Dict!RemoveFails(request.data)
    BY <1>8, DictLookup
  <2> QED
    BY <2>1, <2>2 DEF Dict!Next
<1>9. ASSUME NEW shrink \in 0..MaxShrink, NEW resized \in BOOLEAN, RemoveHit(shrink, resized)
      PROVE  Dict!Next
  <2>1. request.data \in Data /\ elements[mid] \in Data
    BY <1>9, HitAt DEF RemoveHit, Hit
  <2>2. Dict!Remove(request.data, elements[mid])
    BY <1>9, DictLookup
  <2> QED
    BY <2>1, <2>2 DEF Dict!Next
<1>10. ASSUME NEW at \in 0..(n - 1), NEW d \in Data, Replace(at, d) PROVE Dict!Next
  <2>1. elements[at] \in Data
    BY DEF IInv, InOrder
  <2>2. Dict!Replace(elements[at], d)
    BY <1>10, DictWhole
  <2> QED
    BY <2>1, <2>2 DEF Dict!Next
<1>11. ASSUME NEW resized \in BOOLEAN, Reset(resized) PROVE Dict!Next
  <2>1. Dict!Clear
    BY <1>11, DictWhole
  <2> QED
    BY <2>1 DEF Dict!Next
<1>12. CASE DestroyStart \/ DestroyEnd \/ Reinit
  <2>1. Dict!Freeze \/ Dict!Close \/ UNCHANGED Dict!vars
    BY <1>12, DictWhole
  <2> QED
    BY <2>1 DEF Dict!Next
<1> QED
  BY <1>2, <1>3, <1>4, <1>5, <1>6, <1>7, <1>8, <1>9, <1>10, <1>11, <1>12 DEF Next

\* index_object.c implements the dictionary: every answer is the one the set
\* of elements at that moment calls for, for any keys and sizes.
THEOREM Refinement == Spec => ImplementsDictionary
<1>1. Init => Dict!Init
  <2> SUFFICES ASSUME Init PROVE Dict!Init
    OBVIOUS
  <2>1. n = 0 /\ should_not_be_modified = FALSE /\ answer = Dict!NoAnswer
    BY DEF Init, NoAnswer, Dict!NoAnswer
  <2>2. Contents = {}
    BY <2>1 DEF Contents
  <2>3. should_not_be_modified \in {FALSE}
    BY <2>1
  <2> QED
    BY <2>1, <2>2, <2>3, Zenon DEF Dict!Init
<1> QED
  BY <1>1, DictStep, Invariance, PTL DEF Spec, ImplementsDictionary, Dict!Spec
=============================================================================
