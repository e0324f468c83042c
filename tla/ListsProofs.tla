----------------------------- MODULE ListsProofs -----------------------------
(***************************************************************************)
(* Proofs about the three lists of a process: the way each is linked, what *)
(* the shared monitor has counted, and what a removal removes.             *)
(***************************************************************************)
EXTENDS Lists, DataFacts

Slots == Nodes \cup {NULL}

\* The blocks of the three lists, whatever their links.
HeapOK(h) ==
    /\ DOMAIN h \subseteq Nodes /\ IsFiniteSet(DOMAIN h)
    /\ \A a \in DOMAIN h : h[a] \in Blocks

\* s are the nodes met from head on, each once, and they are all in use.
IsChain(h, s, head) ==
    /\ s \in Seq(DOMAIN h)
    /\ \A i, j \in 1 .. Len(s) : s[i] = s[j] => i = j
    /\ head = IF s = << >> THEN NULL ELSE s[1]
    /\ \A i \in 1 .. Len(s) : h[s[i]].next = IF i = Len(s) THEN NULL ELSE s[i + 1]

-----------------------------------------------------------------------------
(***************************************************************************)
(* Chains                                                                  *)
(***************************************************************************)
LEMMA ShortEnough ==
    ASSUME NEW S, IsFiniteSet(S), NEW s \in Seq(S), \A i, j \in 1 .. Len(s) : s[i] = s[j] => i = j
    PROVE  Len(s) <= Cardinality(S)
<1>1. ToSet(s) \subseteq S /\ IsInjective(s)
  BY ToSetIs DEF IsInjective
<1>2. Len(s) = Cardinality(ToSet(s))
  BY <1>1, LenIsCardinality
<1>3. Cardinality(ToSet(s)) <= Cardinality(S)
  BY <1>1, FS_Subset
<1> QED
  BY <1>2, <1>3

\* The chain is what following the links gives.
LEMMA ChainIs ==
    ASSUME NEW h, NEW s, NEW head, HeapOK(h), IsChain(h, s, head)
    PROVE  ChainIn(h, head) = s
<1> DEFINE Step(g, k) == IF k = 0 THEN head
                         ELSE IF g[k - 1] \in DOMAIN h THEN h[g[k - 1]].next ELSE NULL
           after == CHOOSE g : g = [k \in Nat |-> Step(g, k)]
           way == [k \in Nat |-> IF k < Len(s) THEN s[k + 1] ELSE NULL]
           met == {k \in 0 .. Cardinality(DOMAIN h) : after[k] # NULL}
<1>1. ChainIn(h, head) = [i \in 1 .. Cardinality(met) |-> after[i - 1]]
  BY DEF ChainIn
<1>2. /\ s \in Seq(DOMAIN h) /\ Len(s) \in Nat /\ NULL \notin DOMAIN h
      /\ head = IF s = << >> THEN NULL ELSE s[1]
      /\ \A i \in 1 .. Len(s) : /\ s[i] \in DOMAIN h
                                /\ h[s[i]].next = IF i = Len(s) THEN NULL ELSE s[i + 1]
      /\ Len(s) <= Cardinality(DOMAIN h) /\ Cardinality(DOMAIN h) \in Nat
  BY DataAssumption, ShortEnough, FS_CardinalityType DEF IsChain, HeapOK
<1>3. \A k \in Nat : way[k] = Step(way, k)
  <2> SUFFICES ASSUME NEW k \in Nat PROVE way[k] = Step(way, k)
    OBVIOUS
  <2>1. CASE k = 0
    <3>1. s = << >> <=> Len(s) = 0
      BY <1>2
    <3> QED
      BY <1>2, <2>1, <3>1
  <2>2. CASE k # 0 /\ k - 1 < Len(s)
    <3>1. k - 1 \in Nat /\ k \in 1 .. Len(s) /\ way[k - 1] = s[k]
      BY <1>2, <2>2
    <3> QED
      BY <1>2, <2>2, <3>1
  <2>3. CASE k # 0 /\ ~(k - 1 < Len(s))
    <3>1. k - 1 \in Nat /\ way[k - 1] = NULL /\ way[k] = NULL
      BY <1>2, <2>3
    <3> QED
      BY <1>2, <2>3, <3>1
  <2> QED
    BY <2>1, <2>2, <2>3
<1>4. after = [k \in Nat |-> Step(after, k)]
  <2>1. way = [k \in Nat |-> Step(way, k)]
    <3>1. way = [k \in Nat |-> way[k]]
      OBVIOUS
    <3> HIDE DEF way, Step
    <3> QED
      BY <1>3, <3>1
  <2> HIDE DEF way, Step
  <2> QED
    BY <2>1
<1>5. \A k \in Nat : after[k] = Step(after, k)
  <2> HIDE DEF after, Step
  <2> QED
    BY <1>4
<1> HIDE DEF after, way, met
<1>6. \A k \in Nat : after[k] = way[k]
  <2> SUFFICES ASSUME NEW n \in Nat PROVE after[n] = way[n]
    OBVIOUS
  <2> DEFINE Same == {k \in Nat : after[k] = way[k]}
  <2>1. 0 \in Same
    BY <1>3, <1>5
  <2>2. ASSUME NEW k \in 0 .. n - 1, k \in Same PROVE k + 1 \in Same
    <3>1. k \in Nat /\ k + 1 \in Nat /\ k + 1 # 0 /\ k + 1 - 1 = k
      OBVIOUS
    <3>2. after[k] = way[k]
      BY <2>2
    <3>3. Step(after, k + 1) = Step(way, k + 1)
      BY <3>1, <3>2
    <3> QED
      BY <1>3, <1>5, <3>1, <3>3
  <2>3. 0 .. n \subseteq Same
    <3> HIDE DEF Same
    <3> QED
      BY <2>1, <2>2, NatSetInduction
  <2> QED
    BY <2>3
<1>7. met = 0 .. Len(s) - 1
  <2>1. \A k \in 0 .. Cardinality(DOMAIN h) : k \in Nat /\ (after[k] # NULL <=> k < Len(s))
    <3> SUFFICES ASSUME NEW k \in 0 .. Cardinality(DOMAIN h) PROVE after[k] # NULL <=> k < Len(s)
      OBVIOUS
    <3>1. k < Len(s) => k + 1 \in 1 .. Len(s)
      BY <1>2
    <3> QED
      BY <1>2, <1>6, <3>1 DEF way
  <2> QED
    BY <1>2, <2>1 DEF met
<1>8. Cardinality(met) = Len(s)
  <2> DEFINE n == Len(s)
  <2>0. n \in Nat /\ n - 1 \in Int /\ 0 \in Int
    BY <1>2
  <2> HIDE DEF n
  <2>1. Cardinality(0 .. n - 1) = IF 0 > n - 1 THEN 0 ELSE n - 1 - 0 + 1
    BY <2>0, FS_Interval
  <2>2. Cardinality(0 .. n - 1) = n
    BY <2>0, <2>1
  <2> QED
    BY <1>7, <2>2 DEF n
<1>9. \A i \in 1 .. Len(s) : after[i - 1] = s[i]
  BY <1>2, <1>6 DEF way
<1>10. s = [i \in 1 .. Len(s) |-> s[i]]
  BY <1>2
<1> QED
  BY <1>1, <1>8, <1>9, <1>10

LEMMA SeqWithin ==
    ASSUME NEW T, NEW U, NEW s \in Seq(T), \A i \in 1 .. Len(s) : s[i] \in U
    PROVE  s \in Seq(U)
OBVIOUS

\* A chain is still one if its nodes and their links are.
LEMMA ChainStays ==
    ASSUME NEW h, NEW g, NEW s, NEW head, IsChain(h, s, head),
           \A a \in ToSet(s) : a \in DOMAIN g /\ g[a].next = h[a].next
    PROVE  IsChain(g, s, head)
<1>1. s \in Seq(DOMAIN h) /\ \A i \in 1 .. Len(s) : s[i] \in ToSet(s)
  BY DEF IsChain, ToSet
<1>2. s \in Seq(DOMAIN g)
  BY <1>1, SeqWithin
<1> QED
  BY <1>1, <1>2 DEF IsChain

\* The node is linked in before the k-th one.
Spliced(h, g, s, k, node) ==
    /\ node \in DOMAIN g /\ node \notin ToSet(s)
    /\ g[node].next = IF k = Len(s) + 1 THEN NULL ELSE s[k]
    /\ \A i \in 1 .. Len(s) : /\ s[i] \in DOMAIN g
                              /\ g[s[i]].next = IF i = k - 1 THEN node ELSE h[s[i]].next

\* A node is linked in.
LEMMA ChainInserts ==
    ASSUME NEW h, NEW g, NEW s, NEW head, NEW first, NEW node, NEW k \in 1 .. Len(s) + 1,
           IsChain(h, s, head), first = IF k = 1 THEN node ELSE head, Spliced(h, g, s, k, node)
    PROVE  /\ IsChain(g, InsertAt(s, k, node), first)
           /\ ToSet(InsertAt(s, k, node)) = ToSet(s) \cup {node}
<1> DEFINE r == InsertAt(s, k, node)
           n == Len(s)
           T == DOMAIN h \cup {node}
<1>1. /\ s \in Seq(DOMAIN h) /\ n \in Nat
      /\ head = IF s = << >> THEN NULL ELSE s[1]
      /\ \A i, j \in 1 .. n : s[i] = s[j] => i = j
      /\ \A i \in 1 .. n : h[s[i]].next = IF i = n THEN NULL ELSE s[i + 1]
      /\ \A i \in 1 .. n : s[i] # node
      /\ s = << >> <=> n = 0
  BY DEF IsChain, ToSet, Spliced
<1>2. s \in Seq(T)
  BY <1>1, SeqWithin
<1>3. /\ r \in Seq(T) /\ Len(r) = n + 1
      /\ \A i \in 1 .. n + 1 : r[i] = IF i < k THEN s[i] ELSE IF i = k THEN node ELSE s[i - 1]
  <2>1. node \in T
    OBVIOUS
  <2> HIDE DEF T
  <2> QED
    BY <1>2, <2>1, InsertAtIs
<1> HIDE DEF r, n
<1>4. \A i \in 1 .. n + 1 : /\ i < k => i \in 1 .. n
                            /\ i > k => i - 1 \in 1 .. n
  BY <1>1 DEF n
<1>5. \A i \in 1 .. n + 1 : r[i] \in DOMAIN g
  <2> SUFFICES ASSUME NEW i \in 1 .. n + 1 PROVE r[i] \in DOMAIN g
    OBVIOUS
  <2>1. i < k \/ i = k \/ i > k
    OBVIOUS
  <2> QED
    BY <1>3, <1>4, <2>1 DEF n, Spliced
<1>6. r \in Seq(DOMAIN g)
  BY <1>3, <1>5, SeqWithin
<1>7. ASSUME NEW i \in 1 .. n + 1, NEW j \in 1 .. n + 1, r[i] = r[j] PROVE i = j
  <2>1. (i < k \/ i = k \/ i > k) /\ (j < k \/ j = k \/ j > k)
    OBVIOUS
  <2>2. /\ i < k => i \in 1 .. n /\ r[i] = s[i]
        /\ i = k => r[i] = node
        /\ i > k => i - 1 \in 1 .. n /\ r[i] = s[i - 1]
        /\ j < k => j \in 1 .. n /\ r[j] = s[j]
        /\ j = k => r[j] = node
        /\ j > k => j - 1 \in 1 .. n /\ r[j] = s[j - 1]
    BY <1>3, <1>4
  <2>3. /\ i < k /\ j > k => i = j - 1
        /\ i > k /\ j < k => i - 1 = j
        /\ i > k /\ j > k => i - 1 = j - 1
        /\ i < k /\ j < k => i = j
    BY <1>1, <1>7, <2>2
  <2> QED
    BY <1>1, <1>7, <2>1, <2>2, <2>3
<1>8. ASSUME NEW i \in 1 .. n + 1 PROVE g[r[i]].next = IF i = n + 1 THEN NULL ELSE r[i + 1]
  <2>0. /\ \A j \in 1 .. n : g[s[j]].next = IF j = k - 1 THEN node ELSE h[s[j]].next
        /\ g[node].next = IF k = n + 1 THEN NULL ELSE s[k]
        /\ k \in 1 .. n + 1
    BY DEF n, Spliced
  <2>1. CASE i + 1 < k
    <3>1. i \in 1 .. n /\ i # n /\ r[i] = s[i] /\ i # k - 1 /\ i + 1 \in 1 .. n + 1 /\ r[i + 1] = s[i + 1]
      BY <1>1, <1>3, <2>1, <2>0
    <3> QED
      BY <1>1, <2>0, <3>1
  <2>2. CASE i + 1 = k
    <3>1. i \in 1 .. n /\ r[i] = s[i] /\ i = k - 1 /\ i + 1 \in 1 .. n + 1 /\ r[i + 1] = node
      BY <1>1, <1>3, <2>2, <2>0
    <3> QED
      BY <1>1, <2>0, <3>1
  <2>3. CASE i = k
    <3>1. r[i] = node /\ (i # n + 1 => i + 1 \in 1 .. n + 1 /\ r[i + 1] = s[k])
      BY <1>1, <1>3, <2>3, <2>0
    <3> QED
      BY <1>1, <2>0, <2>3, <3>1
  <2>4. CASE i > k
    <3>0. /\ i - 1 \in 1 .. n /\ i - 1 # k - 1 /\ ~(i < k) /\ i # k
          /\ i # n + 1 => i + 1 \in 1 .. n + 1 /\ i - 1 # n /\ ~(i + 1 < k) /\ i + 1 # k /\ i + 1 - 1 = i
          /\ i = n + 1 => i - 1 = n
      <4>1. n \in Nat /\ k \in 1 .. n + 1
        BY <1>1, <2>0
      <4> QED
        BY <2>4, <4>1
    <3>1. /\ r[i] = s[i - 1] /\ i - 1 \in 1 .. n /\ i - 1 # k - 1
          /\ i # n + 1 => i + 1 \in 1 .. n + 1 /\ r[i + 1] = s[i] /\ i - 1 # n
          /\ i = n + 1 => i - 1 = n
      <4>1. i # n + 1 => r[i + 1] = s[i]
        BY <1>3, <3>0
      <4> QED
        BY <1>3, <3>0, <4>1
    <3>2. g[s[i - 1]].next = IF i - 1 = n THEN NULL ELSE s[i - 1 + 1]
      BY <1>1, <2>0, <3>1
    <3> QED
      BY <1>1, <2>0, <3>1, <3>2
  <2>5. k \in Int /\ (i + 1 < k \/ i + 1 = k \/ i = k \/ i > k)
    BY <2>0
  <2> QED
    BY <2>1, <2>2, <2>3, <2>4, <2>5
<1>9. r # << >> /\ first = r[1]
  <2>1. 1 \in 1 .. n + 1 /\ k \in 1 .. n + 1 /\ (k # 1 => 1 < k /\ n # 0)
    BY <1>1 DEF n
  <2> QED
    BY <1>1, <1>3, <2>1
<1>10. ToSet(r) = ToSet(s) \cup {node}
  <2>1. ToSet(r) = {r[i] : i \in 1 .. n + 1} /\ ToSet(s) = {s[i] : i \in 1 .. n}
    BY <1>1, <1>3, ToSetIs DEF n
  <2>2. \A i \in 1 .. n + 1 : r[i] \in {s[j] : j \in 1 .. n} \cup {node}
    BY <1>3, <1>4
  <2>3. ASSUME NEW j \in 1 .. n PROVE \E i \in 1 .. n + 1 : r[i] = s[j]
    <3>1. CASE j < k
      <4>1. j \in 1 .. n + 1 /\ r[j] = s[j]
        BY <1>1, <1>3, <3>1
      <4> QED
        BY <4>1
    <3>2. CASE ~(j < k)
      <4>1. j + 1 \in 1 .. n + 1 /\ ~(j + 1 < k) /\ j + 1 # k /\ j + 1 - 1 = j
        BY <1>1, <3>2
      <4>2. r[j + 1] = s[j]
        BY <1>3, <4>1
      <4> QED
        BY <4>1, <4>2
    <3> QED
      BY <3>1, <3>2
  <2>4. k \in 1 .. n + 1 /\ r[k] = node
    BY <1>1, <1>3 DEF n
  <2> QED
    BY <2>1, <2>2, <2>3, <2>4
<1>11. IsChain(g, r, first)
  BY <1>3, <1>6, <1>7, <1>8, <1>9 DEF IsChain
<1> QED
  BY <1>10, <1>11 DEF r

\* The k-th node is bypassed.
Bypassed(h, g, s, k) ==
    \A i \in 1 .. Len(s) : i # k =>
        /\ s[i] \in DOMAIN g
        /\ g[s[i]].next = IF i = k - 1 THEN h[s[k]].next ELSE h[s[i]].next

\* A node is unlinked.
LEMMA ChainRemoves ==
    ASSUME NEW h, NEW g, NEW s, NEW head, NEW first, NEW k \in 1 .. Len(s), IsChain(h, s, head),
           first = IF k = 1 THEN h[s[1]].next ELSE head, Bypassed(h, g, s, k)
    PROVE  /\ IsChain(g, RemoveAt(s, k), first)
           /\ ToSet(RemoveAt(s, k)) = ToSet(s) \ {s[k]}
<1> DEFINE r == RemoveAt(s, k)
           n == Len(s)
<1>1. /\ s \in Seq(DOMAIN h) /\ n \in Nat
      /\ head = IF s = << >> THEN NULL ELSE s[1]
      /\ \A i, j \in 1 .. n : s[i] = s[j] => i = j
      /\ \A i \in 1 .. n : h[s[i]].next = IF i = n THEN NULL ELSE s[i + 1]
      /\ s = << >> <=> n = 0
  BY DEF IsChain
<1>2. /\ r \in Seq(DOMAIN h) /\ Len(r) = n - 1
      /\ \A i \in 1 .. n - 1 : r[i] = IF i < k THEN s[i] ELSE s[i + 1]
  <2>1. s \in Seq(DOMAIN h) /\ k \in 1 .. Len(s)
    BY <1>1
  <2> QED
    BY <2>1, RemoveAtIs
<1>3. /\ \A i \in 1 .. n : i # k =>
           /\ s[i] \in DOMAIN g
           /\ g[s[i]].next = IF i = k - 1 THEN h[s[k]].next ELSE h[s[i]].next
      /\ k \in 1 .. n
  BY DEF n, Bypassed
<1> HIDE DEF r, n
<1> DEFINE m(i) == IF i < k THEN i ELSE i + 1
<1>4. \A i \in 1 .. n - 1 : m(i) \in 1 .. n /\ m(i) # k /\ r[i] = s[m(i)]
  BY <1>1, <1>2, <1>3
<1>5. r \in Seq(DOMAIN g)
  <2>1. \A i \in 1 .. Len(r) : r[i] \in DOMAIN g
    BY <1>2, <1>3, <1>4
  <2> QED
    BY <1>2, <2>1, SeqWithin
<1>6. ASSUME NEW i \in 1 .. n - 1, NEW j \in 1 .. n - 1, r[i] = r[j] PROVE i = j
  <2>1. m(i) = m(j)
    <3> HIDE DEF m
    <3>1. /\ m(i) \in 1 .. n /\ r[i] = s[m(i)]
          /\ m(j) \in 1 .. n /\ r[j] = s[m(j)]
      BY <1>4
    <3> QED
      BY <1>1, <1>6, <3>1
  <2> QED
    BY <1>3, <2>1
<1>7. ASSUME NEW i \in 1 .. n - 1 PROVE g[r[i]].next = IF i = n - 1 THEN NULL ELSE r[i + 1]
  <2>1. CASE i + 1 < k
    <3>1. r[i] = s[i] /\ i \in 1 .. n /\ i # k /\ i # k - 1 /\ i # n /\ i + 1 \in 1 .. n - 1 /\ r[i + 1] = s[i + 1]
          /\ i # n - 1
      BY <1>1, <1>2, <1>3, <2>1
    <3> QED
      BY <1>1, <1>3, <3>1
  <2>2. CASE i + 1 = k
    <3>1. r[i] = s[i] /\ i \in 1 .. n /\ i # k /\ i = k - 1
          /\ (i = n - 1 <=> k = n) /\ (k # n => i + 1 \in 1 .. n - 1 /\ r[i + 1] = s[k + 1])
      BY <1>1, <1>2, <1>3, <2>2
    <3>2. g[s[i]].next = h[s[k]].next
      BY <1>3, <3>1
    <3> QED
      BY <1>1, <1>3, <3>1, <3>2
  <2>3. CASE i >= k
    <3>1. r[i] = s[i + 1] /\ i + 1 \in 1 .. n /\ i + 1 # k /\ i + 1 # k - 1
          /\ (i = n - 1 <=> i + 1 = n) /\ (i # n - 1 => i + 1 \in 1 .. n - 1 /\ r[i + 1] = s[i + 1 + 1])
      BY <1>1, <1>2, <1>3, <2>3
    <3>2. g[s[i + 1]].next = h[s[i + 1]].next
      BY <1>3, <3>1
    <3> QED
      BY <1>1, <1>3, <3>1, <3>2
  <2>4. i + 1 < k \/ i + 1 = k \/ i >= k
    BY <1>3
  <2> QED
    BY <2>1, <2>2, <2>3, <2>4
<1>8. first = IF r = << >> THEN NULL ELSE r[1]
  <2>1. r = << >> <=> n = 1
    BY <1>1, <1>2, <1>3
  <2>2. n # 1 => 1 \in 1 .. n - 1 /\ 1 \in 1 .. n
    BY <1>1, <1>3
  <2>3. n # 1 => r[1] = IF k = 1 THEN s[2] ELSE s[1]
    BY <1>2, <1>3, <2>2
  <2>4. h[s[1]].next = IF n = 1 THEN NULL ELSE s[2]
    <3>1. 1 \in 1 .. n
      BY <1>1, <1>3
    <3> QED
      BY <1>1, <3>1
  <2>5. n = 1 => k = 1
    BY <1>3
  <2> QED
    BY <1>1, <1>3, <2>1, <2>3, <2>4, <2>5
<1>9. ToSet(r) = ToSet(s) \ {s[k]}
  <2>1. ToSet(r) = {r[i] : i \in 1 .. n - 1} /\ ToSet(s) = {s[i] : i \in 1 .. n}
    BY <1>1, <1>2, ToSetIs DEF n
  <2>2. \A i \in 1 .. n - 1 : r[i] \in {s[j] : j \in 1 .. n} \ {s[k]}
    <3> SUFFICES ASSUME NEW i \in 1 .. n - 1 PROVE r[i] \in {s[j] : j \in 1 .. n} \ {s[k]}
      OBVIOUS
    <3>1. PICK j \in 1 .. n : j # k /\ r[i] = s[j]
      BY <1>4
    <3>2. s[j] # s[k]
      BY <1>1, <1>3, <3>1
    <3> QED
      BY <3>1, <3>2
  <2>3. ASSUME NEW j \in 1 .. n, j # k PROVE \E i \in 1 .. n - 1 : r[i] = s[j]
    <3>1. CASE j < k
      <4>1. j \in 1 .. n - 1 /\ r[j] = s[j]
        BY <1>1, <1>2, <1>3, <3>1
      <4> QED
        BY <4>1
    <3>2. CASE ~(j < k)
      <4>1. j - 1 \in 1 .. n - 1 /\ ~(j - 1 < k) /\ j - 1 + 1 = j
        BY <1>1, <1>3, <2>3, <3>2
      <4>2. r[j - 1] = s[j]
        BY <1>2, <4>1
      <4> QED
        BY <4>1, <4>2
    <3> QED
      BY <3>1, <3>2
  <2> QED
    BY <2>1, <2>2, <2>3
<1>10. IsChain(g, r, first)
  BY <1>2, <1>5, <1>6, <1>7, <1>8 DEF IsChain
<1> QED
  BY <1>9, <1>10 DEF r, n

-----------------------------------------------------------------------------
(***************************************************************************)
(* The data along a chain, and how the three lists are linked              *)
(***************************************************************************)
DataIn(h, s) == [i \in 1 .. Len(s) |-> h[s[i]].data]
Known == Data \cup {NULL}

\* The end node, the last one, is the one without data.
EndOnly(d) == d \in Seq(Known) /\ \A i \in 1 .. Len(d) : (d[i] = NULL) <=> (i = Len(d))
Sorted(d) == \A i, j \in 1 .. Len(d) - 1 : i <= j => d[i] <= d[j]

EndedChain(h, s, st) ==
    /\ IsChain(h, s, st.head) /\ EndOnly(DataIn(h, s))
    /\ st \in Structures
    /\ st.n = IF s = << >> THEN 0 ELSE Len(s) - 1
LifoOK(h, s, st) == EndedChain(h, s, st) /\ (LifoMax # 0 => st.n <= LifoMax)
OrderedOK(h, s, st) == EndedChain(h, s, st) /\ Sorted(DataIn(h, s))
ListOK(h, s, st) ==
    /\ IsChain(h, s, st.head) /\ DataIn(h, s) \in Seq(Data)
    /\ st \in [head : Slots, tail : Slots, n : Nat]
    /\ st.n = Len(s) /\ (ListMax # 0 => st.n <= ListMax)
    /\ st.tail = IF s = << >> THEN NULL ELSE s[Len(s)]
    /\ \A i \in 1 .. Len(s) : h[s[i]].prev = IF i = 1 THEN NULL ELSE s[i - 1]

Counted(h) == {a \in DOMAIN h : h[a].counted}
\* Only the end node of the lifo may be uncounted.
MonitorOK(h, m, s) ==
    /\ m = [bytes_used |-> Bytes(h, Counted(h)), live |-> Cardinality(Counted(h))]
    /\ \A a \in DOMAIN h : ~h[a].counted => s # << >> /\ a = s[Len(s)]

HandlesOK(h, hs, s) ==
    /\ hs \subseteq {"lifo", "list"} \X Nodes \X Data
    /\ \A x \in hs : x[1] = "list" => x[2] \in ToSet(s) /\ h[x[2]].data = x[3]

\* A set in three parts.
InThree(X, A, B, C) ==
    /\ X = A \cup B \cup C
    /\ A \cap B = {} /\ A \cap C = {} /\ B \cap C = {}

\* L, D and O are the chains of the lifo, the list and the ordered list.
Linked(L, D, O) ==
    /\ HeapOK(heap)
    /\ LifoOK(heap, L, lifo) /\ ListOK(heap, D, list) /\ OrderedOK(heap, O, ordered)
    /\ InThree(DOMAIN heap, ToSet(L), ToSet(D), ToSet(O))
    /\ MonitorOK(heap, monitor, L)
    /\ HandlesOK(heap, handles, D)

IInv == Linked(Chain(lifo.head), ListElements, OrderedNodes)

-----------------------------------------------------------------------------
LEMMA DataIs ==
    ASSUME NEW h, NEW s, HeapOK(h), s \in Seq(DOMAIN h)
    PROVE  /\ DataIn(h, s) \in Seq(Known) /\ Len(DataIn(h, s)) = Len(s)
           /\ \A i \in 1 .. Len(s) : DataIn(h, s)[i] = h[s[i]].data
<1>1. \A i \in 1 .. Len(s) : h[s[i]].data \in Known
  BY DEF HeapOK, Blocks, Known
<1>2. Len(s) \in Nat
  OBVIOUS
<1> QED
  BY <1>1, <1>2 DEF DataIn

LEMMA EndedInserts ==
    ASSUME NEW d, EndOnly(d), NEW k \in 1 .. Len(d), NEW x \in Data
    PROVE  EndOnly(InsertAt(d, k, x))
<1> DEFINE e == InsertAt(d, k, x)
<1>1. /\ e \in Seq(Known) /\ Len(e) = Len(d) + 1
      /\ \A i \in 1 .. Len(d) + 1 : e[i] = IF i < k THEN d[i] ELSE IF i = k THEN x ELSE d[i - 1]
  <2>1. d \in Seq(Known)
    BY DEF EndOnly
  <2>2. x \in Known
    BY DEF Known
  <2>3. k \in 1 .. Len(d) + 1
    BY <2>1
  <2>4. /\ InsertAt(d, k, x) \in Seq(Known)
        /\ Len(InsertAt(d, k, x)) = Len(d) + 1
    BY <2>1, <2>2, <2>3, InsertAtIs
  <2>5. ASSUME NEW i \in 1 .. Len(d) + 1
        PROVE  InsertAt(d, k, x)[i] = IF i < k THEN d[i] ELSE IF i = k THEN x ELSE d[i - 1]
    BY <2>1, <2>2, <2>3, InsertedAt
  <2> QED
    BY <2>4, <2>5
<1>2. /\ Len(d) \in Nat /\ x # NULL
      /\ \A i \in 1 .. Len(d) : (d[i] = NULL) <=> (i = Len(d))
  <2>1. x # NULL
    BY DataAssumption
  <2>2. Len(d) \in Nat
    BY DEF EndOnly
  <2>3. \A i \in 1 .. Len(d) : (d[i] = NULL) <=> (i = Len(d))
    BY DEF EndOnly
  <2> QED
    BY <2>1, <2>2, <2>3
<1> HIDE DEF e
<1>3. ASSUME NEW i \in 1 .. Len(e) PROVE (e[i] = NULL) <=> (i = Len(e))
  <2>1. CASE i < k
    <3>1. i \in 1 .. Len(d) /\ i # Len(d) /\ i # Len(e) /\ e[i] = d[i]
      BY <1>1, <1>2, <2>1
    <3> QED
      BY <1>2, <3>1
  <2>2. CASE i = k
    <3>1. e[i] = x /\ i # Len(e)
      BY <1>1, <1>2, <2>2
    <3> QED
      BY <1>2, <3>1
  <2>3. CASE i > k
    <3>1. i - 1 \in 1 .. Len(d) /\ (i - 1 = Len(d) <=> i = Len(e)) /\ e[i] = d[i - 1]
      BY <1>1, <1>2, <2>3
    <3> QED
      BY <1>2, <3>1
  <2> QED
    BY <1>1, <2>1, <2>2, <2>3
<1>4. EndOnly(e)
  BY <1>1, <1>3 DEF EndOnly
<1> QED
  BY <1>4 DEF e

LEMMA EndedRemoves ==
    ASSUME NEW d, EndOnly(d), NEW k \in 1 .. Len(d) - 1
    PROVE  EndOnly(RemoveAt(d, k))
<1> DEFINE e == RemoveAt(d, k)
<1>1. /\ e \in Seq(Known) /\ Len(e) = Len(d) - 1
      /\ \A i \in 1 .. Len(d) - 1 : e[i] = IF i < k THEN d[i] ELSE d[i + 1]
  <2>1. d \in Seq(Known) /\ k \in 1 .. Len(d)
    BY DEF EndOnly
  <2> QED
    BY <2>1, RemoveAtIs
<1>2. /\ Len(d) \in Nat
      /\ \A i \in 1 .. Len(d) : (d[i] = NULL) <=> (i = Len(d))
  BY DEF EndOnly
<1> HIDE DEF e
<1>3. ASSUME NEW i \in 1 .. Len(e) PROVE (e[i] = NULL) <=> (i = Len(e))
  <2>1. CASE i < k
    <3>1. i \in 1 .. Len(d) /\ i # Len(d) /\ i # Len(e) /\ e[i] = d[i]
      BY <1>1, <1>2, <2>1
    <3> QED
      BY <1>2, <3>1
  <2>2. CASE ~(i < k)
    <3>1. i + 1 \in 1 .. Len(d) /\ (i + 1 = Len(d) <=> i = Len(e)) /\ e[i] = d[i + 1]
      BY <1>1, <1>2, <2>2
    <3> QED
      BY <1>2, <3>1
  <2> QED
    BY <2>1, <2>2
<1>4. EndOnly(e)
  BY <1>1, <1>3 DEF EndOnly
<1> QED
  BY <1>4 DEF e

\* What is put in before the first datum that is not less keeps the order.
LEMMA SortedInserts ==
    ASSUME NEW d, EndOnly(d), Sorted(d), NEW k \in 1 .. Len(d), NEW x \in Data,
           \A i \in 1 .. k - 1 : d[i] < x, k # Len(d) => d[k] >= x
    PROVE  Sorted(InsertAt(d, k, x))
<1> DEFINE e == InsertAt(d, k, x)
<1>1. /\ Len(e) = Len(d) + 1
      /\ \A i \in 1 .. Len(d) + 1 : e[i] = IF i < k THEN d[i] ELSE IF i = k THEN x ELSE d[i - 1]
  <2>1. d \in Seq(Known) /\ x \in Known /\ k \in 1 .. Len(d) + 1
    BY DEF EndOnly, Known
  <2> QED
    BY <2>1, InsertAtIs
<1>2. /\ Len(d) \in Nat /\ x \in Nat
      /\ \A i \in 1 .. Len(d) - 1 : d[i] \in Nat
  <2>1. \A i \in 1 .. Len(d) - 1 : d[i] \in Known /\ d[i] # NULL
    BY DEF EndOnly
  <2>2. \A i \in 1 .. Len(d) - 1 : d[i] \in Nat
    BY <2>1, DataAssumption DEF Known
  <2>3. Len(d) \in Nat
    BY DEF EndOnly
  <2> QED
    BY <2>2, <2>3, DataAssumption
<1> HIDE DEF e
<1>3. ASSUME NEW i \in 1 .. Len(e) - 1, NEW j \in 1 .. Len(e) - 1, i <= j PROVE e[i] <= e[j]
  <2>1. /\ i < k => i \in 1 .. k - 1 /\ i \in 1 .. Len(d) - 1 /\ e[i] = d[i]
        /\ i = k => e[i] = x
        /\ i > k => i - 1 \in 1 .. Len(d) - 1 /\ i - 1 >= k /\ e[i] = d[i - 1]
        /\ j < k => j \in 1 .. Len(d) - 1 /\ e[j] = d[j]
        /\ j = k => e[j] = x
        /\ j > k => j - 1 \in 1 .. Len(d) - 1 /\ j - 1 >= k /\ e[j] = d[j - 1]
    BY <1>1, <1>2
  <2>2. \A m \in 1 .. Len(d) - 1 : m >= k => d[m] >= x
    <3> SUFFICES ASSUME NEW m \in 1 .. Len(d) - 1, m >= k PROVE d[m] >= x
      OBVIOUS
    <3>1. k \in 1 .. Len(d) - 1 /\ k # Len(d) /\ k <= m
      BY <1>2
    <3>2. d[k] <= d[m] /\ d[k] >= x
      BY <3>1 DEF Sorted
    <3> QED
      BY <1>2, <3>1, <3>2
  <2>3. CASE j < k
    <3>1. i < k /\ d[i] <= d[j]
      BY <1>1, <1>2, <1>3, <2>1, <2>3 DEF Sorted
    <3> QED
      BY <2>1, <2>3, <3>1
  <2>4. CASE j = k
    <3>1. i < k \/ i = k
      BY <1>2, <1>3, <2>4
    <3>2. i < k => d[i] < x /\ d[i] \in Nat
      BY <1>2, <2>1
    <3> QED
      BY <1>2, <2>1, <2>4, <3>1, <3>2
  <2>5. CASE j > k
    <3>1. e[j] = d[j - 1] /\ d[j - 1] >= x /\ d[j - 1] \in Nat
      BY <1>2, <2>1, <2>2, <2>5
    <3>2. CASE i < k
      <4>1. d[i] < x /\ d[i] \in Nat /\ e[i] = d[i]
        BY <1>2, <2>1, <3>2
      <4> QED
        BY <1>2, <3>1, <4>1
    <3>3. CASE i = k
      BY <1>2, <2>1, <3>1, <3>3
    <3>4. CASE i > k
      <4>1. i - 1 <= j - 1
        BY <1>1, <1>2, <1>3
      <4>2. d[i - 1] <= d[j - 1] /\ e[i] = d[i - 1]
        BY <2>1, <2>5, <3>4, <4>1 DEF Sorted
      <4> QED
        BY <3>1, <4>2
    <3> QED
      BY <1>2, <3>2, <3>3, <3>4
  <2> QED
    BY <1>2, <2>3, <2>4, <2>5
<1>4. Sorted(e)
  BY <1>3 DEF Sorted
<1> QED
  BY <1>4 DEF e

LEMMA SortedRemoves ==
    ASSUME NEW d, EndOnly(d), Sorted(d), NEW k \in 1 .. Len(d) - 1
    PROVE  Sorted(RemoveAt(d, k))
<1> DEFINE e == RemoveAt(d, k)
<1>1. /\ Len(e) = Len(d) - 1 /\ Len(d) \in Nat
      /\ \A i \in 1 .. Len(d) - 1 : e[i] = IF i < k THEN d[i] ELSE d[i + 1]
  <2>1. d \in Seq(Known) /\ k \in 1 .. Len(d)
    BY DEF EndOnly
  <2> QED
    BY <2>1, RemoveAtIs
<1> HIDE DEF e
<1>2. ASSUME NEW i \in 1 .. Len(e) - 1, NEW j \in 1 .. Len(e) - 1, i <= j PROVE e[i] <= e[j]
  <2> DEFINE m(a) == IF a < k THEN a ELSE a + 1
  <2>1. m(i) \in 1 .. Len(d) - 1 /\ m(j) \in 1 .. Len(d) - 1 /\ m(i) <= m(j)
    BY <1>1, <1>2
  <2>2. e[i] = d[m(i)] /\ e[j] = d[m(j)]
    BY <1>1
  <2> HIDE DEF m
  <2> QED
    BY <2>1, <2>2 DEF Sorted
<1>3. Sorted(e)
  BY <1>2 DEF Sorted
<1> QED
  BY <1>3 DEF e

LEMMA DataInserts ==
    ASSUME NEW h, NEW g, NEW s, NEW node, NEW k \in 1 .. Len(s) + 1, NEW x \in Known,
           HeapOK(h), s \in Seq(DOMAIN h), g[node].data = x,
           \A i \in 1 .. Len(s) : g[s[i]].data = h[s[i]].data
    PROVE  DataIn(g, InsertAt(s, k, node)) = InsertAt(DataIn(h, s), k, x)
<1> DEFINE r == InsertAt(s, k, node)
           d == DataIn(h, s)
           e == InsertAt(d, k, x)
           n == Len(s)
           T == DOMAIN h \cup {node}
<1>1. n \in Nat /\ k \in 1 .. n + 1 /\ \A i \in 1 .. n : g[s[i]].data = h[s[i]].data
  OBVIOUS
<1>2. /\ Len(r) = n + 1
      /\ \A i \in 1 .. n + 1 : r[i] = IF i < k THEN s[i] ELSE IF i = k THEN node ELSE s[i - 1]
  <2>1. s \in Seq(T)
    BY SeqWithin
  <2>2. node \in T
    OBVIOUS
  <2> HIDE DEF T
  <2> QED
    BY <2>1, <2>2, InsertAtIs
<1>3. d \in Seq(Known) /\ Len(d) = n /\ \A i \in 1 .. n : d[i] = h[s[i]].data
  BY DataIs
<1> HIDE DEF d
<1>4. /\ e \in Seq(Known) /\ Len(e) = n + 1
      /\ \A i \in 1 .. n + 1 : e[i] = IF i < k THEN d[i] ELSE IF i = k THEN x ELSE d[i - 1]
  BY <1>3, InsertAtIs
<1> HIDE DEF r, e, n
<1>5. ASSUME NEW i \in 1 .. n + 1 PROVE g[r[i]].data = e[i]
  <2>1. CASE i < k
    <3>1. i \in 1 .. n /\ r[i] = s[i] /\ e[i] = d[i]
      BY <1>1, <1>2, <1>4, <2>1
    <3> QED
      BY <1>1, <1>3, <3>1
  <2>2. CASE i = k
    <3>1. r[i] = node /\ e[i] = x
      BY <1>1, <1>2, <1>4, <2>2
    <3> QED
      BY <3>1
  <2>3. CASE i > k
    <3>1. i - 1 \in 1 .. n /\ r[i] = s[i - 1] /\ e[i] = d[i - 1]
      BY <1>1, <1>2, <1>4, <2>3
    <3> QED
      BY <1>1, <1>3, <3>1
  <2> QED
    BY <1>1, <2>1, <2>2, <2>3
<1>6. DataIn(g, r) = [i \in 1 .. n + 1 |-> g[r[i]].data] /\ e = [i \in 1 .. n + 1 |-> e[i]]
  BY <1>1, <1>2, <1>4 DEF DataIn
<1>7. DataIn(g, r) = e
  BY <1>5, <1>6
<1> QED
  BY <1>7 DEF r, e, d

LEMMA DataRemoves ==
    ASSUME NEW h, NEW g, NEW s, NEW k \in 1 .. Len(s), HeapOK(h), s \in Seq(DOMAIN h),
           \A i \in 1 .. Len(s) : i # k => g[s[i]].data = h[s[i]].data
    PROVE  DataIn(g, RemoveAt(s, k)) = RemoveAt(DataIn(h, s), k)
<1> DEFINE r == RemoveAt(s, k)
           d == DataIn(h, s)
           e == RemoveAt(d, k)
           n == Len(s)
<1>1. n \in Nat /\ k \in 1 .. n /\ \A i \in 1 .. n : i # k => g[s[i]].data = h[s[i]].data
  OBVIOUS
<1>2. Len(r) = n - 1 /\ \A i \in 1 .. n - 1 : r[i] = IF i < k THEN s[i] ELSE s[i + 1]
  BY RemoveAtIs
<1>3. d \in Seq(Known) /\ Len(d) = n /\ \A i \in 1 .. n : d[i] = h[s[i]].data
  BY DataIs
<1> HIDE DEF d
<1>4. /\ e \in Seq(Known) /\ Len(e) = n - 1
      /\ \A i \in 1 .. n - 1 : e[i] = IF i < k THEN d[i] ELSE d[i + 1]
  BY <1>3, RemoveAtIs
<1> HIDE DEF r, e, n
<1>5. ASSUME NEW i \in 1 .. n - 1 PROVE g[r[i]].data = e[i]
  <2>1. CASE i < k
    <3>1. i \in 1 .. n /\ i # k /\ r[i] = s[i] /\ e[i] = d[i]
      BY <1>1, <1>2, <1>4, <2>1
    <3> QED
      BY <1>1, <1>3, <3>1
  <2>2. CASE ~(i < k)
    <3>1. i + 1 \in 1 .. n /\ i + 1 # k /\ r[i] = s[i + 1] /\ e[i] = d[i + 1]
      BY <1>1, <1>2, <1>4, <2>2
    <3> QED
      BY <1>1, <1>3, <3>1
  <2> QED
    BY <2>1, <2>2
<1>6. DataIn(g, r) = [i \in 1 .. n - 1 |-> g[r[i]].data] /\ e = [i \in 1 .. n - 1 |-> e[i]]
  BY <1>1, <1>2, <1>4 DEF DataIn
<1>7. DataIn(g, r) = e
  BY <1>5, <1>6
<1> QED
  BY <1>7 DEF r, e, d

\* The node at b is copied over that at a, and b leaves the heap.
CopiedOver(h, g, a, b) ==
    /\ DOMAIN g = DOMAIN h \ {b}
    /\ g[a].next = h[b].next /\ g[a].data = h[b].data
    /\ \A c \in DOMAIN g : c # a => g[c] = h[c]

\* The element at k leaves when the node after it is copied over its node.
LEMMA ChainCopies ==
    ASSUME NEW h, NEW g, NEW s, NEW head, NEW k \in 1 .. Len(s) - 1,
           HeapOK(h), IsChain(h, s, head), CopiedOver(h, g, s[k], s[k + 1])
    PROVE  /\ IsChain(g, RemoveAt(s, k + 1), head)
           /\ ToSet(RemoveAt(s, k + 1)) = ToSet(s) \ {s[k + 1]}
           /\ DataIn(g, RemoveAt(s, k + 1)) = RemoveAt(DataIn(h, s), k)
<1> DEFINE n == Len(s)
           r == RemoveAt(s, k + 1)
           d == DataIn(h, s)
           e == RemoveAt(d, k)
<1>0. /\ DOMAIN g = DOMAIN h \ {s[k + 1]}
      /\ g[s[k]].next = h[s[k + 1]].next /\ g[s[k]].data = h[s[k + 1]].data
      /\ \A a \in DOMAIN g : a # s[k] => g[a] = h[a]
  BY DEF CopiedOver
<1>1. /\ s \in Seq(DOMAIN h) /\ n \in Nat /\ k \in 1 .. n - 1
      /\ \A i, j \in 1 .. n : s[i] = s[j] => i = j
  BY DEF IsChain
<1>2. k \in 1 .. n /\ k + 1 \in 1 .. n /\ k + 1 # 1 /\ k + 1 - 1 = k
  BY <1>1
<1>3. \A i \in 1 .. n : i # k + 1 =>
        /\ s[i] \in DOMAIN g
        /\ i # k => g[s[i]] = h[s[i]]
  <2> SUFFICES ASSUME NEW i \in 1 .. n, i # k + 1
               PROVE  s[i] \in DOMAIN g /\ (i # k => g[s[i]] = h[s[i]])
    OBVIOUS
  <2>1. s[i] \in DOMAIN h
    BY <1>1
  <2>2. s[i] # s[k + 1] /\ (i # k => s[i] # s[k])
    BY <1>1, <1>2
  <2> QED
    BY <1>0, <2>1, <2>2
<1>4. \A i \in 1 .. n : i # k + 1 =>
        /\ s[i] \in DOMAIN g
        /\ g[s[i]].next = IF i = k + 1 - 1 THEN h[s[k + 1]].next ELSE h[s[i]].next
  <2> SUFFICES ASSUME NEW i \in 1 .. n, i # k + 1
               PROVE  /\ s[i] \in DOMAIN g
                      /\ g[s[i]].next = IF i = k THEN h[s[k + 1]].next ELSE h[s[i]].next
    BY <1>2
  <2> QED
    BY <1>0, <1>3
<1>5. /\ IsChain(g, r, head)
      /\ ToSet(r) = ToSet(s) \ {s[k + 1]}
  <2> DEFINE q == k + 1
  <2>1. q \in 1 .. Len(s) /\ q # 1
    BY <1>2
  <2>2. Bypassed(h, g, s, q)
    BY <1>4 DEF Bypassed
  <2> HIDE DEF q
  <2>3. /\ IsChain(g, RemoveAt(s, q), head)
        /\ ToSet(RemoveAt(s, q)) = ToSet(s) \ {s[q]}
    <3>1. IsChain(h, s, head) /\ head = IF q = 1 THEN h[s[1]].next ELSE head
      BY <2>1
    <3> QED
      BY ONLY <2>1, <2>2, <3>1, ChainRemoves
  <2> QED
    BY <2>1, <2>3 DEF q
<1>6. Len(r) = n - 1 /\ \A i \in 1 .. n - 1 : r[i] = IF i < k + 1 THEN s[i] ELSE s[i + 1]
  BY <1>1, <1>2, RemoveAtIs
<1>7. d \in Seq(Known) /\ Len(d) = n /\ \A i \in 1 .. n : d[i] = h[s[i]].data
  BY <1>1, DataIs
<1> HIDE DEF d
<1>8. /\ e \in Seq(Known) /\ Len(e) = n - 1
      /\ \A i \in 1 .. n - 1 : e[i] = IF i < k THEN d[i] ELSE d[i + 1]
  BY <1>2, <1>7, RemoveAtIs
<1> HIDE DEF r, e, n
<1>9. ASSUME NEW i \in 1 .. n - 1 PROVE g[r[i]].data = e[i]
  <2>1. CASE i < k
    <3>1. i \in 1 .. n /\ i # k + 1 /\ i # k /\ r[i] = s[i] /\ e[i] = d[i]
      BY <1>1, <1>6, <1>8, <2>1
    <3>2. g[s[i]] = h[s[i]]
      BY <1>3, <3>1
    <3> QED
      BY <1>7, <3>1, <3>2
  <2>2. CASE i = k
    <3>1. k + 1 \in 1 .. n /\ r[i] = s[k] /\ e[i] = d[k + 1]
      BY <1>1, <1>2, <1>6, <1>8, <2>2
    <3> QED
      BY <1>0, <1>7, <3>1
  <2>3. CASE i > k
    <3>1. i + 1 \in 1 .. n /\ i + 1 # k + 1 /\ i + 1 # k /\ r[i] = s[i + 1] /\ e[i] = d[i + 1]
      BY <1>1, <1>6, <1>8, <2>3
    <3>2. g[s[i + 1]] = h[s[i + 1]]
      BY <1>3, <3>1
    <3> QED
      BY <1>7, <3>1, <3>2
  <2> QED
    BY <1>1, <2>1, <2>2, <2>3
<1>10. DataIn(g, r) = [i \in 1 .. n - 1 |-> g[r[i]].data] /\ e = [i \in 1 .. n - 1 |-> e[i]]
  BY <1>1, <1>6, <1>8 DEF DataIn
<1>11. DataIn(g, r) = e
  BY <1>9, <1>10
<1> QED
  BY <1>5, <1>11 DEF r, e, d

LEMMA ChainNodes ==
    ASSUME NEW h, NEW s, NEW head, IsChain(h, s, head)
    PROVE  /\ s \in Seq(DOMAIN h) /\ ToSet(s) \subseteq DOMAIN h
           /\ \A i \in 1 .. Len(s) : s[i] \in ToSet(s)
           /\ \A a \in ToSet(s) : \E i \in 1 .. Len(s) : s[i] = a
           /\ s = << >> <=> ToSet(s) = {}
           /\ s = << >> <=> Len(s) = 0
           /\ s = << >> => head = NULL
           /\ s # << >> => head = s[1]
<1>1. s \in Seq(DOMAIN h) /\ ToSet(s) = {s[i] : i \in 1 .. Len(s)}
  BY ToSetIs DEF IsChain
<1>2. ToSet(s) \subseteq DOMAIN h
  BY <1>1
<1>3. Len(s) \in Nat /\ (s = << >> <=> Len(s) = 0)
  BY <1>1
<1>4. /\ \A i \in 1 .. Len(s) : s[i] \in ToSet(s)
      /\ \A a \in ToSet(s) : \E i \in 1 .. Len(s) : s[i] = a
  BY <1>1
<1>5. s = << >> <=> ToSet(s) = {}
  <2>1. Len(s) # 0 => 1 \in 1 .. Len(s)
    BY <1>3
  <2> QED
    BY <1>3, <1>4, <2>1
<1>6. head = IF s = << >> THEN NULL ELSE s[1]
  BY DEF IsChain
<1> QED
  BY <1>1, <1>2, <1>3, <1>4, <1>5, <1>6

\* A list is as it was when its nodes are.
LEMMA EndedStays ==
    ASSUME NEW h, NEW g, NEW s, NEW st, EndedChain(h, s, st),
           \A a \in ToSet(s) : a \in DOMAIN g /\ g[a] = h[a]
    PROVE  EndedChain(g, s, st) /\ DataIn(g, s) = DataIn(h, s)
<1>1. IsChain(g, s, st.head)
  BY ChainStays DEF EndedChain
<1>2. DataIn(g, s) = DataIn(h, s)
  <2>1. \A i \in 1 .. Len(s) : s[i] \in ToSet(s)
    BY ChainNodes DEF EndedChain
  <2> QED
    BY <2>1 DEF DataIn
<1> QED
  BY <1>1, <1>2 DEF EndedChain

LEMMA ListStays ==
    ASSUME NEW h, NEW g, NEW s, NEW st, ListOK(h, s, st),
           \A a \in ToSet(s) : a \in DOMAIN g /\ g[a] = h[a]
    PROVE  ListOK(g, s, st)
<1>1. IsChain(g, s, st.head)
  BY ChainStays DEF ListOK
<1>2. \A i \in 1 .. Len(s) : s[i] \in ToSet(s)
  BY ChainNodes DEF ListOK
<1>3. DataIn(g, s) = DataIn(h, s)
  BY <1>2 DEF DataIn
<1> QED
  BY <1>1, <1>2, <1>3 DEF ListOK

-----------------------------------------------------------------------------
(***************************************************************************)
(* The monitor                                                             *)
(***************************************************************************)
SizesIn(h) == [a \in DOMAIN h |-> h[a].size]

LEMMA BytesIs ==
    ASSUME NEW h, HeapOK(h), NEW S \in SUBSET DOMAIN h
    PROVE  /\ IsFiniteSet(S) /\ \A a \in DOMAIN h : SizesIn(h)[a] \in Nat
           /\ Bytes(h, S) = SumFunctionOnSet(SizesIn(h), S)
           /\ Bytes(h, S) \in Int
<1> DEFINE f == [a \in S |-> h[a].size]
<1>1. IsFiniteSet(S)
  BY FS_Subset DEF HeapOK
<1>2. \A a \in DOMAIN h : SizesIn(h)[a] \in Nat
  BY DEF SizesIn, HeapOK, Blocks, SizeOf, Range
<1>3. \A a \in S : f[a] = SizesIn(h)[a] /\ f[a] \in Int
  BY <1>2 DEF SizesIn
<1>4. Bytes(h, S) = SumFunctionOnSet(f, DOMAIN f) /\ DOMAIN f = S
  BY DEF Bytes, SumFunction
<1> HIDE DEF f
<1>5. SumFunctionOnSet(f, S) = SumFunctionOnSet(SizesIn(h), S) /\ SumFunctionOnSet(f, S) \in Int
  BY <1>1, <1>3, SumSame, SumType
<1> QED
  BY <1>1, <1>2, <1>4, <1>5

\* The blocks common to two heaps are of the same size and as counted.
SameHeaders(h, g) == \A a \in DOMAIN h \cap DOMAIN g :
                        g[a].size = h[a].size /\ g[a].counted = h[a].counted

LEMMA SameBytes ==
    ASSUME NEW h, NEW g, HeapOK(h), HeapOK(g), SameHeaders(h, g),
           NEW S \in SUBSET (DOMAIN h \cap DOMAIN g)
    PROVE  Bytes(h, S) = Bytes(g, S)
<1>1. S \in SUBSET DOMAIN h /\ S \in SUBSET DOMAIN g
  OBVIOUS
<1>2. [a \in S |-> h[a].size] = [a \in S |-> g[a].size]
  BY DEF SameHeaders
<1> QED
  BY <1>2 DEF Bytes

\* mem_monitor_allocate of a block that is counted.
LEMMA MonitorAdds ==
    ASSUME NEW h, NEW g, NEW m, NEW s, NEW r, NEW node,
           HeapOK(h), HeapOK(g), SameHeaders(h, g), MonitorOK(h, m, s),
           node \notin DOMAIN h, DOMAIN g = DOMAIN h \cup {node}, g[node].counted,
           s # << >> => r # << >> /\ r[Len(r)] = s[Len(s)]
    PROVE  MonitorOK(g, [bytes_used |-> m.bytes_used + g[node].size, live |-> m.live + 1], r)
<1> DEFINE C == Counted(h)
           B == Counted(g)
<1>1. B = C \cup {node} /\ node \notin C /\ B \ {node} = C /\ C \subseteq DOMAIN h /\ B \subseteq DOMAIN g
  BY DEF Counted, SameHeaders, HeapOK
<1>2. IsFiniteSet(C) /\ IsFiniteSet(B) /\ Bytes(h, C) \in Int
      /\ Bytes(g, B) = SumFunctionOnSet(SizesIn(g), B)
      /\ Bytes(g, C) = SumFunctionOnSet(SizesIn(g), C)
      /\ \A a \in DOMAIN g : SizesIn(g)[a] \in Nat
  <2>1. C \in SUBSET DOMAIN h /\ C \in SUBSET DOMAIN g /\ B \in SUBSET DOMAIN g
    BY <1>1
  <2> QED
    BY <2>1, BytesIs
<1>3. Cardinality(B) = Cardinality(C) + 1
  BY <1>1, <1>2, FS_AddElement
<1>4. Bytes(g, C) = Bytes(h, C)
  BY <1>1, SameBytes
<1>5. SumFunctionOnSet(SizesIn(g), B) = SizesIn(g)[node] + SumFunctionOnSet(SizesIn(g), C)
  <2>1. node \in B /\ \A a \in B : SizesIn(g)[a] \in Int
    BY <1>1, <1>2
  <2> HIDE DEF B, C
  <2> QED
    BY <1>1, <1>2, <2>1, SumRemove
<1>6. SizesIn(g)[node] = g[node].size /\ SizesIn(g)[node] \in Nat
  BY <1>2 DEF SizesIn
<1>7. m.bytes_used = Bytes(h, C) /\ m.live = Cardinality(C)
  BY DEF MonitorOK
<1>8. Bytes(g, B) = m.bytes_used + g[node].size /\ Cardinality(B) = m.live + 1
  <2> HIDE DEF B, C
  <2>1. Bytes(g, B) = g[node].size + Bytes(h, C)
    BY <1>2, <1>4, <1>5, <1>6
  <2>2. g[node].size \in Int /\ Bytes(h, C) \in Int
    BY <1>2, <1>6
  <2>3. Bytes(g, B) = Bytes(h, C) + g[node].size
    BY <2>1, <2>2
  <2> QED
    BY <1>3, <1>7, <2>3
<1>9. \A a \in DOMAIN g : ~g[a].counted => r # << >> /\ a = r[Len(r)]
  <2> SUFFICES ASSUME NEW a \in DOMAIN g, ~g[a].counted PROVE r # << >> /\ a = r[Len(r)]
    OBVIOUS
  <2>1. a \in DOMAIN h /\ ~h[a].counted
    BY DEF SameHeaders
  <2> QED
    BY <2>1 DEF MonitorOK
<1> QED
  BY <1>8, <1>9 DEF MonitorOK

\* mem_monitor_free of some blocks.
LEMMA MonitorDrops ==
    ASSUME NEW h, NEW g, NEW m, NEW s, NEW r, NEW S \in SUBSET DOMAIN h,
           HeapOK(h), HeapOK(g), SameHeaders(h, g), MonitorOK(h, m, s),
           DOMAIN g = DOMAIN h \ S,
           \A a \in DOMAIN g : ~h[a].counted => r # << >> /\ a = r[Len(r)]
    PROVE  MonitorOK(g, [bytes_used |-> m.bytes_used - Bytes(h, {a \in S : h[a].counted}),
                         live |-> m.live - Cardinality({a \in S : h[a].counted})], r)
<1> DEFINE C == Counted(h)
           B == Counted(g)
           F == {a \in S : h[a].counted}
<1>1. B = C \ F /\ F \subseteq C /\ C \subseteq DOMAIN h /\ B \subseteq DOMAIN g /\ B \subseteq DOMAIN h
  BY DEF Counted, SameHeaders, HeapOK
<1>2. IsFiniteSet(C) /\ IsFiniteSet(F) /\ Bytes(h, F) \in Int /\ Bytes(h, B) \in Int
      /\ Bytes(h, C) = SumFunctionOnSet(SizesIn(h), C)
      /\ Bytes(h, F) = SumFunctionOnSet(SizesIn(h), F)
      /\ Bytes(h, B) = SumFunctionOnSet(SizesIn(h), B)
      /\ \A a \in DOMAIN h : SizesIn(h)[a] \in Nat
  <2>1. C \in SUBSET DOMAIN h /\ F \in SUBSET DOMAIN h /\ B \in SUBSET DOMAIN h
    BY <1>1
  <2> HIDE DEF B, C, F
  <2> QED
    BY <2>1, BytesIs
<1>3. Cardinality(B) = Cardinality(C) - Cardinality(F)
  <2> HIDE DEF B, C, F
  <2>1. Cardinality(C \ F) = Cardinality(C) - Cardinality(C \cap F)
    BY <1>2, FS_Difference
  <2>2. C \cap F = F
    BY <1>1
  <2> QED
    BY <1>1, <2>1, <2>2
<1>4. Bytes(g, B) = Bytes(h, B)
  BY <1>1, SameBytes
<1>5. SumFunctionOnSet(SizesIn(h), C)
        = SumFunctionOnSet(SizesIn(h), F) + SumFunctionOnSet(SizesIn(h), B)
  <2>1. F \in SUBSET C /\ \A a \in C : SizesIn(h)[a] \in Int
    BY <1>1, <1>2
  <2> HIDE DEF B, C, F
  <2> QED
    BY <1>1, <1>2, <2>1, SumSplit
<1>6. m.bytes_used = Bytes(h, C) /\ m.live = Cardinality(C)
  BY DEF MonitorOK
<1>7. Bytes(g, B) = m.bytes_used - Bytes(h, F) /\ Cardinality(B) = m.live - Cardinality(F)
  <2> HIDE DEF B, C, F
  <2> QED
    BY <1>2, <1>3, <1>4, <1>5, <1>6
<1>8. \A a \in DOMAIN g : ~g[a].counted => r # << >> /\ a = r[Len(r)]
  BY DEF SameHeaders
<1> QED
  BY <1>7, <1>8 DEF MonitorOK

-----------------------------------------------------------------------------
(***************************************************************************)
(* One list moves and the others stay                                      *)
(***************************************************************************)
\* The nodes of s have become those of r and no other block has changed.
Replaced(h, g, s, r) ==
    /\ DOMAIN g = (DOMAIN h \ ToSet(s)) \cup ToSet(r)
    /\ ToSet(r) \cap (DOMAIN h \ ToSet(s)) = {}
    /\ \A a \in DOMAIN h \ ToSet(s) : g[a] = h[a]

LEMMA LifoMoves ==
    ASSUME NEW L, NEW D, NEW O, NEW r, Linked(L, D, O), UNCHANGED <<list, ordered>>,
           HeapOK(heap'), LifoOK(heap', r, lifo'), MonitorOK(heap', monitor', r),
           Replaced(heap, heap', L, r),
           handles' \subseteq {"lifo", "list"} \X Nodes \X Data,
           \A x \in handles' : x[1] = "list" => x \in handles
    PROVE  Linked(r, D, O)'
<1>1. /\ ToSet(D) \subseteq DOMAIN heap \ ToSet(L) /\ ToSet(O) \subseteq DOMAIN heap \ ToSet(L)
      /\ DOMAIN heap \ ToSet(L) \subseteq DOMAIN heap'
      /\ DOMAIN heap = ToSet(L) \cup ToSet(D) \cup ToSet(O)
      /\ ToSet(D) \cap ToSet(O) = {}
  BY DEF Linked, InThree, Replaced
<1>2. ListOK(heap', D, list')
  <2>1. ListOK(heap', D, list)
    BY <1>1, ListStays DEF Linked, Replaced
  <2> QED
    BY <2>1
<1>3. OrderedOK(heap', O, ordered')
  <2>1. EndedChain(heap', O, ordered) /\ DataIn(heap', O) = DataIn(heap, O)
    BY <1>1, EndedStays DEF Linked, OrderedOK, Replaced
  <2> QED
    BY <2>1 DEF Linked, OrderedOK
<1>4. InThree(DOMAIN heap', ToSet(r), ToSet(D), ToSet(O))
  BY <1>1 DEF InThree, Replaced
<1>5. HandlesOK(heap', handles', D)
  BY <1>1 DEF Linked, HandlesOK, Replaced
<1> QED
  BY <1>2, <1>3, <1>4, <1>5 DEF Linked

LEMMA OrderedMoves ==
    ASSUME NEW L, NEW D, NEW O, NEW r, Linked(L, D, O), UNCHANGED <<list, lifo, handles>>,
           HeapOK(heap'), OrderedOK(heap', r, ordered'), MonitorOK(heap', monitor', L),
           Replaced(heap, heap', O, r)
    PROVE  Linked(L, D, r)'
<1>1. /\ ToSet(D) \subseteq DOMAIN heap \ ToSet(O) /\ ToSet(L) \subseteq DOMAIN heap \ ToSet(O)
      /\ DOMAIN heap \ ToSet(O) \subseteq DOMAIN heap'
      /\ DOMAIN heap = ToSet(L) \cup ToSet(D) \cup ToSet(O)
      /\ ToSet(L) \cap ToSet(D) = {}
  BY DEF Linked, InThree, Replaced
<1>2. ListOK(heap', D, list')
  <2>1. ListOK(heap', D, list)
    BY <1>1, ListStays DEF Linked, Replaced
  <2> QED
    BY <2>1
<1>3. LifoOK(heap', L, lifo')
  <2>1. EndedChain(heap', L, lifo)
    BY <1>1, EndedStays DEF Linked, LifoOK, Replaced
  <2> QED
    BY <2>1 DEF Linked, LifoOK
<1>4. InThree(DOMAIN heap', ToSet(L), ToSet(D), ToSet(r))
  BY <1>1 DEF InThree, Replaced
<1>5. HandlesOK(heap', handles', D)
  BY <1>1 DEF Linked, HandlesOK, Replaced
<1> QED
  BY <1>2, <1>3, <1>4, <1>5 DEF Linked

LEMMA ListMoves ==
    ASSUME NEW L, NEW D, NEW O, NEW r, Linked(L, D, O), UNCHANGED <<lifo, ordered>>,
           HeapOK(heap'), ListOK(heap', r, list'), MonitorOK(heap', monitor', L),
           Replaced(heap, heap', D, r),
           HandlesOK(heap', handles', r)
    PROVE  Linked(L, r, O)'
<1>1. /\ ToSet(L) \subseteq DOMAIN heap \ ToSet(D) /\ ToSet(O) \subseteq DOMAIN heap \ ToSet(D)
      /\ DOMAIN heap \ ToSet(D) \subseteq DOMAIN heap'
      /\ DOMAIN heap = ToSet(L) \cup ToSet(D) \cup ToSet(O)
      /\ ToSet(L) \cap ToSet(O) = {}
  BY DEF Linked, InThree, Replaced
<1>2. LifoOK(heap', L, lifo')
  <2>1. EndedChain(heap', L, lifo)
    BY <1>1, EndedStays DEF Linked, LifoOK, Replaced
  <2> QED
    BY <2>1 DEF Linked, LifoOK
<1>3. OrderedOK(heap', O, ordered')
  <2>1. EndedChain(heap', O, ordered) /\ DataIn(heap', O) = DataIn(heap, O)
    BY <1>1, EndedStays DEF Linked, OrderedOK, Replaced
  <2> QED
    BY <2>1 DEF Linked, OrderedOK
<1>4. InThree(DOMAIN heap', ToSet(L), ToSet(r), ToSet(O))
  BY <1>1 DEF InThree, Replaced
<1> QED
  BY <1>2, <1>3, <1>4 DEF Linked

-----------------------------------------------------------------------------
(***************************************************************************)
(* What the operations on the heap do to it                                *)
(***************************************************************************)
\* g is f with a block more.
Allocated(f, g, node, block) ==
    /\ DOMAIN g = DOMAIN f \cup {node} /\ g[node] = block
    /\ \A a \in DOMAIN f : g[a] = f[a]

LEMMA WithIs ==
    ASSUME NEW f, HeapOK(f), NEW node \in Nodes \ DOMAIN f, NEW block \in Blocks
    PROVE  /\ HeapOK(With(f, node, block)) /\ SameHeaders(f, With(f, node, block))
           /\ Allocated(f, With(f, node, block), node, block)
<1> DEFINE g == With(f, node, block)
<1>1. Allocated(f, g, node, block)
  BY DEF With, Allocated
<1> HIDE DEF g
<1>2. IsFiniteSet(DOMAIN g)
  BY <1>1, FS_AddElement DEF HeapOK, Allocated
<1>3. HeapOK(g)
  BY <1>1, <1>2 DEF HeapOK, Allocated
<1>4. SameHeaders(f, g)
  BY <1>1 DEF SameHeaders, Allocated
<1> QED
  BY <1>1, <1>3, <1>4 DEF g

LEMMA WithoutIs ==
    ASSUME NEW h, HeapOK(h), NEW S
    PROVE  /\ HeapOK(Without(h, S)) /\ SameHeaders(h, Without(h, S))
           /\ DOMAIN Without(h, S) = DOMAIN h \ S
           /\ \A a \in DOMAIN h \ S : Without(h, S)[a] = h[a]
<1>1. /\ DOMAIN Without(h, S) = DOMAIN h \ S
      /\ \A a \in DOMAIN h \ S : Without(h, S)[a] = h[a]
  BY DEF Without, Restrict
<1>2. IsFiniteSet(DOMAIN h \ S)
  BY FS_Subset DEF HeapOK
<1> QED
  BY <1>1, <1>2 DEF HeapOK, SameHeaders

\* A link or a datum of one block is changed.
LEMMA ChangedIs ==
    ASSUME NEW h, HeapOK(h), NEW a \in DOMAIN h, NEW b \in Blocks,
           b.size = h[a].size, b.counted = h[a].counted
    PROVE  /\ HeapOK([h EXCEPT ![a] = b]) /\ SameHeaders(h, [h EXCEPT ![a] = b])
           /\ DOMAIN [h EXCEPT ![a] = b] = DOMAIN h
           /\ [h EXCEPT ![a] = b][a] = b
           /\ \A c \in DOMAIN h : c # a => [h EXCEPT ![a] = b][c] = h[c]
BY DEF HeapOK, SameHeaders

\* The node at b is copied over that at a, and b freed.
LEMMA CopyIs ==
    ASSUME NEW h, HeapOK(h), NEW a \in DOMAIN h, NEW b \in DOMAIN h, a # b
    PROVE  /\ HeapOK(Without(Copied(h, a, b), {b}))
           /\ SameHeaders(h, Without(Copied(h, a, b), {b}))
           /\ CopiedOver(h, Without(Copied(h, a, b), {b}), a, b)
<1> DEFINE g == Without(Copied(h, a, b), {b})
           blk == [h[a] EXCEPT !.next = h[b].next, !.data = h[b].data]
           f == [h EXCEPT ![a] = blk]
<1>1. h[a] \in Blocks /\ h[b] \in Blocks
  BY DEF HeapOK
<1>2. /\ blk \in Blocks /\ blk.size = h[a].size /\ blk.counted = h[a].counted
      /\ blk.next = h[b].next /\ blk.data = h[b].data
  BY <1>1 DEF Blocks
<1>3. Copied(h, a, b) = f
  BY DEF Copied
<1> HIDE DEF blk
<1>4. /\ HeapOK(f) /\ SameHeaders(h, f) /\ DOMAIN f = DOMAIN h /\ f[a] = blk
      /\ \A c \in DOMAIN h : c # a => f[c] = h[c]
  BY <1>2, ChangedIs
<1> HIDE DEF f, g
<1>5. /\ HeapOK(g) /\ SameHeaders(f, g) /\ DOMAIN g = DOMAIN f \ {b}
      /\ \A c \in DOMAIN f \ {b} : g[c] = f[c]
  <2>1. g = Without(f, {b})
    BY <1>3 DEF g
  <2> QED
    <3>1. HeapOK(f)
      BY <1>4
    <3>2. HeapOK(Without(f, {b})) /\ SameHeaders(f, Without(f, {b}))
      BY <3>1, WithoutIs
    <3>3. DOMAIN Without(f, {b}) = DOMAIN f \ {b}
      BY <3>1, WithoutIs
    <3>4. \A c \in DOMAIN f \ {b} : Without(f, {b})[c] = f[c]
      BY <3>1, WithoutIs
    <3> QED
      BY <2>1, <3>2, <3>3, <3>4
<1>6. SameHeaders(h, g)
  BY <1>4, <1>5 DEF SameHeaders
<1>7. a \in DOMAIN f \ {b} /\ g[a] = f[a]
  BY <1>4, <1>5
<1>8. CopiedOver(h, g, a, b)
  BY <1>2, <1>4, <1>5, <1>7 DEF CopiedOver
<1> QED
  BY <1>5, <1>6, <1>8 DEF g

-----------------------------------------------------------------------------
(***************************************************************************)
(* The chains with an end node                                             *)
(***************************************************************************)
LEMMA EndedFacts ==
    ASSUME NEW h, NEW s, NEW st, HeapOK(h), EndedChain(h, s, st)
    PROVE  /\ s \in Seq(DOMAIN h) /\ Len(s) \in Nat /\ (s = << >> <=> Len(s) = 0)
           /\ \A i, j \in 1 .. Len(s) : s[i] = s[j] => i = j
           /\ \A i \in 1 .. Len(s) : /\ s[i] \in DOMAIN h
                                     /\ h[s[i]].next = IF i = Len(s) THEN NULL ELSE s[i + 1]
                                     /\ (h[s[i]].data = NULL) <=> (i = Len(s))
           /\ st.head = NULL <=> s = << >>
           /\ s # << >> => st.head = s[1]
<1>1. /\ s \in Seq(DOMAIN h) /\ Len(s) \in Nat /\ (s = << >> <=> Len(s) = 0)
      /\ \A i, j \in 1 .. Len(s) : s[i] = s[j] => i = j
      /\ \A i \in 1 .. Len(s) : h[s[i]].next = IF i = Len(s) THEN NULL ELSE s[i + 1]
      /\ st.head = IF s = << >> THEN NULL ELSE s[1]
  BY DEF EndedChain, IsChain
<1>2. \A i \in 1 .. Len(s) : (h[s[i]].data = NULL) <=> (i = Len(s))
  <2>1. Len(DataIn(h, s)) = Len(s) /\ \A i \in 1 .. Len(s) : DataIn(h, s)[i] = h[s[i]].data
    BY <1>1, DataIs
  <2> QED
    BY <2>1 DEF EndedChain, EndOnly
<1>3. \A i \in 1 .. Len(s) : s[i] \in DOMAIN h
  BY <1>1
<1>4. NULL \notin DOMAIN h
  BY DataAssumption DEF HeapOK
<1>5. s # << >> => s[1] # NULL
  <2>1. s # << >> => 1 \in 1 .. Len(s)
    BY <1>1
  <2> QED
    BY <1>3, <1>4, <2>1
<1> QED
  BY <1>1, <1>2, <1>3, <1>5

\* What a removal by copying makes of the heap.
Removal(h, s, k) == Without(Copied(h, s[k], s[k + 1]), {s[k + 1]})

\* Of the data along s, r has lost the k-th one.
LosesAt(h, s, g, r, k) == DataIn(g, r) = RemoveAt(DataIn(h, s), k)

LEMMA EndedCopies ==
    ASSUME NEW h, NEW g, NEW s, NEW st, NEW k \in 1 .. Len(s) - 1,
           HeapOK(h), EndedChain(h, s, st),
           g = Removal(h, s, k)
    PROVE  /\ EndedChain(g, RemoveAt(s, k + 1), [st EXCEPT !.n = @ - 1])
           /\ ToSet(RemoveAt(s, k + 1)) = ToSet(s) \ {s[k + 1]}
           /\ LosesAt(h, s, g, RemoveAt(s, k + 1), k)
           /\ HeapOK(g) /\ SameHeaders(h, g) /\ CopiedOver(h, g, s[k], s[k + 1])
<1> DEFINE n == Len(s)
           r == RemoveAt(s, k + 1)
           st2 == [st EXCEPT !.n = @ - 1]
<1>1. s \in Seq(DOMAIN h) /\ n \in Nat /\ k \in 1 .. n - 1 /\ k \in 1 .. n /\ k + 1 \in 1 .. n /\ k # k + 1
      /\ s # << >>
  BY EndedFacts
<1>2. s[k] \in DOMAIN h /\ s[k + 1] \in DOMAIN h /\ s[k] # s[k + 1]
  BY <1>1, EndedFacts
<1>3. HeapOK(g) /\ SameHeaders(h, g) /\ CopiedOver(h, g, s[k], s[k + 1])
  BY <1>2, CopyIs DEF Removal
<1>4. /\ IsChain(g, r, st.head) /\ ToSet(r) = ToSet(s) \ {s[k + 1]}
      /\ DataIn(g, r) = RemoveAt(DataIn(h, s), k)
  <2>1. IsChain(h, s, st.head)
    BY DEF EndedChain
  <2> QED
    BY <1>3, <2>1, ChainCopies
<1>5. EndOnly(DataIn(g, r))
  <2>1. Len(DataIn(h, s)) = n
    BY <1>1, DataIs
  <2>2. EndOnly(DataIn(h, s)) /\ k \in 1 .. Len(DataIn(h, s)) - 1
    BY <1>1, <2>1 DEF EndedChain
  <2> QED
    BY <1>4, <2>2, EndedRemoves
<1>6. Len(r) = n - 1 /\ r \in Seq(DOMAIN h)
  BY <1>1, RemoveAtIs
<1>7. st \in Structures /\ st.n = n - 1
  BY <1>1 DEF EndedChain
<1> HIDE DEF n, r
<1>8. st2 \in Structures /\ st2.head = st.head /\ st2.n = n - 2
  <2>1. n - 2 \in Nat /\ n - 1 - 1 = n - 2
    BY <1>1
  <2>2. st2 = [head |-> st.head, n |-> n - 1 - 1] /\ st.head \in Nodes \cup {NULL}
    BY <1>7 DEF Structures
  <2> QED
    BY <2>1, <2>2 DEF Structures
<1>9. r # << >>
  BY <1>1, <1>6
<1>10. EndedChain(g, r, st2)
  <2>1. st2.n = Len(r) - 1
    BY <1>1, <1>6, <1>8
  <2> HIDE DEF st2
  <2> QED
    BY <1>4, <1>5, <1>8, <1>9, <2>1 DEF EndedChain
<1> QED
  BY <1>3, <1>4, <1>10 DEF r, st2, LosesAt

\* The data along r are those along s with x before the k-th.
GainsAt(h, s, g, r, k, x) == DataIn(g, r) = InsertAt(DataIn(h, s), k, x)

LEMMA EndedGrows ==
    ASSUME NEW h, NEW g, NEW s, NEW st, NEW k \in 1 .. Len(s), NEW node \in Nodes, NEW x \in Data,
           HeapOK(h), EndedChain(h, s, st), Spliced(h, g, s, k, node), g[node].data = x,
           \A i \in 1 .. Len(s) : g[s[i]].data = h[s[i]].data
    PROVE  /\ EndedChain(g, InsertAt(s, k, node),
                         [head |-> IF k = 1 THEN node ELSE st.head, n |-> st.n + 1])
           /\ ToSet(InsertAt(s, k, node)) = ToSet(s) \cup {node}
           /\ GainsAt(h, s, g, InsertAt(s, k, node), k, x)
<1> DEFINE n == Len(s)
           r == InsertAt(s, k, node)
           first == IF k = 1 THEN node ELSE st.head
           st2 == [head |-> first, n |-> st.n + 1]
<1>1. s \in Seq(DOMAIN h) /\ n \in Nat /\ k \in 1 .. n /\ k \in 1 .. n + 1 /\ s # << >>
  BY EndedFacts
<1>2. IsChain(g, r, first) /\ ToSet(r) = ToSet(s) \cup {node}
  <2>1. IsChain(h, s, st.head) /\ first = IF k = 1 THEN node ELSE st.head
    BY DEF EndedChain
  <2> HIDE DEF first
  <2> QED
    BY <1>1, <2>1, ChainInserts
<1>3. DataIn(g, r) = InsertAt(DataIn(h, s), k, x)
  BY <1>1, DataInserts DEF Known
<1>4. EndOnly(DataIn(g, r))
  <2>1. Len(DataIn(h, s)) = n
    BY <1>1, DataIs
  <2>2. EndOnly(DataIn(h, s)) /\ k \in 1 .. Len(DataIn(h, s))
    BY <1>1, <2>1 DEF EndedChain
  <2> QED
    BY <1>3, <2>2, EndedInserts
<1>5. Len(r) = n + 1
  <2> DEFINE T == DOMAIN h \cup {node}
  <2>1. s \in Seq(T) /\ node \in T
    BY <1>1, SeqWithin
  <2> HIDE DEF T
  <2> QED
    BY <1>1, <2>1, InsertAtIs
<1>6. st \in Structures /\ st.n = n - 1
  BY <1>1 DEF EndedChain
<1> HIDE DEF n, r
<1>7. st2 \in Structures /\ st2.head = first /\ st2.n = n
  BY <1>1, <1>6 DEF Structures
<1>8. r # << >> /\ st2.n = Len(r) - 1
  BY <1>1, <1>5, <1>7
<1>9. EndedChain(g, r, st2)
  <2> HIDE DEF st2, first
  <2> QED
    BY <1>2, <1>4, <1>7, <1>8 DEF EndedChain
<1> QED
  BY <1>2, <1>3, <1>9 DEF r, st2, first, GainsAt

LEMMA EndedMade ==
    ASSUME NEW g, NEW node \in Nodes, node \in DOMAIN g, g[node].next = NULL, g[node].data = NULL
    PROVE  /\ EndedChain(g, <<node>>, [head |-> node, n |-> 0])
           /\ ToSet(<<node>>) = {node} /\ Sorted(DataIn(g, <<node>>))
<1> DEFINE s == <<node>>
<1>1. s \in Seq(DOMAIN g) /\ Len(s) = 1 /\ s[1] = node /\ s # << >>
  OBVIOUS
<1>2. DataIn(g, s) = <<NULL>>
  BY <1>1 DEF DataIn
<1>3. EndOnly(<<NULL>>) /\ Sorted(<<NULL>>)
  BY DEF EndOnly, Sorted, Known
<1>4. ToSet(s) = {node}
  BY <1>1 DEF ToSet
<1> HIDE DEF s
<1>5. IsChain(g, s, node)
  BY <1>1 DEF IsChain
<1>6. EndedChain(g, s, [head |-> node, n |-> 0])
  BY <1>1, <1>2, <1>3, <1>5 DEF EndedChain, Structures
<1> QED
  BY <1>2, <1>3, <1>4, <1>6 DEF s

LEMMA EndedEmpty ==
    ASSUME NEW g
    PROVE  /\ EndedChain(g, << >>, [head |-> NULL, n |-> 0])
           /\ ToSet(<< >>) = {} /\ Sorted(DataIn(g, << >>))
<1>1. DataIn(g, << >>) = << >>
  BY DEF DataIn
<1>2. EndOnly(<< >>) /\ Sorted(<< >>)
  BY DEF EndOnly, Sorted
<1>3. IsChain(g, << >>, NULL)
  BY DEF IsChain
<1> QED
  BY <1>1, <1>2, <1>3 DEF EndedChain, Structures, ToSet

-----------------------------------------------------------------------------
(***************************************************************************)
(* What the operators that read the lists find                             *)
(***************************************************************************)
LEMMA ChainsAre ==
    ASSUME NEW L, NEW D, NEW O, Linked(L, D, O)
    PROVE  Chain(lifo.head) = L /\ ListElements = D /\ OrderedNodes = O
<1>1. /\ HeapOK(heap) /\ IsChain(heap, L, lifo.head)
      /\ IsChain(heap, D, list.head) /\ IsChain(heap, O, ordered.head)
  BY DEF Linked, LifoOK, ListOK, OrderedOK, EndedChain
<1>2. /\ ChainIn(heap, lifo.head) = L /\ ChainIn(heap, list.head) = D
      /\ ChainIn(heap, ordered.head) = O
  BY <1>1, ChainIs
<1> QED
  BY <1>2 DEF Chain, ListElements, OrderedNodes

LEMMA ChainsWillBe ==
    ASSUME NEW L, NEW D, NEW O, Linked(L, D, O)'
    PROVE  /\ Chain(lifo.head)' = L /\ ListElements' = D /\ OrderedNodes' = O
           /\ IInv'
<1>1. /\ HeapOK(heap') /\ IsChain(heap', L, lifo'.head)
      /\ IsChain(heap', D, list'.head) /\ IsChain(heap', O, ordered'.head)
  BY DEF Linked, LifoOK, ListOK, OrderedOK, EndedChain
<1>2. /\ ChainIn(heap', lifo'.head) = L /\ ChainIn(heap', list'.head) = D
      /\ ChainIn(heap', ordered'.head) = O
  BY <1>1, ChainIs
<1>3. Chain(lifo.head)' = L /\ ListElements' = D /\ OrderedNodes' = O
  BY <1>2 DEF Chain, ListElements, OrderedNodes
<1> QED
  BY <1>3 DEF IInv

\* The index of the first x in s, 0 for none.
FirstOf(s, x) == SelectInSeq(s, LAMBDA d : d = x)

LEMMA SelectedIs ==
    ASSUME NEW s, Len(s) \in Nat, NEW x, FirstOf(s, x) # 0
    PROVE  FirstOf(s, x) \in 1 .. Len(s) /\ s[FirstOf(s, x)] = x
<1> DEFINE I == {i \in 1 .. Len(s) : s[i] = x}
<1>1. FirstOf(s, x) = IF I # {} THEN Min(I) ELSE 0
  BY DEF FirstOf, SelectInSeq
<1>2. I \subseteq Nat
  OBVIOUS
<1>3. I # {} => Min(I) \in I
  <2> HIDE DEF I
  <2> QED
    BY <1>2, MinIs
<1>4. I # {}
  BY <1>1
<1> QED
  BY <1>1, <1>3, <1>4

\* All but the last of a sequence.
AllButLast(s) == SubSeq(s, 1, Len(s) - 1)

LEMMA AllButLastIs ==
    ASSUME NEW T, NEW s \in Seq(T)
    PROVE  /\ AllButLast(s) \in Seq(T) /\ DOMAIN AllButLast(s) = 1 .. Len(s) - 1
           /\ Len(AllButLast(s)) = IF Len(s) = 0 THEN 0 ELSE Len(s) - 1
           /\ \A i \in 1 .. Len(s) - 1 : AllButLast(s)[i] = s[i]
<1>1. CASE Len(s) = 0
  <2>1. s = << >>
    BY <1>1
  <2>2. AllButLast(s) = << >>
    BY <2>1 DEF AllButLast
  <2> QED
    BY <1>1, <2>2
<1>2. CASE Len(s) # 0
  <2>1. Len(s) - 1 \in 0 .. Len(s)
    BY <1>2
  <2> DEFINE m == Len(s) - 1
  <2>2. m \in 0 .. Len(s) /\ AllButLast(s) = SubSeq(s, 1, m)
    BY <2>1 DEF AllButLast
  <2> HIDE DEF m
  <2>3. SubSeq(s, 1, m) \in Seq(T) /\ Len(SubSeq(s, 1, m)) = m /\ \A i \in 1 .. m : SubSeq(s, 1, m)[i] = s[i]
    BY <2>2
  <2>4. AllButLast(s) \in Seq(T) /\ Len(AllButLast(s)) = m /\ \A i \in 1 .. m : AllButLast(s)[i] = s[i]
    BY <2>2, <2>3
  <2>5. DOMAIN AllButLast(s) = 1 .. m
    BY <2>4
  <2> QED
    BY <1>2, <2>4, <2>5 DEF m
<1> QED
  BY <1>1, <1>2

\* The elements are what is before the end node.
LEMMA LifoElementsAre ==
    ASSUME NEW L, NEW D, NEW O, Linked(L, D, O) PROVE LifoElements = AllButLast(L)
<1> DEFINE I == {i \in 1 .. Len(L) : END_NODE(L[i])}
<1>1. LifoElements = SubSeq(L, 1, (IF I # {} THEN Min(I) ELSE 0) - 1)
  BY ChainsAre DEF LifoElements, Before, SelectInSeq
<1>2. /\ Len(L) \in Nat
      /\ \A i \in 1 .. Len(L) : /\ heap[L[i]].next = IF i = Len(L) THEN NULL ELSE L[i + 1]
                                /\ (heap[L[i]].data = NULL) <=> (i = Len(L))
  BY EndedFacts DEF Linked, LifoOK
<1>3. I = {i \in 1 .. Len(L) : i = Len(L)}
  BY <1>2 DEF END_NODE
<1>4. CASE Len(L) = 0
  <2>1. I = {}
    BY <1>3, <1>4
  <2> QED
    BY <1>1, <1>4, <2>1 DEF AllButLast
<1>5. CASE Len(L) # 0
  <2>1. I \subseteq Int /\ Len(L) \in I /\ \A k \in I : Len(L) <= k
    BY <1>2, <1>3, <1>5
  <2>2. Min(I) = Len(L)
    <3> HIDE DEF I
    <3> QED
      BY <2>1, LeastIs
  <2> HIDE DEF I
  <2> QED
    BY <1>1, <2>1, <2>2 DEF AllButLast
<1> QED
  BY <1>4, <1>5

LEMMA OrderedElementsAre ==
    ASSUME NEW L, NEW D, NEW O, Linked(L, D, O) PROVE OrderedElements = AllButLast(O)
<1> DEFINE I == {i \in 1 .. Len(O) : ~not_endof_ordered_list(O[i])}
<1>1. OrderedElements = SubSeq(O, 1, (IF I # {} THEN Min(I) ELSE 0) - 1)
  BY ChainsAre DEF OrderedElements, Before, SelectInSeq
<1>2. /\ Len(O) \in Nat
      /\ \A i \in 1 .. Len(O) : /\ O[i] \in DOMAIN heap
                                /\ heap[O[i]].next = IF i = Len(O) THEN NULL ELSE O[i + 1]
                                /\ (heap[O[i]].data = NULL) <=> (i = Len(O))
  BY EndedFacts DEF Linked, OrderedOK
<1>3. NULL \notin DOMAIN heap
  BY DataAssumption DEF Linked, HeapOK
<1>4. \A i \in 1 .. Len(O) : i # Len(O) => i + 1 \in 1 .. Len(O)
  BY <1>2
<1>5. I = {i \in 1 .. Len(O) : i = Len(O)}
  BY <1>2, <1>3, <1>4 DEF not_endof_ordered_list
<1>6. CASE Len(O) = 0
  <2>1. I = {}
    BY <1>5, <1>6
  <2> QED
    BY <1>1, <1>6, <2>1 DEF AllButLast
<1>7. CASE Len(O) # 0
  <2>1. I \subseteq Int /\ Len(O) \in I /\ \A k \in I : Len(O) <= k
    BY <1>2, <1>5, <1>7
  <2>2. Min(I) = Len(O)
    <3> HIDE DEF I
    <3> QED
      BY <2>1, LeastIs
  <2> HIDE DEF I
  <2> QED
    BY <1>1, <2>1, <2>2 DEF AllButLast
<1> QED
  BY <1>6, <1>7

\* What is read is what is linked, in every state.
ElementsAre ==
    \A L, D, O : Linked(L, D, O) => /\ LifoElements = AllButLast(L)
                                   /\ OrderedElements = AllButLast(O)

LEMMA ElementsWillBe == ElementsAre'
<1>1. ElementsAre
  BY LifoElementsAre, OrderedElementsAre DEF ElementsAre
<1> QED
  BY <1>1, PTL

-----------------------------------------------------------------------------
(***************************************************************************)
(* The lifo                                                                *)
(***************************************************************************)
LEMMA LifoElementIs ==
    ASSUME NEW L, NEW D, NEW O, Linked(L, D, O), NEW i \in DOMAIN LifoElements
    PROVE  /\ i \in 1 .. Len(L) - 1 /\ LifoElements[i] = L[i] /\ L[i] \in Nodes
           /\ heap[L[i]].data \in Data
<1>1. /\ L \in Seq(DOMAIN heap) /\ Len(L) \in Nat
      /\ \A j \in 1 .. Len(L) : /\ L[j] \in DOMAIN heap
                                /\ (heap[L[j]].data = NULL) <=> (j = Len(L))
  BY EndedFacts DEF Linked, LifoOK
<1>2. i \in 1 .. Len(L) - 1 /\ LifoElements[i] = L[i]
  BY <1>1, LifoElementsAre, AllButLastIs
<1>3. heap[L[i]].data # NULL /\ L[i] \in DOMAIN heap
  BY <1>1, <1>2
<1>4. heap[L[i]] \in Blocks /\ L[i] \in Nodes
  BY <1>3 DEF Linked, HeapOK
<1> QED
  BY <1>2, <1>3, <1>4 DEF Blocks

\* The first element with the datum.
LEMMA LifoFound ==
    ASSUME NEW L, NEW D, NEW O, Linked(L, D, O), NEW x,
           NEW i, i = FirstOf(DataOf(LifoElements), x), i # 0
    PROVE  i \in DOMAIN LifoElements /\ heap[LifoElements[i]].data = x
<1> DEFINE e == LifoElements
           d == DataOf(e)
<1>1. L \in Seq(DOMAIN heap)
  BY EndedFacts DEF Linked, LifoOK
<1>2. e \in Seq(DOMAIN heap)
  BY <1>1, LifoElementsAre, AllButLastIs
<1>3. Len(d) = Len(e) /\ Len(d) \in Nat /\ DOMAIN e = 1 .. Len(e)
      /\ \A j \in DOMAIN e : d[j] = heap[e[j]].data
  BY <1>2 DEF DataOf
<1> HIDE DEF d, e
<1>4. i = FirstOf(d, x) /\ i # 0
  BY DEF d, e
<1>5. i \in 1 .. Len(d) /\ d[i] = x
  BY <1>3, <1>4, SelectedIs
<1> QED
  BY <1>3, <1>5 DEF d, e

LEMMA LifoRemoves ==
    ASSUME NEW L, NEW D, NEW O, Linked(L, D, O), NEW k \in 1 .. Len(L) - 1,
           LifoRemove(L[k]), UNCHANGED <<list, ordered>>
    PROVE  /\ Linked(RemoveAt(L, k + 1), D, O)'
           /\ DataIn(heap', RemoveAt(L, k + 1)) = RemoveAt(DataIn(heap, L), k)
<1> DEFINE n == Len(L)
           r == RemoveAt(L, k + 1)
           b == L[k + 1]
           F == {a \in {b} : heap[a].counted}
<1>1. /\ HeapOK(heap) /\ EndedChain(heap, L, lifo) /\ MonitorOK(heap, monitor, L)
      /\ HandlesOK(heap, handles, D) /\ (LifoMax # 0 => lifo.n <= LifoMax)
  BY DEF Linked, LifoOK
<1>2. /\ L \in Seq(DOMAIN heap) /\ n \in Nat
      /\ \A i, j \in 1 .. n : L[i] = L[j] => i = j
      /\ \A i \in 1 .. n : /\ L[i] \in DOMAIN heap
                           /\ heap[L[i]].next = IF i = n THEN NULL ELSE L[i + 1]
  BY <1>1, EndedFacts
<1>3. k \in 1 .. n /\ k + 1 \in 1 .. n /\ k # n /\ heap[L[k]].next = b /\ b \in DOMAIN heap
  BY <1>2
<1>4. /\ heap' = Without(Copied(heap, L[k], b), {b})
      /\ monitor' = [bytes_used |-> monitor.bytes_used - Bytes(heap, F),
                     live |-> monitor.live - Cardinality(F)]
      /\ lifo' = [lifo EXCEPT !.n = @ - 1]
      /\ handles' \subseteq handles
  BY <1>3 DEF LifoRemove, Unmonitored, Forgotten
<1>5. /\ EndedChain(heap', r, lifo') /\ ToSet(r) = ToSet(L) \ {b}
      /\ DataIn(heap', r) = RemoveAt(DataIn(heap, L), k)
      /\ HeapOK(heap') /\ SameHeaders(heap, heap') /\ DOMAIN heap' = DOMAIN heap \ {b}
      /\ \A c \in DOMAIN heap' : c # L[k] => heap'[c] = heap[c]
  <2>1. k \in 1 .. Len(L) - 1 /\ heap' = Removal(heap, L, k)
    BY <1>4 DEF Removal
  <2>2. lifo' = [lifo EXCEPT !.n = @ - 1]
    BY <1>4
  <2> QED
    <3>1. HeapOK(heap) /\ EndedChain(heap, L, lifo)
      BY <1>1
    <3>2. HeapOK(heap')
      BY <2>1, <3>1, EndedCopies
    <3>3. EndedChain(heap', r, [lifo EXCEPT !.n = @ - 1])
      BY <2>1, <3>1, EndedCopies
    <3>4. ToSet(r) = ToSet(L) \ {b}
      BY <2>1, <3>1, EndedCopies
    <3>5. LosesAt(heap, L, heap', r, k)
      BY <2>1, <3>1, EndedCopies
    <3>6. SameHeaders(heap, heap') /\ CopiedOver(heap, heap', L[k], b)
      BY <2>1, <3>1, EndedCopies
    <3> QED
      BY <2>2, <3>2, <3>3, <3>4, <3>5, <3>6 DEF CopiedOver, LosesAt
<1>6. LifoOK(heap', r, lifo')
  <2>1. lifo \in Structures
    BY <1>1 DEF EndedChain
  <2>2. lifo.n \in Nat /\ lifo'.n = lifo.n - 1
    BY <1>4, <2>1 DEF Structures
  <2>3. LifoMax # 0 => lifo'.n <= LifoMax
    BY <1>1, <2>2, LifoMaxAssumption
  <2> QED
    BY <1>5, <2>3 DEF LifoOK
<1>7. \A a \in DOMAIN heap' : ~heap[a].counted => r # << >> /\ a = r[Len(r)]
  <2> SUFFICES ASSUME NEW a \in DOMAIN heap', ~heap[a].counted PROVE r # << >> /\ a = r[Len(r)]
    OBVIOUS
  <2>1. a \in DOMAIN heap /\ a # b /\ a = L[n]
    BY <1>1, <1>5 DEF MonitorOK
  <2>2. k + 1 # n
    BY <2>1
  <2>3. Len(r) = n - 1 /\ \A i \in 1 .. n - 1 : r[i] = IF i < k + 1 THEN L[i] ELSE L[i + 1]
    BY <1>2, <1>3, RemoveAtIs
  <2>4. n - 1 \in 1 .. n - 1 /\ ~(n - 1 < k + 1) /\ n - 1 + 1 = n
    BY <1>2, <1>3, <2>2
  <2>5. r[n - 1] = L[n]
    BY <2>3, <2>4
  <2>6. r \in Seq(DOMAIN heap)
    BY <1>2, <1>3, RemoveAtIs
  <2>7. r # << >>
    BY <2>3, <2>4, <2>6
  <2> QED
    BY <2>1, <2>3, <2>5, <2>7
<1>8. MonitorOK(heap', monitor', r)
  <2>1. {b} \in SUBSET DOMAIN heap
    BY <1>3
  <2> HIDE DEF r, b, n
  <2> QED
    BY <1>1, <1>4, <1>5, <1>7, <2>1, MonitorDrops
<1>9. b \in ToSet(L) /\ L[k] \in ToSet(L)
  BY <1>1, <1>3, ChainNodes DEF EndedChain
<1>10. Replaced(heap, heap', L, r)
  <2>1. ToSet(L) \subseteq DOMAIN heap
    BY <1>1, ChainNodes DEF EndedChain
  <2> HIDE DEF r, b
  <2> QED
    BY <1>5, <1>9, <2>1 DEF Replaced
<1>11. /\ handles' \subseteq {"lifo", "list"} \X Nodes \X Data
       /\ \A x \in handles' : x[1] = "list" => x \in handles
  BY <1>1, <1>4 DEF HandlesOK
<1> HIDE DEF r, n, b
<1>12. Linked(r, D, O)'
  BY <1>5, <1>6, <1>8, <1>10, <1>11, LifoMoves
<1> QED
  BY <1>5, <1>12 DEF r

LEMMA LifoInits ==
    ASSUME NEW L, NEW D, NEW O, Linked(L, D, O), lifo_init, UNCHANGED <<list, ordered>>
    PROVE  \E r : Linked(r, D, O)'
<1>1. PICK node \in Unallocated :
         heap' = With(heap, node, [next |-> NULL, prev |-> NULL, data |-> NULL,
                                   size |-> SizeOf.lifo, counted |-> FALSE])
  BY DEF lifo_init
<1> DEFINE block == [next |-> NULL, prev |-> NULL, data |-> NULL,
                     size |-> SizeOf.lifo, counted |-> FALSE]
<1>2. lifo.head = NULL /\ monitor' = monitor /\ handles' = handles
  BY DEF lifo_init
<1>3. lifo' = [head |-> node, n |-> 0]
  <2>1. PICK a \in Unallocated :
           /\ heap' = With(heap, a, block)
           /\ lifo' = [head |-> a, n |-> 0]
    BY DEF lifo_init
  <2>2. a \in DOMAIN heap' \ DOMAIN heap /\ DOMAIN heap' = DOMAIN heap \cup {node}
    BY <1>1, <2>1 DEF With, Unallocated
  <2> QED
    BY <2>1, <2>2
<1>4. /\ HeapOK(heap) /\ EndedChain(heap, L, lifo) /\ MonitorOK(heap, monitor, L)
      /\ HandlesOK(heap, handles, D)
  BY DEF Linked, LifoOK
<1>5. L = << >> /\ ToSet(L) = {}
  BY <1>2, <1>4, EndedFacts, EndedEmpty
<1>6. block \in Blocks /\ node \in Nodes \ DOMAIN heap /\ heap' = With(heap, node, block)
  BY <1>1 DEF Blocks, SizeOf, Range, Unallocated
<1>7. /\ HeapOK(heap') /\ SameHeaders(heap, heap') /\ DOMAIN heap' = DOMAIN heap \cup {node}
      /\ heap'[node] = block /\ \A a \in DOMAIN heap : heap'[a] = heap[a]
  <2> HIDE DEF block
  <2>2. HeapOK(heap) /\ block \in Blocks /\ node \in Nodes \ DOMAIN heap
    BY <1>4, <1>6
  <2> QED
    BY <1>6, <2>2, WithIs DEF Allocated
<1>8. /\ EndedChain(heap', <<node>>, lifo') /\ ToSet(<<node>>) = {node}
  <2>1. node \in Nodes /\ node \in DOMAIN heap' /\ heap'[node].next = NULL /\ heap'[node].data = NULL
    BY <1>6, <1>7
  <2> QED
    BY <1>3, <2>1, EndedMade
<1>9. LifoOK(heap', <<node>>, lifo')
  BY <1>3, <1>8, LifoMaxAssumption DEF LifoOK
<1>10. MonitorOK(heap', monitor', <<node>>)
  <2>1. Counted(heap') = Counted(heap) /\ Counted(heap) \in SUBSET (DOMAIN heap \cap DOMAIN heap')
    BY <1>7 DEF Counted
  <2>2. Bytes(heap', Counted(heap')) = Bytes(heap, Counted(heap))
    BY <1>4, <1>7, <2>1, SameBytes
  <2>3. \A a \in DOMAIN heap' : ~heap'[a].counted => a = node
    BY <1>4, <1>5, <1>7 DEF MonitorOK
  <2>4. Len(<<node>>) = 1 /\ <<node>>[1] = node /\ <<node>> # << >>
    OBVIOUS
  <2> QED
    BY <1>2, <1>4, <2>1, <2>2, <2>3, <2>4 DEF MonitorOK
<1>11. Linked(<<node>>, D, O)'
  <2> DEFINE r == <<node>>
  <2>1. Replaced(heap, heap', L, r)
    BY <1>5, <1>6, <1>7, <1>8 DEF Replaced
  <2>2. /\ handles' \subseteq {"lifo", "list"} \X Nodes \X Data
        /\ \A x \in handles' : x[1] = "list" => x \in handles
    BY <1>2, <1>4 DEF HandlesOK
  <2>3. HeapOK(heap') /\ LifoOK(heap', r, lifo') /\ MonitorOK(heap', monitor', r)
    BY <1>7, <1>9, <1>10
  <2> HIDE DEF r
  <2>4. Linked(r, D, O)'
    BY <2>1, <2>2, <2>3, LifoMoves
  <2> QED
    BY <2>4 DEF r
<1> QED
  BY <1>11

LEMMA LifoAdds ==
    ASSUME NEW L, NEW D, NEW O, Linked(L, D, O), NEW d \in Data, lifo_add_data(d),
           UNCHANGED <<list, ordered>>
    PROVE  \E r : Linked(r, D, O)'
<1> DEFINE block == [next |-> lifo.head, prev |-> NULL, data |-> d,
                     size |-> SizeOf.lifo, counted |-> TRUE]
<1>1. PICK node \in Unallocated :
         /\ heap' = With(heap, node, block) /\ Monitored(block)
         /\ lifo' = [head |-> node, n |-> lifo.n + 1]
         /\ Given("lifo", node, d)
  BY DEF lifo_add_data
<1>2. lifo.head # NULL /\ (LifoMax # 0 => lifo.n < LifoMax)
  BY DEF lifo_add_data
<1>3. /\ HeapOK(heap) /\ EndedChain(heap, L, lifo) /\ MonitorOK(heap, monitor, L)
      /\ HandlesOK(heap, handles, D) /\ lifo \in Structures
  BY DEF Linked, LifoOK, EndedChain
<1>4. /\ L # << >> /\ L \in Seq(DOMAIN heap) /\ 1 \in 1 .. Len(L) /\ Len(L) \in Nat /\ lifo.head = L[1]
      /\ L[1] \in DOMAIN heap /\ ToSet(L) \subseteq DOMAIN heap
      /\ \A i \in 1 .. Len(L) : L[i] \in DOMAIN heap
  <2>1. L # << >> /\ L \in Seq(DOMAIN heap) /\ lifo.head = L[1] /\ Len(L) \in Nat /\ Len(L) # 0
        /\ \A i \in 1 .. Len(L) : L[i] \in DOMAIN heap
    BY <1>2, <1>3, EndedFacts
  <2>2. 1 \in 1 .. Len(L)
    BY <2>1
  <2>3. ToSet(L) \subseteq DOMAIN heap
    BY <1>3, ChainNodes DEF EndedChain
  <2> QED
    BY <2>1, <2>2, <2>3
<1>5. block \in Blocks /\ node \in Nodes \ DOMAIN heap
  <2>1. lifo.head \in Nodes
    BY <1>3, <1>4 DEF HeapOK
  <2> QED
    BY <2>1 DEF Blocks, SizeOf, Range, Unallocated
<1>6. /\ HeapOK(heap') /\ SameHeaders(heap, heap') /\ DOMAIN heap' = DOMAIN heap \cup {node}
      /\ heap'[node] = block /\ \A a \in DOMAIN heap : heap'[a] = heap[a]
  <2> HIDE DEF block
  <2> QED
    <3>1. HeapOK(heap') /\ SameHeaders(heap, heap') /\ Allocated(heap, heap', node, block)
      <4>1. HeapOK(heap) /\ heap' = With(heap, node, block)
        BY <1>1, <1>3
      <4> QED
        BY <1>5, <4>1, WithIs
    <3> QED
      BY <3>1 DEF Allocated
<1> DEFINE r == InsertAt(L, 1, node)
<1>7. Spliced(heap, heap', L, 1, node)
  <2>1. node \in DOMAIN heap' /\ node \notin ToSet(L)
    BY <1>4, <1>5, <1>6
  <2>2. heap'[node].next = L[1]
    BY <1>4, <1>6
  <2>3. 1 # Len(L) + 1
    BY <1>4
  <2>4. \A i \in 1 .. Len(L) : L[i] \in DOMAIN heap' /\ heap'[L[i]].next = heap[L[i]].next /\ i # 1 - 1
    BY <1>4, <1>6
  <2> QED
    BY <2>1, <2>2, <2>3, <2>4 DEF Spliced
<1>8. EndedChain(heap', r, lifo') /\ ToSet(r) = ToSet(L) \cup {node}
  <2>1. heap'[node].data = d /\ \A i \in 1 .. Len(L) : heap'[L[i]].data = heap[L[i]].data
    BY <1>4, <1>6
  <2>2. EndedChain(heap', r, [head |-> IF 1 = 1 THEN node ELSE lifo.head, n |-> lifo.n + 1])
        /\ ToSet(r) = ToSet(L) \cup {node}
    BY <1>3, <1>4, <1>5, <1>7, <2>1, EndedGrows, SMTT(20)
  <2> HIDE DEF r
  <2> QED
    BY <1>1, <2>2
<1>9. LifoOK(heap', r, lifo')
  <2>1. LifoMax # 0 => lifo.n + 1 <= LifoMax
    BY <1>2, <1>3, LifoMaxAssumption DEF Structures
  <2> HIDE DEF r
  <2> QED
    BY <1>1, <1>8, <2>1 DEF LifoOK
<1>10. r # << >> /\ r[Len(r)] = L[Len(L)]
  <2>1. /\ Len(r) = Len(L) + 1
        /\ \A i \in 1 .. Len(L) + 1 : r[i] = IF i < 1 THEN L[i] ELSE IF i = 1 THEN node ELSE L[i - 1]
    <3> DEFINE T == DOMAIN heap \cup {node}
    <3>1. L \in Seq(T) /\ node \in T /\ 1 \in 1 .. Len(L) + 1
      BY <1>4, SeqWithin
    <3> HIDE DEF T
    <3> QED
      BY <3>1, InsertAtIs
  <2> HIDE DEF r
  <2>2. Len(L) + 1 \in 1 .. Len(L) + 1 /\ ~(Len(L) + 1 < 1) /\ Len(L) + 1 # 1 /\ Len(L) + 1 - 1 = Len(L)
    BY <1>4
  <2>3. r[Len(L) + 1] = L[Len(L)]
    BY <2>1, <2>2
  <2>4. r # << >>
    BY <1>4, <2>1
  <2> QED
    BY <2>1, <2>3, <2>4
<1>11. MonitorOK(heap', monitor', r)
  <2>1. monitor' = [bytes_used |-> monitor.bytes_used + heap'[node].size, live |-> monitor.live + 1]
    BY <1>1, <1>6 DEF Monitored
  <2>2. heap'[node].counted /\ node \notin DOMAIN heap
    BY <1>5, <1>6
  <2> HIDE DEF r
  <2> QED
    BY <1>3, <1>6, <1>10, <2>1, <2>2, MonitorAdds
<1>12. Linked(r, D, O)'
  <2>1. Replaced(heap, heap', L, r)
    <3> HIDE DEF r
    <3> QED
      BY <1>4, <1>5, <1>6, <1>8 DEF Replaced
  <2>2. /\ handles' \subseteq {"lifo", "list"} \X Nodes \X Data
        /\ \A x \in handles' : x[1] = "list" => x \in handles
    BY <1>1, <1>3, <1>5 DEF HandlesOK, Given
  <2> HIDE DEF r
  <2> QED
    BY <1>6, <1>9, <1>11, <2>1, <2>2, LifoMoves
<1> QED
  BY <1>12

LEMMA LifoDestroys ==
    ASSUME NEW L, NEW D, NEW O, Linked(L, D, O), lifo_destroy, UNCHANGED <<list, ordered>>
    PROVE  Linked(<< >>, D, O)'
<1> DEFINE S == ToSet(L)
           F == {a \in S : heap[a].counted}
           r == << >>
<1>1. /\ heap' = Without(heap, S)
      /\ monitor' = [bytes_used |-> monitor.bytes_used - Bytes(heap, F),
                     live |-> monitor.live - Cardinality(F)]
      /\ lifo' = [head |-> NULL, n |-> 0]
      /\ handles' = {h \in handles : h[1] # "lifo"}
  BY ChainsAre DEF lifo_destroy, Unmonitored
<1>2. /\ HeapOK(heap) /\ EndedChain(heap, L, lifo) /\ MonitorOK(heap, monitor, L)
      /\ HandlesOK(heap, handles, D)
  BY DEF Linked, LifoOK
<1>3. S \subseteq DOMAIN heap /\ \A i \in 1 .. Len(L) : L[i] \in S
  BY <1>2, ChainNodes DEF EndedChain
<1> HIDE DEF S
<1>4. /\ HeapOK(heap') /\ SameHeaders(heap, heap') /\ DOMAIN heap' = DOMAIN heap \ S
      /\ \A a \in DOMAIN heap \ S : heap'[a] = heap[a]
  BY <1>1, <1>2, WithoutIs
<1>5. \A a \in DOMAIN heap' : ~heap[a].counted => r # << >> /\ a = r[Len(r)]
  <2> SUFFICES ASSUME NEW a \in DOMAIN heap', ~heap[a].counted PROVE FALSE
    OBVIOUS
  <2>1. L # << >> /\ a = L[Len(L)]
    BY <1>2, <1>4 DEF MonitorOK
  <2>2. Len(L) \in 1 .. Len(L)
    BY <1>2, <2>1, EndedFacts
  <2> QED
    BY <1>3, <1>4, <2>1, <2>2
<1> HIDE DEF r
<1>6. MonitorOK(heap', monitor', r)
  BY <1>1, <1>2, <1>3, <1>4, <1>5, MonitorDrops
<1>7. LifoOK(heap', r, lifo') /\ ToSet(r) = {}
  BY <1>1, EndedEmpty, LifoMaxAssumption DEF LifoOK, r
<1>8. Replaced(heap, heap', L, r)
  BY <1>4, <1>7 DEF S, Replaced
<1>9. /\ handles' \subseteq {"lifo", "list"} \X Nodes \X Data
      /\ \A x \in handles' : x[1] = "list" => x \in handles
  BY <1>1, <1>2 DEF HandlesOK
<1>10. Linked(r, D, O)'
  BY <1>4, <1>6, <1>7, <1>8, <1>9, LifoMoves
<1> QED
  BY <1>10 DEF r

-----------------------------------------------------------------------------
(***************************************************************************)
(* The ordered list                                                        *)
(***************************************************************************)
LEMMA OrderedFacts ==
    ASSUME NEW L, NEW D, NEW O, Linked(L, D, O)
    PROVE  /\ HeapOK(heap) /\ EndedChain(heap, O, ordered) /\ MonitorOK(heap, monitor, L)
           /\ Sorted(DataIn(heap, O)) /\ ordered \in Structures
           /\ O \in Seq(DOMAIN heap) /\ Len(O) \in Nat /\ ToSet(O) \subseteq DOMAIN heap
           /\ \A i, j \in 1 .. Len(O) : O[i] = O[j] => i = j
           /\ \A i \in 1 .. Len(O) : /\ O[i] \in DOMAIN heap /\ O[i] \in ToSet(O)
                                     /\ heap[O[i]].next = IF i = Len(O) THEN NULL ELSE O[i + 1]
                                     /\ (heap[O[i]].data = NULL) <=> (i = Len(O))
<1>1. HeapOK(heap) /\ EndedChain(heap, O, ordered) /\ MonitorOK(heap, monitor, L) /\ Sorted(DataIn(heap, O))
  BY DEF Linked, OrderedOK
<1>2. ordered \in Structures /\ IsChain(heap, O, ordered.head)
  BY <1>1 DEF EndedChain
<1>3. ToSet(O) \subseteq DOMAIN heap /\ \A i \in 1 .. Len(O) : O[i] \in ToSet(O)
  BY <1>2, ChainNodes
<1>4. /\ O \in Seq(DOMAIN heap) /\ Len(O) \in Nat
      /\ \A i, j \in 1 .. Len(O) : O[i] = O[j] => i = j
      /\ \A i \in 1 .. Len(O) : /\ O[i] \in DOMAIN heap
                                /\ heap[O[i]].next = IF i = Len(O) THEN NULL ELSE O[i + 1]
                                /\ (heap[O[i]].data = NULL) <=> (i = Len(O))
  BY <1>1, EndedFacts
<1> QED
  BY <1>1, <1>2, <1>3, <1>4

\* A walk for x stops at the first datum that is not less, or at the end node.
LEMMA StopIs ==
    ASSUME NEW L, NEW D, NEW O, Linked(L, D, O), O # << >>, NEW x \in Data
    PROVE  /\ StopAt(x) \in 1 .. Len(O)
           /\ \A i \in 1 .. StopAt(x) - 1 : heap[O[i]].data < x
           /\ StopAt(x) # Len(O) => heap[O[StopAt(x)]].data >= x
           /\ Finds(x) <=> StopAt(x) # Len(O) /\ heap[O[StopAt(x)]].data = x
<1> DEFINE n == Len(O)
           I == {i \in 1 .. n : ~not_endof_ordered_list(O[i]) \/ heap[O[i]].data >= x}
<1>1. /\ n \in Nat /\ n # 0
      /\ \A i \in 1 .. n : /\ O[i] \in DOMAIN heap
                           /\ heap[O[i]].next = IF i = n THEN NULL ELSE O[i + 1]
                           /\ (heap[O[i]].data = NULL) <=> (i = n)
  BY OrderedFacts
<1>2. NULL \notin DOMAIN heap
  BY DataAssumption DEF Linked, HeapOK
<1>3. \A i \in 1 .. n : i # n => i + 1 \in 1 .. n
  BY <1>1
<1>4. \A i \in 1 .. n : not_endof_ordered_list(O[i]) <=> i # n
  BY <1>1, <1>2, <1>3 DEF not_endof_ordered_list
<1>5. StopAt(x) = IF I # {} THEN Min(I) ELSE 0
  BY ChainsAre DEF StopAt, SelectInSeq
<1>6. n \in I /\ I \subseteq Nat
  BY <1>1, <1>4
<1>7. Min(I) \in I /\ \A k \in I : Min(I) <= k
  <2> HIDE DEF I
  <2> QED
    BY <1>6, MinIs
<1> DEFINE k == Min(I)
<1>8. StopAt(x) = k /\ k \in I /\ \A j \in I : k <= j
  BY <1>5, <1>6, <1>7
<1> HIDE DEF k
<1>9. k \in 1 .. n /\ (k # n => heap[O[k]].data >= x)
  BY <1>4, <1>8
<1>10. \A i \in 1 .. n - 1 : heap[O[i]].data \in Nat
  <2> SUFFICES ASSUME NEW i \in 1 .. n - 1 PROVE heap[O[i]].data \in Nat
    OBVIOUS
  <2>1. i \in 1 .. n /\ i # n
    BY <1>1
  <2>2. heap[O[i]].data # NULL /\ heap[O[i]] \in Blocks
    BY <1>1, <2>1 DEF Linked, HeapOK
  <2> QED
    BY <2>2, DataAssumption DEF Blocks
<1>11. ASSUME NEW i \in 1 .. k - 1 PROVE heap[O[i]].data < x
  <2>1. i \in 1 .. n /\ i \in 1 .. n - 1 /\ i < k
    BY <1>1, <1>9
  <2>2. i \notin I
    BY <1>8, <1>9, <2>1
  <2>3. ~(heap[O[i]].data >= x)
    BY <2>1, <2>2
  <2> QED
    BY <1>10, <2>1, <2>3, DataAssumption
<1>12. Finds(x) <=> k # n /\ heap[O[k]].data = x
  <2>1. OrderedNodes = O
    BY ChainsAre
  <2> QED
    BY <1>4, <1>8, <1>9, <2>1 DEF Finds
<1> QED
  BY <1>8, <1>9, <1>11, <1>12

LEMMA OrderedInits ==
    ASSUME NEW L, NEW D, NEW O, Linked(L, D, O), ordered_list_init, UNCHANGED <<lifo, list>>
    PROVE  \E r : Linked(L, D, r)'
<1> DEFINE block == [next |-> NULL, prev |-> NULL, data |-> NULL,
                     size |-> SizeOf.ordered, counted |-> TRUE]
<1>1. PICK node \in Unallocated :
         /\ heap' = With(heap, node, block) /\ Monitored(block)
         /\ ordered' = [head |-> node, n |-> 0]
  BY DEF ordered_list_init
<1>2. ordered.head = NULL /\ handles' = handles
  BY DEF ordered_list_init
<1>3. HeapOK(heap) /\ EndedChain(heap, O, ordered) /\ MonitorOK(heap, monitor, L)
  BY OrderedFacts
<1>4. O = << >> /\ ToSet(O) = {}
  BY <1>2, <1>3, EndedFacts, EndedEmpty
<1>5. block \in Blocks /\ node \in Nodes \ DOMAIN heap
  BY DEF Blocks, SizeOf, Range, Unallocated
<1>6. HeapOK(heap') /\ SameHeaders(heap, heap') /\ Allocated(heap, heap', node, block)
  <2>1. heap' = With(heap, node, block)
    BY <1>1
  <2> HIDE DEF block
  <2> QED
    BY <1>3, <1>5, <2>1, WithIs
<1> DEFINE r == <<node>>
<1>7. node \in Nodes /\ node \in DOMAIN heap' /\ heap'[node].next = NULL /\ heap'[node].data = NULL
      /\ heap'[node].counted
  BY <1>5, <1>6 DEF Allocated
<1>8. OrderedOK(heap', r, ordered') /\ ToSet(r) = {node}
  BY <1>1, <1>7, EndedMade DEF OrderedOK
<1>9. MonitorOK(heap', monitor', L)
  <2>1. monitor' = [bytes_used |-> monitor.bytes_used + heap'[node].size, live |-> monitor.live + 1]
    BY <1>1, <1>6 DEF Monitored, Allocated
  <2>2. node \notin DOMAIN heap /\ DOMAIN heap' = DOMAIN heap \cup {node}
    BY <1>5, <1>6 DEF Allocated
  <2> QED
    BY <1>3, <1>6, <1>7, <2>1, <2>2, MonitorAdds
<1>10. Replaced(heap, heap', O, r)
  BY <1>4, <1>5, <1>6, <1>8 DEF Allocated, Replaced
<1> HIDE DEF r
<1>11. Linked(L, D, r)'
  BY <1>2, <1>6, <1>8, <1>9, <1>10, OrderedMoves
<1> QED
  BY <1>11

LEMMA OrderedAdds ==
    ASSUME NEW L, NEW D, NEW O, Linked(L, D, O), NEW x \in Data, ordered_list_add(x),
           UNCHANGED <<lifo, list>>
    PROVE  \E r : Linked(L, D, r)'
<1> DEFINE n == Len(O)
<1>0. ordered.head # NULL /\ handles' = handles /\ OrderedNodes = O
  BY ChainsAre DEF ordered_list_add
<1>1. /\ HeapOK(heap) /\ EndedChain(heap, O, ordered) /\ MonitorOK(heap, monitor, L)
      /\ Sorted(DataIn(heap, O)) /\ O \in Seq(DOMAIN heap) /\ n \in Nat
      /\ ToSet(O) \subseteq DOMAIN heap
      /\ \A i, j \in 1 .. n : O[i] = O[j] => i = j
      /\ \A i \in 1 .. n : O[i] \in DOMAIN heap /\ O[i] \in ToSet(O)
  BY OrderedFacts
<1>2. O # << >>
  BY <1>0, <1>1, EndedFacts
<1>3. PICK k \in 1 .. n :
        /\ k = StopAt(x)
        /\ \A i \in 1 .. k - 1 : heap[O[i]].data < x
        /\ k # n => heap[O[k]].data >= x
  BY <1>2, StopIs
<1> DEFINE block == [next |-> O[k], prev |-> NULL, data |-> x,
                     size |-> SizeOf.ordered, counted |-> TRUE]
<1>4. PICK node \in Unallocated :
         /\ heap' = With(IF k = 1 THEN heap ELSE [heap EXCEPT ![O[k - 1]].next = node], node, block)
         /\ Monitored(block)
         /\ ordered' = [head |-> IF k = 1 THEN node ELSE ordered.head, n |-> ordered.n + 1]
  BY <1>0, <1>3 DEF ordered_list_add
<1>5. block \in Blocks /\ node \in Nodes \ DOMAIN heap
  <2>1. O[k] \in Nodes
    BY <1>1, <1>3 DEF HeapOK
  <2> QED
    BY <2>1 DEF Blocks, SizeOf, Range, Unallocated
<1> DEFINE h == IF k = 1 THEN heap ELSE [heap EXCEPT ![O[k - 1]].next = node]
<1>6. /\ HeapOK(h) /\ SameHeaders(heap, h) /\ DOMAIN h = DOMAIN heap
      /\ k # 1 => h[O[k - 1]].next = node /\ h[O[k - 1]].data = heap[O[k - 1]].data
      /\ \A a \in DOMAIN heap : (k # 1 => a # O[k - 1]) => h[a] = heap[a]
  <2>1. CASE k = 1
    BY <1>1, <2>1 DEF SameHeaders
  <2>2. CASE k # 1
    <3> DEFINE a == O[k - 1]
               b == [heap[a] EXCEPT !.next = node]
    <3>1. a \in DOMAIN heap
      <4>1. k - 1 \in 1 .. n
        BY <1>1, <1>3, <2>2
      <4> QED
        BY <1>1, <4>1
    <3>2. heap[a] \in Blocks
      BY <1>1, <3>1 DEF HeapOK
    <3>3. /\ b \in Blocks /\ b.size = heap[a].size /\ b.counted = heap[a].counted
          /\ b.next = node /\ b.data = heap[a].data
      BY <1>5, <3>2 DEF Blocks
    <3>4. h = [heap EXCEPT ![a] = b]
      BY <2>2
    <3> HIDE DEF a, b, h
    <3>5. /\ HeapOK(h) /\ SameHeaders(heap, h) /\ DOMAIN h = DOMAIN heap /\ h[a] = b
          /\ \A c \in DOMAIN heap : c # a => h[c] = heap[c]
      BY <1>1, <3>1, <3>3, <3>4, ChangedIs
    <3> QED
      BY <2>2, <3>3, <3>5 DEF a
  <2> QED
    BY <2>1, <2>2
<1>7. heap' = With(h, node, block)
  BY <1>4
<1> HIDE DEF h
<1>8. HeapOK(heap') /\ SameHeaders(h, heap') /\ Allocated(h, heap', node, block)
  <2>1. node \in Nodes \ DOMAIN h
    BY <1>5, <1>6
  <2> HIDE DEF block
  <2> QED
    BY <1>5, <1>6, <1>7, <2>1, WithIs
<1>9. /\ SameHeaders(heap, heap') /\ DOMAIN heap' = DOMAIN heap \cup {node}
      /\ heap'[node] = block /\ \A a \in DOMAIN heap : heap'[a] = h[a]
  BY <1>6, <1>8 DEF SameHeaders, Allocated
<1>10. \A i \in 1 .. n : /\ O[i] \in DOMAIN heap'
                         /\ heap'[O[i]].next = IF i = k - 1 THEN node ELSE heap[O[i]].next
                         /\ heap'[O[i]].data = heap[O[i]].data
  <2> SUFFICES ASSUME NEW i \in 1 .. n
               PROVE  /\ O[i] \in DOMAIN heap'
                      /\ heap'[O[i]].next = IF i = k - 1 THEN node ELSE heap[O[i]].next
                      /\ heap'[O[i]].data = heap[O[i]].data
    OBVIOUS
  <2>1. O[i] \in DOMAIN heap /\ heap'[O[i]] = h[O[i]]
    BY <1>1, <1>9
  <2>2. CASE i = k - 1
    <3>1. k # 1
      BY <2>2
    <3> QED
      BY <1>6, <1>9, <2>1, <2>2, <3>1
  <2>3. CASE i # k - 1
    <3>1. k # 1 => k - 1 \in 1 .. n
      BY <1>1, <1>3
    <3>2. k # 1 => O[i] # O[k - 1]
      BY <1>1, <2>3, <3>1
    <3> QED
      BY <1>6, <1>9, <2>1, <2>3, <3>2
  <2> QED
    BY <2>2, <2>3
<1>11. Spliced(heap, heap', O, k, node)
  <2>1. node \in DOMAIN heap' /\ node \notin ToSet(O) /\ heap'[node].next = O[k]
    BY <1>1, <1>5, <1>9
  <2>2. k # Len(O) + 1
    BY <1>1, <1>3
  <2> QED
    BY <1>10, <2>1, <2>2 DEF Spliced
<1> DEFINE r == InsertAt(O, k, node)
<1>12. EndedChain(heap', r, ordered') /\ ToSet(r) = ToSet(O) \cup {node} /\ GainsAt(heap, O, heap', r, k, x)
  <2>1. heap'[node].data = x /\ \A i \in 1 .. Len(O) : heap'[O[i]].data = heap[O[i]].data
    BY <1>9, <1>10
  <2>2. node \in Nodes /\ k \in 1 .. Len(O)
    BY <1>3, <1>5
  <2>0. HeapOK(heap) /\ EndedChain(heap, O, ordered)
    BY <1>1
  <2>3. EndedChain(heap', r, [head |-> IF k = 1 THEN node ELSE ordered.head, n |-> ordered.n + 1])
        /\ ToSet(r) = ToSet(O) \cup {node} /\ GainsAt(heap, O, heap', r, k, x)
    BY <1>11, <2>0, <2>1, <2>2, EndedGrows
  <2> HIDE DEF r
  <2> QED
    BY <1>4, <2>3
<1>13. Sorted(DataIn(heap', r))
  <2> DEFINE d == DataIn(heap, O)
  <2>1. Len(d) = n /\ \A i \in 1 .. n : d[i] = heap[O[i]].data
    BY <1>1, DataIs
  <2>2. EndOnly(d) /\ Sorted(d)
    BY <1>1 DEF EndedChain
  <2>3. DataIn(heap', r) = InsertAt(d, k, x)
    BY <1>12 DEF GainsAt
  <2> HIDE DEF d, r
  <2>4. k \in 1 .. Len(d) /\ \A i \in 1 .. k - 1 : d[i] < x
    BY <1>1, <1>3, <2>1
  <2>5. k # Len(d) => d[k] >= x
    BY <1>3, <2>1
  <2> QED
    BY <2>2, <2>3, <2>4, <2>5, SortedInserts
<1> HIDE DEF r
<1>14. OrderedOK(heap', r, ordered')
  BY <1>12, <1>13 DEF OrderedOK
<1>15. MonitorOK(heap', monitor', L)
  <2>1. monitor' = [bytes_used |-> monitor.bytes_used + heap'[node].size, live |-> monitor.live + 1]
    BY <1>4, <1>9 DEF Monitored
  <2>2. node \notin DOMAIN heap /\ heap'[node].counted
    BY <1>5, <1>9
  <2> QED
    BY <1>1, <1>8, <1>9, <2>1, <2>2, MonitorAdds
<1>16. Replaced(heap, heap', O, r)
  <2>1. \A a \in DOMAIN heap \ ToSet(O) : heap'[a] = heap[a]
    <3> SUFFICES ASSUME NEW a \in DOMAIN heap \ ToSet(O) PROVE heap'[a] = heap[a]
      OBVIOUS
    <3>1. k # 1 => k - 1 \in 1 .. n
      BY <1>1, <1>3
    <3>2. k # 1 => a # O[k - 1]
      BY <1>1, <3>1
    <3> QED
      BY <1>6, <1>9, <3>2
  <2> QED
    BY <1>1, <1>5, <1>9, <1>12, <2>1 DEF Replaced
<1>17. Linked(L, D, r)'
  <2>1. UNCHANGED <<list, lifo, handles>>
    BY <1>0
  <2>2. HeapOK(heap')
    BY <1>8
  <2> QED
    BY <1>14, <1>15, <1>16, <2>1, <2>2, OrderedMoves
<1> QED
  BY <1>17

LEMMA OrderedRemoves ==
    ASSUME NEW L, NEW D, NEW O, Linked(L, D, O), NEW k \in 1 .. Len(O) - 1,
           OrderedRemove(O[k]), UNCHANGED <<lifo, list>>
    PROVE  /\ Linked(L, D, RemoveAt(O, k + 1))'
           /\ LosesAt(heap, O, heap', RemoveAt(O, k + 1), k)
<1> DEFINE n == Len(O)
           r == RemoveAt(O, k + 1)
           b == O[k + 1]
           F == {a \in {b} : heap[a].counted}
<1>1. /\ HeapOK(heap) /\ EndedChain(heap, O, ordered) /\ MonitorOK(heap, monitor, L)
      /\ Sorted(DataIn(heap, O)) /\ ToSet(O) \subseteq DOMAIN heap
  BY OrderedFacts
<1>2. /\ O \in Seq(DOMAIN heap) /\ n \in Nat
      /\ \A i, j \in 1 .. n : O[i] = O[j] => i = j
      /\ \A i \in 1 .. n : /\ O[i] \in DOMAIN heap /\ O[i] \in ToSet(O)
                           /\ heap[O[i]].next = IF i = n THEN NULL ELSE O[i + 1]
  BY OrderedFacts
<1>3. /\ k \in 1 .. n /\ k + 1 \in 1 .. n /\ k # n /\ heap[O[k]].next = b /\ b \in DOMAIN heap
      /\ b \in ToSet(O) /\ O[k] \in ToSet(O)
  BY <1>2
<1>4. /\ heap' = Without(Copied(heap, O[k], b), {b})
      /\ monitor' = [bytes_used |-> monitor.bytes_used - Bytes(heap, F),
                     live |-> monitor.live - Cardinality(F)]
      /\ ordered' = [ordered EXCEPT !.n = @ - 1]
      /\ handles' = handles
  BY <1>3 DEF OrderedRemove, Unmonitored
<1>5. /\ EndedChain(heap', r, ordered') /\ ToSet(r) = ToSet(O) \ {b}
      /\ LosesAt(heap, O, heap', r, k)
      /\ HeapOK(heap') /\ SameHeaders(heap, heap') /\ CopiedOver(heap, heap', O[k], b)
  <2>1. k \in 1 .. Len(O) - 1 /\ heap' = Removal(heap, O, k)
    BY <1>4 DEF Removal
  <2>2. ordered' = [ordered EXCEPT !.n = @ - 1]
    BY <1>4
  <2>3. HeapOK(heap) /\ EndedChain(heap, O, ordered)
    BY <1>1
  <2>4. HeapOK(heap')
    BY <2>1, <2>3, EndedCopies
  <2>5. EndedChain(heap', r, [ordered EXCEPT !.n = @ - 1])
    BY <2>1, <2>3, EndedCopies
  <2>6. ToSet(r) = ToSet(O) \ {b}
    BY <2>1, <2>3, EndedCopies
  <2>7. LosesAt(heap, O, heap', r, k)
    BY <2>1, <2>3, EndedCopies
  <2>8. SameHeaders(heap, heap') /\ CopiedOver(heap, heap', O[k], b)
    BY <2>1, <2>3, EndedCopies
  <2> QED
    BY <2>2, <2>4, <2>5, <2>6, <2>7, <2>8
<1>6. OrderedOK(heap', r, ordered')
  <2> DEFINE d == DataIn(heap, O)
  <2>1. Len(d) = n
    BY <1>2, <1>1, DataIs
  <2>2. EndOnly(d) /\ Sorted(d) /\ DataIn(heap', r) = RemoveAt(d, k)
    BY <1>1, <1>5 DEF EndedChain, LosesAt
  <2>3. k \in 1 .. Len(d) - 1
    BY <2>1
  <2> HIDE DEF d, r
  <2>4. Sorted(DataIn(heap', r))
    BY <2>2, <2>3, SortedRemoves
  <2> QED
    BY <1>5, <2>4 DEF OrderedOK
<1>7. DOMAIN heap' = DOMAIN heap \ {b} /\ \A c \in DOMAIN heap' : c # O[k] => heap'[c] = heap[c]
  BY <1>5 DEF CopiedOver
<1>8. MonitorOK(heap', monitor', L)
  <2>1. {b} \in SUBSET DOMAIN heap
    BY <1>3
  <2>2. \A a \in DOMAIN heap' : ~heap[a].counted => L # << >> /\ a = L[Len(L)]
    BY <1>1, <1>7 DEF MonitorOK
  <2> HIDE DEF r, b, n
  <2> QED
    BY <1>1, <1>4, <1>5, <1>7, <2>1, <2>2, MonitorDrops
<1>9. Replaced(heap, heap', O, r)
  <2> HIDE DEF r, b
  <2> QED
    BY <1>1, <1>3, <1>5, <1>7 DEF Replaced
<1> HIDE DEF r, n, b
<1>10. Linked(L, D, r)'
  BY <1>4, <1>5, <1>6, <1>8, <1>9, OrderedMoves
<1> QED
  BY <1>5, <1>10 DEF r

LEMMA OrderedDestroys ==
    ASSUME NEW L, NEW D, NEW O, Linked(L, D, O), ordered_list_destroy, UNCHANGED <<lifo, list>>
    PROVE  Linked(L, D, << >>)'
<1> DEFINE S == ToSet(O)
           F == {a \in S : heap[a].counted}
           r == << >>
<1>1. /\ heap' = Without(heap, S)
      /\ monitor' = [bytes_used |-> monitor.bytes_used - Bytes(heap, F),
                     live |-> monitor.live - Cardinality(F)]
      /\ ordered' = [head |-> NULL, n |-> 0]
      /\ handles' = handles
  BY ChainsAre DEF ordered_list_destroy, Unmonitored
<1>2. HeapOK(heap) /\ MonitorOK(heap, monitor, L) /\ S \subseteq DOMAIN heap
  BY OrderedFacts
<1> HIDE DEF S
<1>3. /\ HeapOK(heap') /\ SameHeaders(heap, heap') /\ DOMAIN heap' = DOMAIN heap \ S
      /\ \A a \in DOMAIN heap \ S : heap'[a] = heap[a]
  BY <1>1, <1>2, WithoutIs
<1>4. \A a \in DOMAIN heap' : ~heap[a].counted => L # << >> /\ a = L[Len(L)]
  BY <1>2, <1>3 DEF MonitorOK
<1>5. MonitorOK(heap', monitor', L)
  BY <1>1, <1>2, <1>3, <1>4, MonitorDrops
<1>6. OrderedOK(heap', r, ordered') /\ ToSet(r) = {}
  BY <1>1, EndedEmpty DEF OrderedOK
<1> HIDE DEF r
<1>7. Replaced(heap, heap', O, r)
  BY <1>3, <1>6 DEF S, Replaced
<1>8. Linked(L, D, r)'
  BY <1>1, <1>3, <1>5, <1>6, <1>7, OrderedMoves
<1> QED
  BY <1>8 DEF r

-----------------------------------------------------------------------------
(***************************************************************************)
(* The doubly linked list                                                  *)
(***************************************************************************)
LEMMA ListFacts ==
    ASSUME NEW L, NEW D, NEW O, Linked(L, D, O)
    PROVE  /\ HeapOK(heap) /\ ListOK(heap, D, list) /\ MonitorOK(heap, monitor, L)
           /\ HandlesOK(heap, handles, D) /\ IsChain(heap, D, list.head)
           /\ list \in [head : Slots, tail : Slots, n : Nat] /\ list.n = Len(D)
           /\ list.head = IF D = << >> THEN NULL ELSE D[1]
           /\ list.tail = IF D = << >> THEN NULL ELSE D[Len(D)]
           /\ D \in Seq(DOMAIN heap) /\ Len(D) \in Nat /\ ToSet(D) \subseteq DOMAIN heap
           /\ D = << >> <=> Len(D) = 0
           /\ \A i, j \in 1 .. Len(D) : D[i] = D[j] => i = j
           /\ \A i \in 1 .. Len(D) : /\ D[i] \in DOMAIN heap /\ D[i] \in ToSet(D) /\ D[i] \in Nodes
                                     /\ heap[D[i]].next = IF i = Len(D) THEN NULL ELSE D[i + 1]
                                     /\ heap[D[i]].prev = IF i = 1 THEN NULL ELSE D[i - 1]
                                     /\ heap[D[i]].data \in Data
<1>1. /\ HeapOK(heap) /\ ListOK(heap, D, list) /\ MonitorOK(heap, monitor, L)
      /\ HandlesOK(heap, handles, D)
  BY DEF Linked
<1>2. /\ IsChain(heap, D, list.head)
      /\ list \in [head : Slots, tail : Slots, n : Nat] /\ list.n = Len(D)
      /\ list.tail = IF D = << >> THEN NULL ELSE D[Len(D)]
      /\ DataIn(heap, D) \in Seq(Data)
      /\ \A i \in 1 .. Len(D) : heap[D[i]].prev = IF i = 1 THEN NULL ELSE D[i - 1]
  BY <1>1 DEF ListOK
<1>3. /\ list.head = IF D = << >> THEN NULL ELSE D[1]
      /\ \A i, j \in 1 .. Len(D) : D[i] = D[j] => i = j
      /\ \A i \in 1 .. Len(D) : heap[D[i]].next = IF i = Len(D) THEN NULL ELSE D[i + 1]
  BY <1>2 DEF IsChain
<1>4. /\ D \in Seq(DOMAIN heap) /\ ToSet(D) \subseteq DOMAIN heap
      /\ \A i \in 1 .. Len(D) : D[i] \in ToSet(D)
      /\ D = << >> <=> Len(D) = 0
  BY <1>2, ChainNodes
<1>5. \A i \in 1 .. Len(D) : D[i] \in DOMAIN heap /\ D[i] \in Nodes
  BY <1>1, <1>4 DEF HeapOK
<1>6. \A i \in 1 .. Len(D) : heap[D[i]].data \in Data
  <2>1. Len(DataIn(heap, D)) = Len(D) /\ \A i \in 1 .. Len(D) : DataIn(heap, D)[i] = heap[D[i]].data
    BY <1>1, <1>4, DataIs
  <2> QED
    BY <1>2, <2>1
<1>7. Len(D) \in Nat
  BY <1>4
<1> QED
  BY <1>1, <1>2, <1>3, <1>4, <1>5, <1>6, <1>7

\* The node with x is linked in both ways before the k-th one, and counted.
Attached(h, g, s, k, node, x) ==
    /\ Spliced(h, g, s, k, node)
    /\ node \in Nodes \ DOMAIN h /\ DOMAIN g = DOMAIN h \cup {node}
    /\ g[node].prev = IF k = 1 THEN NULL ELSE s[k - 1]
    /\ g[node].data = x /\ g[node].counted
    /\ \A i \in 1 .. Len(s) : /\ g[s[i]].prev = IF i = k THEN node ELSE h[s[i]].prev
                              /\ g[s[i]].data = h[s[i]].data
    /\ \A a \in DOMAIN h \ ToSet(s) : g[a] = h[a]

\* The structure of the list after that.
WithNode(st, s, k, node) ==
    [head |-> IF k = 1 THEN node ELSE st.head,
     tail |-> IF k = Len(s) + 1 THEN node ELSE st.tail,
     n |-> st.n + 1]

LEMMA ListAttaches ==
    ASSUME NEW L, NEW D, NEW O, Linked(L, D, O), UNCHANGED <<lifo, ordered>>,
           NEW node, NEW x \in Data, NEW k \in 1 .. Len(D) + 1,
           Attached(heap, heap', D, k, node, x), HeapOK(heap'), SameHeaders(heap, heap'),
           list' = WithNode(list, D, k, node), list_create_new_node(node, x)
    PROVE  \E r : Linked(L, r, O)'
<1> DEFINE n == Len(D)
           r == InsertAt(D, k, node)
           T == DOMAIN heap \cup {node}
<1>1. /\ HeapOK(heap) /\ MonitorOK(heap, monitor, L)
      /\ HandlesOK(heap, handles, D) /\ IsChain(heap, D, list.head)
      /\ list \in [head : Slots, tail : Slots, n : Nat] /\ list.n = n
      /\ list.tail = IF D = << >> THEN NULL ELSE D[n]
      /\ D \in Seq(DOMAIN heap) /\ n \in Nat /\ ToSet(D) \subseteq DOMAIN heap
      /\ D = << >> <=> n = 0
  BY ListFacts
<1>2. \A i \in 1 .. n : /\ D[i] \in DOMAIN heap /\ D[i] \in ToSet(D)
                        /\ heap[D[i]].prev = IF i = 1 THEN NULL ELSE D[i - 1]
                        /\ heap[D[i]].data \in Data
  BY ListFacts
<1>3. /\ Spliced(heap, heap', D, k, node)
      /\ node \in Nodes \ DOMAIN heap /\ DOMAIN heap' = DOMAIN heap \cup {node}
      /\ heap'[node].prev = IF k = 1 THEN NULL ELSE D[k - 1]
      /\ heap'[node].data = x /\ heap'[node].counted
      /\ \A i \in 1 .. n : /\ heap'[D[i]].prev = IF i = k THEN node ELSE heap[D[i]].prev
                           /\ heap'[D[i]].data = heap[D[i]].data
      /\ \A a \in DOMAIN heap \ ToSet(D) : heap'[a] = heap[a]
  BY DEF Attached
<1>4. list'.head = (IF k = 1 THEN node ELSE list.head)
      /\ list'.tail = (IF k = n + 1 THEN node ELSE list.tail)
      /\ list'.n = n + 1 /\ list' \in [head : Slots, tail : Slots, n : Nat]
  BY <1>1, <1>3 DEF WithNode, Slots
<1>5. IsChain(heap', r, list'.head) /\ ToSet(r) = ToSet(D) \cup {node}
  BY <1>1, <1>3, <1>4, ChainInserts
<1>6. /\ r \in Seq(T) /\ Len(r) = n + 1
      /\ \A i \in 1 .. n + 1 : r[i] = IF i < k THEN D[i] ELSE IF i = k THEN node ELSE D[i - 1]
  <2>1. D \in Seq(T) /\ node \in T
    BY <1>1, SeqWithin
  <2> HIDE DEF T
  <2> QED
    BY <2>1, InsertAtIs
<1>7. k \in 1 .. n + 1
  OBVIOUS
<1> HIDE DEF r, n
<1>8. \A i \in 1 .. n + 1 : /\ i < k => i \in 1 .. n
                            /\ i > k => i - 1 \in 1 .. n
                            /\ i < k \/ i = k \/ i > k
  BY <1>1, <1>7
<1>9. ASSUME NEW i \in 1 .. n + 1 PROVE heap'[r[i]].prev = IF i = 1 THEN NULL ELSE r[i - 1]
  <2>1. i # 1 => i - 1 \in 1 .. n + 1
    BY <1>1
  <2>2. CASE i < k
    <3>1. i \in 1 .. n /\ i # k /\ r[i] = D[i] /\ (i # 1 => r[i - 1] = D[i - 1])
      BY <1>1, <1>6, <1>7, <1>8, <2>1, <2>2
    <3> QED
      BY <1>2, <1>3, <3>1
  <2>3. CASE i = k
    <3>1. r[i] = node /\ (i # 1 => r[i - 1] = D[k - 1])
      BY <1>1, <1>6, <1>7, <2>1, <2>3
    <3> QED
      BY <1>3, <2>3, <3>1
  <2>4. CASE i > k
    <3>1. i - 1 \in 1 .. n /\ r[i] = D[i - 1] /\ i # 1
      BY <1>1, <1>6, <1>7, <1>8, <2>4
    <3>2. CASE i - 1 = k
      <4>1. r[i - 1] = node
        BY <1>6, <2>1, <3>1, <3>2
      <4> QED
        BY <1>3, <3>1, <3>2, <4>1
    <3>3. CASE i - 1 # k
      <4>1. r[i - 1] = D[i - 1 - 1] /\ i - 1 # 1
        BY <1>1, <1>6, <1>7, <2>1, <2>4, <3>1, <3>3
      <4>2. heap[D[i - 1]].prev = D[i - 1 - 1]
        BY <1>2, <3>1, <4>1
      <4> QED
        BY <1>3, <3>1, <3>3, <4>1, <4>2
    <3> QED
      BY <3>2, <3>3
  <2> QED
    BY <1>8, <2>2, <2>3, <2>4
<1>10. DataIn(heap', r) \in Seq(Data)
  <2>1. \A i \in 1 .. n + 1 : heap'[r[i]].data \in Data
    <3> SUFFICES ASSUME NEW i \in 1 .. n + 1 PROVE heap'[r[i]].data \in Data
      OBVIOUS
    <3>1. CASE i = k
      <4>1. r[i] = node
        BY <1>6, <3>1
      <4> QED
        BY <1>3, <4>1
    <3>2. CASE i < k
      <4>1. r[i] = D[i] /\ i \in 1 .. n
        BY <1>6, <1>8, <3>2
      <4> QED
        BY <1>2, <1>3, <4>1
    <3>3. CASE i > k
      <4>1. r[i] = D[i - 1] /\ i - 1 \in 1 .. n
        BY <1>6, <1>7, <1>8, <3>3
      <4> QED
        BY <1>2, <1>3, <4>1
    <3> QED
      BY <1>8, <3>1, <3>2, <3>3
  <2>2. n + 1 \in Nat
    BY <1>1
  <2> QED
    BY <1>6, <2>1, <2>2 DEF DataIn
<1>11. r # << >> /\ list'.tail = r[n + 1]
  <2>1. n + 1 \in 1 .. n + 1 /\ n + 1 # 0
    BY <1>1
  <2>2. r # << >>
    BY <1>6, <2>1
  <2>3. CASE k = n + 1
    BY <1>4, <1>6, <2>1, <2>2, <2>3
  <2>4. CASE k # n + 1
    <3>1. ~(n + 1 < k) /\ n + 1 # k /\ n + 1 - 1 = n /\ n # 0
      BY <1>1, <1>7, <2>4
    <3>2. r[n + 1] = D[n]
      <4>1. \A i \in 1 .. n + 1 : i > k => r[i] = D[i - 1]
        <5> SUFFICES ASSUME NEW i \in 1 .. n + 1, i > k PROVE r[i] = D[i - 1]
          OBVIOUS
        <5>1. ~(i < k) /\ i # k
          BY <1>7
        <5> QED
          BY <1>6, <5>1
      <4>2. n + 1 > k
        BY <1>1, <1>7, <2>4
      <4>3. n \in Nat /\ k \in 1 .. n + 1
        BY <1>1, <1>7
      <4>4. r[n + 1] = D[n + 1 - 1]
        BY <2>1, <4>1, <4>2, <4>3
      <4> QED
        BY <3>1, <4>4
    <3> QED
      BY <1>1, <1>4, <2>2, <2>4, <3>1, <3>2
  <2> QED
    BY <2>3, <2>4
<1>12. ListOK(heap', r, list')
  <2>1. ListMax # 0 => list'.n <= ListMax
    <3>1. ListMax # 0 => n < ListMax
      BY <1>1 DEF list_create_new_node
    <3> QED
      BY <1>1, <1>4, <3>1, ListMaxAssumption
  <2> QED
    BY <1>4, <1>5, <1>6, <1>9, <1>10, <1>11, <2>1 DEF ListOK
<1>13. MonitorOK(heap', monitor', L)
  <2>1. monitor' = [bytes_used |-> monitor.bytes_used + heap'[node].size, live |-> monitor.live + 1]
    BY <1>3 DEF Monitored, list_create_new_node
  <2>2. node \notin DOMAIN heap /\ DOMAIN heap' = DOMAIN heap \cup {node} /\ heap'[node].counted
    BY <1>3
  <2> QED
    BY <1>1, <2>1, <2>2, MonitorAdds
<1>14. Replaced(heap, heap', D, r)
  BY <1>1, <1>3, <1>5 DEF Replaced
<1>15. HandlesOK(heap', handles', r)
  <2> SUFFICES ASSUME NEW y \in handles'
               PROVE  /\ y \in {"lifo", "list"} \X Nodes \X Data
                      /\ y[1] = "list" => y[2] \in ToSet(r) /\ heap'[y[2]].data = y[3]
    BY DEF HandlesOK
  <2>1. CASE y = <<"list", node, x>>
    BY <1>3, <1>5, <2>1
  <2>2. CASE y # <<"list", node, x>>
    <3>1. y \in handles
      BY <2>2 DEF Given, list_create_new_node
    <3>2. /\ y \in {"lifo", "list"} \X Nodes \X Data
          /\ y[1] = "list" => y[2] \in ToSet(D) /\ heap[y[2]].data = y[3]
      BY <1>1, <3>1 DEF HandlesOK
    <3>3. ASSUME y[1] = "list" PROVE heap'[y[2]].data = y[3]
      <4>1. PICK i \in 1 .. n : D[i] = y[2]
        BY <1>1, <3>2, <3>3, ChainNodes DEF n
      <4> QED
        BY <1>3, <3>2, <3>3, <4>1
    <3> QED
      BY <1>5, <3>2, <3>3
  <2> QED
    BY <2>1, <2>2
<1>16. Linked(L, r, O)'
  BY <1>12, <1>13, <1>14, <1>15, ListMoves
<1> QED
  BY <1>16

LEMMA ListPrepends ==
    ASSUME NEW L, NEW D, NEW O, Linked(L, D, O), NEW x \in Data, list_prepend_data(x),
           UNCHANGED <<lifo, ordered>>
    PROVE  \E r : Linked(L, r, O)'
<1> DEFINE n == Len(D)
           h(node) == IF n = 0 THEN heap ELSE [heap EXCEPT ![list.head].prev = node]
           next == IF n = 0 THEN NULL ELSE list.head
<1>1. /\ HeapOK(heap) /\ list \in [head : Slots, tail : Slots, n : Nat] /\ list.n = n
      /\ list.head = IF D = << >> THEN NULL ELSE D[1]
      /\ D \in Seq(DOMAIN heap) /\ n \in Nat /\ ToSet(D) \subseteq DOMAIN heap
      /\ D = << >> <=> n = 0
      /\ \A i, j \in 1 .. n : D[i] = D[j] => i = j
      /\ \A i \in 1 .. n : D[i] \in DOMAIN heap /\ D[i] \in ToSet(D) /\ D[i] \in Nodes
  BY ListFacts
<1>2. PICK node \in Unallocated :
         /\ heap' = With(h(node), node, ListBlock(next, NULL, x))
         /\ list' = WithNode(list, D, 1, node)
         /\ list_create_new_node(node, x)
  <2>1. PICK node \in Unallocated :
          /\ IF list.n = 0
             THEN /\ heap' = With(heap, node, ListBlock(NULL, NULL, x))
                  /\ list' = [head |-> node, tail |-> node, n |-> 1]
             ELSE /\ heap' = With([heap EXCEPT ![list.head].prev = node], node,
                                  ListBlock(list.head, NULL, x))
                  /\ list' = [list EXCEPT !.head = node, !.n = @ + 1]
          /\ list_create_new_node(node, x)
    BY DEF list_prepend_data
  <2>2. CASE n = 0
    BY <1>1, <2>1, <2>2 DEF WithNode
  <2>3. CASE n # 0
    <3>1. list' = [list EXCEPT !.head = node, !.n = @ + 1] /\ 1 # n + 1
      BY <1>1, <2>1, <2>3
    <3>2. list' = WithNode(list, D, 1, node)
      BY <1>1, <3>1 DEF WithNode
    <3> QED
      BY <1>1, <2>1, <2>3, <3>2
  <2> QED
    BY <2>2, <2>3
<1> DEFINE block == ListBlock(next, NULL, x)
           f == h(node)
<1>3. n # 0 => 1 \in 1 .. n /\ list.head = D[1] /\ D[1] \in DOMAIN heap
  BY <1>1
<1>4. /\ node \in Nodes \ DOMAIN heap /\ block \in Blocks
      /\ block.next = next /\ block.prev = NULL /\ block.data = x /\ block.counted
  BY <1>1, <1>3 DEF Unallocated, ListBlock, Blocks, SizeOf, Range
<1>5. /\ HeapOK(f) /\ SameHeaders(heap, f) /\ DOMAIN f = DOMAIN heap
      /\ n # 0 => f[D[1]].prev = node /\ f[D[1]].next = heap[D[1]].next /\ f[D[1]].data = heap[D[1]].data
      /\ \A a \in DOMAIN heap : (n # 0 => a # D[1]) => f[a] = heap[a]
  <2>1. CASE n = 0
    BY <1>1, <2>1 DEF SameHeaders
  <2>2. CASE n # 0
    <3> DEFINE a == D[1]
               b == [heap[a] EXCEPT !.prev = node]
    <3>1. a \in DOMAIN heap /\ list.head = a
      BY <1>3, <2>2
    <3>2. heap[a] \in Blocks
      BY <1>1, <3>1 DEF HeapOK
    <3>3. /\ b \in Blocks /\ b.size = heap[a].size /\ b.counted = heap[a].counted
          /\ b.prev = node /\ b.next = heap[a].next /\ b.data = heap[a].data
      BY <1>4, <3>2 DEF Blocks
    <3>4. f = [heap EXCEPT ![a] = b]
      BY <2>2, <3>1
    <3> HIDE DEF a, b, f
    <3>5. /\ HeapOK(f) /\ SameHeaders(heap, f) /\ DOMAIN f = DOMAIN heap /\ f[a] = b
          /\ \A c \in DOMAIN heap : c # a => f[c] = heap[c]
      BY <1>1, <3>1, <3>3, <3>4, ChangedIs
    <3> QED
      BY <2>2, <3>3, <3>5 DEF a
  <2> QED
    BY <2>1, <2>2
<1>6. heap' = With(f, node, block)
  BY <1>2
<1> HIDE DEF f, block
<1>7. HeapOK(heap') /\ SameHeaders(f, heap') /\ Allocated(f, heap', node, block)
  <2>1. node \in Nodes \ DOMAIN f
    BY <1>4, <1>5
  <2> QED
    BY <1>4, <1>5, <1>6, <2>1, WithIs
<1>8. /\ SameHeaders(heap, heap') /\ DOMAIN heap' = DOMAIN heap \cup {node}
      /\ heap'[node] = block /\ \A a \in DOMAIN heap : heap'[a] = f[a]
  BY <1>5, <1>7 DEF SameHeaders, Allocated
<1>9. \A i \in 1 .. n : /\ D[i] \in DOMAIN heap'
                        /\ heap'[D[i]].next = heap[D[i]].next
                        /\ heap'[D[i]].prev = IF i = 1 THEN node ELSE heap[D[i]].prev
                        /\ heap'[D[i]].data = heap[D[i]].data
  <2> SUFFICES ASSUME NEW i \in 1 .. n
               PROVE  /\ D[i] \in DOMAIN heap'
                      /\ heap'[D[i]].next = heap[D[i]].next
                      /\ heap'[D[i]].prev = IF i = 1 THEN node ELSE heap[D[i]].prev
                      /\ heap'[D[i]].data = heap[D[i]].data
    OBVIOUS
  <2>1. n # 0 /\ 1 \in 1 .. n
    BY <1>1
  <2>2. D[i] \in DOMAIN heap /\ heap'[D[i]] = f[D[i]]
    BY <1>1, <1>8
  <2>3. CASE i = 1
    BY <1>5, <1>8, <2>1, <2>2, <2>3
  <2>4. CASE i # 1
    <3>1. D[i] # D[1]
      BY <1>1, <2>1, <2>4
    <3> QED
      BY <1>5, <1>8, <2>2, <2>4, <3>1
  <2> QED
    BY <2>3, <2>4
<1>10. \A a \in DOMAIN heap \ ToSet(D) : heap'[a] = heap[a]
  <2>1. n # 0 => D[1] \in ToSet(D)
    BY <1>1, <1>3
  <2> QED
    BY <1>5, <1>8, <2>1
<1>11. Spliced(heap, heap', D, 1, node)
  <2>1. node \in DOMAIN heap' /\ node \notin ToSet(D)
    BY <1>1, <1>4, <1>8
  <2>2. heap'[node].next = IF 1 = Len(D) + 1 THEN NULL ELSE D[1]
    BY <1>1, <1>3, <1>4, <1>8
  <2>3. \A i \in 1 .. Len(D) : i # 1 - 1
    OBVIOUS
  <2> QED
    BY <1>9, <2>1, <2>2, <2>3 DEF Spliced
<1>12. Attached(heap, heap', D, 1, node, x)
  BY <1>4, <1>8, <1>9, <1>10, <1>11 DEF Attached
<1>13. 1 \in 1 .. Len(D) + 1
  BY <1>1
<1> QED
  BY <1>2, <1>7, <1>8, <1>12, <1>13, ListAttaches

LEMMA ListAppends ==
    ASSUME NEW L, NEW D, NEW O, Linked(L, D, O), NEW x \in Data, list_append_data(x),
           UNCHANGED <<lifo, ordered>>
    PROVE  \E r : Linked(L, r, O)'
<1> DEFINE n == Len(D)
           h(node) == IF n = 0 THEN heap ELSE [heap EXCEPT ![list.tail].next = node]
           prev == IF n = 0 THEN NULL ELSE list.tail
<1>1. /\ HeapOK(heap) /\ list \in [head : Slots, tail : Slots, n : Nat] /\ list.n = n
      /\ list.tail = IF D = << >> THEN NULL ELSE D[n]
      /\ D \in Seq(DOMAIN heap) /\ n \in Nat /\ ToSet(D) \subseteq DOMAIN heap
      /\ D = << >> <=> n = 0
      /\ \A i, j \in 1 .. n : D[i] = D[j] => i = j
      /\ \A i \in 1 .. n : D[i] \in DOMAIN heap /\ D[i] \in ToSet(D) /\ D[i] \in Nodes
  BY ListFacts
<1>2. PICK node \in Unallocated :
         /\ heap' = With(h(node), node, ListBlock(NULL, prev, x))
         /\ list' = WithNode(list, D, n + 1, node)
         /\ list_create_new_node(node, x)
  <2>1. PICK node \in Unallocated :
          /\ IF list.n = 0
             THEN /\ heap' = With(heap, node, ListBlock(NULL, NULL, x))
                  /\ list' = [head |-> node, tail |-> node, n |-> 1]
             ELSE /\ heap' = With([heap EXCEPT ![list.tail].next = node], node,
                                  ListBlock(NULL, list.tail, x))
                  /\ list' = [list EXCEPT !.tail = node, !.n = @ + 1]
          /\ list_create_new_node(node, x)
    BY DEF list_append_data
  <2>2. CASE n = 0
    BY <1>1, <2>1, <2>2 DEF WithNode
  <2>3. CASE n # 0
    <3>1. list' = [list EXCEPT !.tail = node, !.n = @ + 1] /\ 1 # n + 1
      BY <1>1, <2>1, <2>3
    <3>2. list' = WithNode(list, D, n + 1, node)
      BY <1>1, <3>1 DEF WithNode
    <3> QED
      BY <1>1, <2>1, <2>3, <3>2
  <2> QED
    BY <2>2, <2>3
<1> DEFINE block == ListBlock(NULL, prev, x)
           f == h(node)
<1>3. n # 0 => n \in 1 .. n /\ list.tail = D[n] /\ D[n] \in DOMAIN heap
  BY <1>1
<1>4. /\ node \in Nodes \ DOMAIN heap /\ block \in Blocks
      /\ block.next = NULL /\ block.prev = prev /\ block.data = x /\ block.counted
  BY <1>1, <1>3 DEF Unallocated, ListBlock, Blocks, SizeOf, Range
<1>5. /\ HeapOK(f) /\ SameHeaders(heap, f) /\ DOMAIN f = DOMAIN heap
      /\ n # 0 => f[D[n]].next = node /\ f[D[n]].prev = heap[D[n]].prev /\ f[D[n]].data = heap[D[n]].data
      /\ \A a \in DOMAIN heap : (n # 0 => a # D[n]) => f[a] = heap[a]
  <2>1. CASE n = 0
    BY <1>1, <2>1 DEF SameHeaders
  <2>2. CASE n # 0
    <3> DEFINE a == D[n]
               b == [heap[a] EXCEPT !.next = node]
    <3>1. a \in DOMAIN heap /\ list.tail = a
      BY <1>3, <2>2
    <3>2. heap[a] \in Blocks
      BY <1>1, <3>1 DEF HeapOK
    <3>3. /\ b \in Blocks /\ b.size = heap[a].size /\ b.counted = heap[a].counted
          /\ b.next = node /\ b.prev = heap[a].prev /\ b.data = heap[a].data
      BY <1>4, <3>2 DEF Blocks
    <3>4. f = [heap EXCEPT ![a] = b]
      BY <2>2, <3>1
    <3> HIDE DEF a, b, f
    <3>5. /\ HeapOK(f) /\ SameHeaders(heap, f) /\ DOMAIN f = DOMAIN heap /\ f[a] = b
          /\ \A c \in DOMAIN heap : c # a => f[c] = heap[c]
      BY <1>1, <3>1, <3>3, <3>4, ChangedIs
    <3> QED
      BY <2>2, <3>3, <3>5 DEF a
  <2> QED
    BY <2>1, <2>2
<1>6. heap' = With(f, node, block)
  BY <1>2
<1> HIDE DEF f, block
<1>7. HeapOK(heap') /\ SameHeaders(f, heap') /\ Allocated(f, heap', node, block)
  <2>1. node \in Nodes \ DOMAIN f
    BY <1>4, <1>5
  <2> QED
    BY <1>4, <1>5, <1>6, <2>1, WithIs
<1>8. /\ SameHeaders(heap, heap') /\ DOMAIN heap' = DOMAIN heap \cup {node}
      /\ heap'[node] = block /\ \A a \in DOMAIN heap : heap'[a] = f[a]
  BY <1>5, <1>7 DEF SameHeaders, Allocated
<1>9. \A i \in 1 .. n : /\ D[i] \in DOMAIN heap'
                        /\ heap'[D[i]].next = IF i = n THEN node ELSE heap[D[i]].next
                        /\ heap'[D[i]].prev = heap[D[i]].prev
                        /\ heap'[D[i]].data = heap[D[i]].data
  <2> SUFFICES ASSUME NEW i \in 1 .. n
               PROVE  /\ D[i] \in DOMAIN heap'
                      /\ heap'[D[i]].next = IF i = n THEN node ELSE heap[D[i]].next
                      /\ heap'[D[i]].prev = heap[D[i]].prev
                      /\ heap'[D[i]].data = heap[D[i]].data
    OBVIOUS
  <2>1. n # 0 /\ n \in 1 .. n
    BY <1>1
  <2>2. D[i] \in DOMAIN heap /\ heap'[D[i]] = f[D[i]]
    BY <1>1, <1>8
  <2>3. CASE i = n
    BY <1>5, <1>8, <2>1, <2>2, <2>3
  <2>4. CASE i # n
    <3>1. D[i] # D[n]
      BY <1>1, <2>1, <2>4
    <3> QED
      BY <1>5, <1>8, <2>2, <2>4, <3>1
  <2> QED
    BY <2>3, <2>4
<1>10. \A a \in DOMAIN heap \ ToSet(D) : heap'[a] = heap[a]
  <2>1. n # 0 => D[n] \in ToSet(D)
    BY <1>1, <1>3
  <2> QED
    BY <1>5, <1>8, <2>1
<1> DEFINE k == n + 1
<1>11. k \in 1 .. Len(D) + 1 /\ k - 1 = n /\ (k = 1 <=> n = 0) /\ \A i \in 1 .. n : i # k
  BY <1>1
<1>12. Spliced(heap, heap', D, k, node)
  <2>1. node \in DOMAIN heap' /\ node \notin ToSet(D)
    BY <1>1, <1>4, <1>8
  <2>2. heap'[node].next = NULL /\ k = Len(D) + 1
    BY <1>4, <1>8
  <2>3. \A i \in 1 .. Len(D) : /\ D[i] \in DOMAIN heap'
                               /\ heap'[D[i]].next = IF i = k - 1 THEN node ELSE heap[D[i]].next
    BY <1>9, <1>11
  <2> HIDE DEF k
  <2> QED
    BY <2>1, <2>2, <2>3 DEF Spliced
<1>13. Attached(heap, heap', D, k, node, x)
  <2>1. heap'[node].prev = IF k = 1 THEN NULL ELSE D[k - 1]
    BY <1>3, <1>4, <1>8, <1>11
  <2>2. \A i \in 1 .. Len(D) : /\ heap'[D[i]].prev = IF i = k THEN node ELSE heap[D[i]].prev
                               /\ heap'[D[i]].data = heap[D[i]].data
    BY <1>9, <1>11
  <2>3. heap'[node].data = x /\ heap'[node].counted
    BY <1>4, <1>8
  <2> HIDE DEF k
  <2> QED
    BY <1>4, <1>8, <1>10, <1>12, <2>1, <2>2, <2>3 DEF Attached
<1>14. list' = WithNode(list, D, k, node) /\ list_create_new_node(node, x)
  BY <1>2
<1> HIDE DEF k
<1> QED
  BY <1>7, <1>8, <1>11, <1>13, <1>14, ListAttaches

LEMMA ListRemoves ==
    ASSUME NEW L, NEW D, NEW O, Linked(L, D, O), NEW k \in 1 .. Len(D),
           ListRemove(D[k]), UNCHANGED <<lifo, ordered>>
    PROVE  /\ Linked(L, RemoveAt(D, k), O)'
           /\ LosesAt(heap, D, heap', RemoveAt(D, k), k)
<1> DEFINE n == Len(D)
           r == RemoveAt(D, k)
           node == D[k]
           next == IF k = n THEN NULL ELSE D[k + 1]
           prev == IF k = 1 THEN NULL ELSE D[k - 1]
           bypass == {a \in {next, prev} : a # NULL}
           around == [a \in DOMAIN heap |->
                        IF a \in bypass
                        THEN IF a = prev THEN [heap[a] EXCEPT !.next = next]
                             ELSE [heap[a] EXCEPT !.prev = prev]
                        ELSE heap[a]]
           F == {a \in {node} : heap[a].counted}
<1>1. /\ HeapOK(heap) /\ ListOK(heap, D, list) /\ MonitorOK(heap, monitor, L)
      /\ HandlesOK(heap, handles, D) /\ IsChain(heap, D, list.head)
      /\ list \in [head : Slots, tail : Slots, n : Nat] /\ list.n = n
      /\ list.tail = IF D = << >> THEN NULL ELSE D[n]
      /\ D \in Seq(DOMAIN heap) /\ n \in Nat /\ ToSet(D) \subseteq DOMAIN heap
      /\ D = << >> <=> n = 0
      /\ \A i, j \in 1 .. n : D[i] = D[j] => i = j
  BY ListFacts
<1>2. \A i \in 1 .. n : /\ D[i] \in DOMAIN heap /\ D[i] \in ToSet(D) /\ D[i] \in Nodes
                        /\ heap[D[i]].next = IF i = n THEN NULL ELSE D[i + 1]
                        /\ heap[D[i]].prev = IF i = 1 THEN NULL ELSE D[i - 1]
                        /\ heap[D[i]].data \in Data
  BY ListFacts
<1>3. /\ k \in 1 .. n /\ (k # n => k + 1 \in 1 .. n) /\ (k # 1 => k - 1 \in 1 .. n) /\ k + 1 # k /\ k - 1 # k
      /\ k + 1 # k - 1
  BY <1>1
<1>4. /\ node \in DOMAIN heap /\ node \in ToSet(D)
      /\ heap[node].next = next /\ heap[node].prev = prev
      /\ next \in Slots /\ prev \in Slots
  BY <1>2, <1>3 DEF Slots
<1>5. /\ heap' = Without(around, {node})
      /\ list' = [head |-> IF prev = NULL THEN next ELSE list.head,
                  tail |-> IF next = NULL THEN prev ELSE list.tail,
                  n |-> n - 1]
      /\ monitor' = [bytes_used |-> monitor.bytes_used - Bytes(heap, F),
                     live |-> monitor.live - Cardinality(F)]
      /\ handles' = {h \in handles : ~(h[1] = "list" /\ h[2] \in {node})}
  BY <1>1, <1>4 DEF ListRemove, Unmonitored, Forgotten
<1>6. NULL \notin DOMAIN heap
  BY <1>1, DataAssumption DEF HeapOK
<1>7. (prev = NULL <=> k = 1) /\ (next = NULL <=> k = n)
  BY <1>2, <1>3, <1>6
<1>8. \A i \in 1 .. n : i # k =>
        around[D[i]] = IF i = k - 1 THEN [heap[D[i]] EXCEPT !.next = next]
                       ELSE IF i = k + 1 THEN [heap[D[i]] EXCEPT !.prev = prev]
                       ELSE heap[D[i]]
  <2> SUFFICES ASSUME NEW i \in 1 .. n, i # k
               PROVE  around[D[i]] = IF i = k - 1 THEN [heap[D[i]] EXCEPT !.next = next]
                                     ELSE IF i = k + 1 THEN [heap[D[i]] EXCEPT !.prev = prev]
                                     ELSE heap[D[i]]
    OBVIOUS
  <2>1. D[i] \in DOMAIN heap /\ D[i] # NULL
    BY <1>2, <1>6
  <2>2. D[i] = prev <=> i = k - 1
    <3>1. k # 1 => (D[i] = D[k - 1] <=> i = k - 1)
      BY <1>1, <1>3
    <3>2. k = 1 => i # k - 1
      OBVIOUS
    <3> QED
      BY <2>1, <3>1, <3>2
  <2>3. D[i] = next <=> i = k + 1
    <3>1. k # n => (D[i] = D[k + 1] <=> i = k + 1)
      BY <1>1, <1>3
    <3>2. k = n => i # k + 1
      BY <1>1
    <3> QED
      BY <2>1, <3>1, <3>2
  <2> HIDE DEF next, prev
  <2>4. D[i] \in bypass <=> i = k - 1 \/ i = k + 1
    BY <2>1, <2>2, <2>3
  <2> HIDE DEF bypass
  <2> QED
    BY <2>1, <2>2, <2>4
<1>9. \A a \in DOMAIN heap \ ToSet(D) : around[a] = heap[a]
  <2> SUFFICES ASSUME NEW a \in DOMAIN heap \ ToSet(D) PROVE around[a] = heap[a]
    OBVIOUS
  <2>1. a \notin bypass
    BY <1>2, <1>3
  <2> HIDE DEF bypass
  <2> QED
    BY <2>1
<1>10. HeapOK(around) /\ SameHeaders(heap, around) /\ DOMAIN around = DOMAIN heap
  <2>1. DOMAIN around = DOMAIN heap
    OBVIOUS
  <2>2. ASSUME NEW a \in DOMAIN heap
        PROVE  around[a] \in Blocks /\ around[a].size = heap[a].size
               /\ around[a].counted = heap[a].counted
    <3>1. heap[a] \in Blocks
      BY <1>1 DEF HeapOK
    <3>2. around[a] \in {heap[a], [heap[a] EXCEPT !.next = next], [heap[a] EXCEPT !.prev = prev]}
      <4> HIDE DEF next, prev, bypass
      <4> QED
        OBVIOUS
    <3> HIDE DEF next, prev, around
    <3> QED
      BY <1>4, <3>1, <3>2 DEF Blocks, Slots
  <2> HIDE DEF around
  <2> QED
    BY <1>1, <2>1, <2>2 DEF HeapOK, SameHeaders
<1> HIDE DEF around
<1>11. /\ HeapOK(heap') /\ SameHeaders(around, heap') /\ DOMAIN heap' = DOMAIN heap \ {node}
       /\ \A a \in DOMAIN heap \ {node} : heap'[a] = around[a]
  <2>1. /\ HeapOK(Without(around, {node})) /\ SameHeaders(around, Without(around, {node}))
        /\ DOMAIN Without(around, {node}) = DOMAIN around \ {node}
    BY <1>10, WithoutIs
  <2>2. \A a \in DOMAIN around \ {node} : Without(around, {node})[a] = around[a]
    BY <1>10, WithoutIs
  <2> QED
    BY <1>5, <1>10, <2>1, <2>2
<1>12. SameHeaders(heap, heap')
  BY <1>10, <1>11 DEF SameHeaders
<1>13. \A i \in 1 .. n : i # k =>
         /\ D[i] \in DOMAIN heap'
         /\ heap'[D[i]].next = IF i = k - 1 THEN next ELSE heap[D[i]].next
         /\ heap'[D[i]].prev = IF i = k + 1 THEN prev ELSE heap[D[i]].prev
         /\ heap'[D[i]].data = heap[D[i]].data
  <2> SUFFICES ASSUME NEW i \in 1 .. n, i # k
               PROVE  /\ D[i] \in DOMAIN heap'
                      /\ heap'[D[i]].next = IF i = k - 1 THEN next ELSE heap[D[i]].next
                      /\ heap'[D[i]].prev = IF i = k + 1 THEN prev ELSE heap[D[i]].prev
                      /\ heap'[D[i]].data = heap[D[i]].data
    OBVIOUS
  <2>1. D[i] # node /\ D[i] \in DOMAIN heap
    BY <1>1, <1>2, <1>3
  <2>2. D[i] \in DOMAIN heap' /\ heap'[D[i]] = around[D[i]]
    <3> HIDE DEF node
    <3> QED
      BY <1>11, <2>1
  <2>3. heap[D[i]] \in Blocks
    BY <1>1, <2>1 DEF HeapOK
  <2> HIDE DEF next, prev, node
  <2>4. CASE i = k - 1
    <3>1. heap'[D[i]] = [heap[D[i]] EXCEPT !.next = next] /\ i # k + 1
      BY <1>3, <1>8, <2>2, <2>4
    <3> QED
      BY <2>2, <2>3, <2>4, <3>1 DEF Blocks
  <2>5. CASE i = k + 1
    <3>1. heap'[D[i]] = [heap[D[i]] EXCEPT !.prev = prev] /\ i # k - 1
      BY <1>3, <1>8, <2>2, <2>5
    <3> QED
      BY <2>2, <2>3, <2>5, <3>1 DEF Blocks
  <2>6. CASE i # k - 1 /\ i # k + 1
    <3>1. heap'[D[i]] = heap[D[i]]
      BY <1>8, <2>2, <2>6
    <3> QED
      BY <2>2, <2>6, <3>1
  <2> QED
    BY <2>4, <2>5, <2>6
<1>14. Bypassed(heap, heap', D, k)
  <2>1. heap[D[k]].next = next
    BY <1>4
  <2> HIDE DEF next
  <2> QED
    BY <1>13, <2>1 DEF Bypassed
<1>15. list'.head = IF k = 1 THEN heap[D[1]].next ELSE list.head
  <2>1. k = 1 => heap[D[1]].next = next
    BY <1>4
  <2> HIDE DEF next, prev
  <2> QED
    BY <1>5, <1>7, <2>1
<1>16. IsChain(heap', r, list'.head) /\ ToSet(r) = ToSet(D) \ {node}
  BY <1>1, <1>14, <1>15, ChainRemoves
<1>17. LosesAt(heap, D, heap', r, k)
  <2>1. \A i \in 1 .. Len(D) : i # k => heap'[D[i]].data = heap[D[i]].data
    BY <1>13
  <2>2. DataIn(heap', RemoveAt(D, k)) = RemoveAt(DataIn(heap, D), k)
    BY <1>1, <2>1, DataRemoves
  <2> QED
    BY <2>2 DEF LosesAt
<1>18. r \in Seq(DOMAIN heap) /\ Len(r) = n - 1 /\ \A i \in 1 .. n - 1 : r[i] = IF i < k THEN D[i] ELSE D[i + 1]
  <2>1. D \in Seq(DOMAIN heap) /\ k \in 1 .. Len(D) /\ n = Len(D) /\ r = RemoveAt(D, k)
    BY <1>1
  <2> HIDE DEF r, n
  <2> QED
    BY <2>1, RemoveAtIs
<1> HIDE DEF r
<1>19. ASSUME NEW i \in 1 .. n - 1 PROVE heap'[r[i]].prev = IF i = 1 THEN NULL ELSE r[i - 1]
  <2>1. n \in Nat /\ k \in 1 .. n
    BY <1>1
  <2> HIDE DEF n, next, node
  <2>2. i # 1 => i - 1 \in 1 .. n - 1
    BY <2>1
  <2>3. CASE i < k
    <3>1. i \in 1 .. n /\ i # k /\ i # k + 1 /\ i - 1 < k
      BY <2>1, <2>3
    <3>2. r[i] = D[i] /\ (i # 1 => r[i - 1] = D[i - 1])
      BY <1>18, <2>2, <2>3, <3>1
    <3>3. heap'[D[i]].prev = heap[D[i]].prev
      BY <1>13, <3>1
    <3> QED
      BY <1>2, <3>1, <3>2, <3>3
  <2>4. CASE i = k
    <3>1. i + 1 \in 1 .. n /\ i + 1 # k /\ i + 1 = k + 1 /\ i - 1 < k
      BY <2>1, <2>4
    <3>2. r[i] = D[i + 1] /\ (i # 1 => r[i - 1] = D[i - 1])
      BY <1>18, <2>2, <2>4, <3>1
    <3>3. heap'[D[i + 1]].prev = prev
      BY <1>13, <3>1
    <3> QED
      BY <2>4, <3>2, <3>3
  <2>5. CASE i > k
    <3>1. i + 1 \in 1 .. n /\ i + 1 # k /\ i + 1 # k + 1 /\ ~(i < k) /\ ~(i - 1 < k) /\ i # 1 /\ i + 1 # 1
          /\ i + 1 - 1 = i /\ i - 1 + 1 = i
      BY <2>1, <2>5
    <3>2. r[i] = D[i + 1]
      BY <1>18, <3>1
    <3>3. r[i - 1] = D[i - 1 + 1]
      BY <1>18, <2>2, <3>1
    <3>4. heap'[D[i + 1]].prev = heap[D[i + 1]].prev
      BY <1>13, <3>1
    <3>5. heap[D[i + 1]].prev = D[i + 1 - 1]
      BY <1>2, <3>1
    <3> QED
      BY <3>1, <3>2, <3>3, <3>4, <3>5
  <2>6. i < k \/ i = k \/ i > k
    BY <2>1
  <2> QED
    BY <2>3, <2>4, <2>5, <2>6
<1>20. DataIn(heap', r) \in Seq(Data)
  <2> DEFINE d == DataIn(heap, D)
  <2>1. d \in Seq(Data) /\ Len(d) = Len(D)
    <3>1. d \in Seq(Data)
      BY <1>1 DEF ListOK
    <3> QED
      BY <1>1, <3>1, DataIs
  <2>2. DataIn(heap', r) = RemoveAt(d, k)
    BY <1>17 DEF LosesAt
  <2>3. k \in 1 .. Len(d)
    BY <2>1
  <2> HIDE DEF d
  <2>4. RemoveAt(d, k) \in Seq(Data)
    BY <2>1, <2>3, RemoveAtIs
  <2> QED
    BY <2>2, <2>4
<1>21. list'.tail = IF r = << >> THEN NULL ELSE r[Len(r)]
  <2>0. n \in Nat /\ k \in 1 .. n /\ D # << >>
        /\ list'.tail = (IF next = NULL THEN prev ELSE list.tail)
        /\ list.tail = D[n]
    <3>1. n \in Nat /\ k \in 1 .. n
      BY <1>1
    <3>2. D # << >>
      BY <1>1, <3>1
    <3>3. list.tail = D[n]
      BY <1>1, <3>2
    <3>4. list'.tail = IF next = NULL THEN prev ELSE list.tail
      BY <1>5
    <3> HIDE DEF n, next, prev
    <3> QED
      BY <3>1, <3>2, <3>3, <3>4
  <2>1. (r = << >> <=> n = 1) /\ Len(r) = n - 1
    BY <1>18, <2>0
  <2> HIDE DEF n, next, prev
  <2>2. CASE n = 1
    <3>1. k = 1 /\ k = n
      BY <2>0, <2>2
    <3> QED
      BY <1>7, <2>0, <2>1, <2>2, <3>1
  <2>3. CASE n # 1 /\ k = n
    <3>1. n - 1 \in 1 .. n - 1 /\ n - 1 < k /\ k # 1
      BY <2>0, <2>3
    <3>2. r[n - 1] = D[n - 1] /\ prev = D[n - 1]
      BY <1>18, <2>3, <3>1 DEF prev, n
    <3> QED
      BY <1>7, <2>0, <2>1, <2>3, <3>2
  <2>4. CASE n # 1 /\ k # n
    <3>1. n - 1 \in 1 .. n - 1 /\ ~(n - 1 < k) /\ n - 1 + 1 = n
      BY <2>0, <2>4
    <3>2. r[n - 1] = D[n]
      BY <1>18, <3>1
    <3>3. list'.tail = D[n]
      BY <1>7, <2>0, <2>4
    <3>4. r # << >> /\ Len(r) = n - 1
      BY <2>1, <2>4
    <3> QED
      BY <3>2, <3>3, <3>4
  <2> QED
    BY <2>2, <2>3, <2>4
<1>22. ListOK(heap', r, list')
  <2>1. n - 1 \in Nat /\ list'.n = n - 1
    BY <1>1, <1>3, <1>5
  <2>2. list' \in [head : Slots, tail : Slots, n : Nat]
    <3> HIDE DEF next, prev, n
    <3> QED
      BY <1>1, <1>4, <1>5, <2>1
  <2>3. ListMax # 0 => list'.n <= ListMax
    <3>1. ListMax # 0 => n <= ListMax
      BY <1>1 DEF ListOK
    <3> QED
      BY <1>1, <2>1, <3>1, ListMaxAssumption
  <2> HIDE DEF n
  <2> QED
    BY <1>16, <1>18, <1>19, <1>20, <1>21, <2>1, <2>2, <2>3 DEF ListOK
<1>23. MonitorOK(heap', monitor', L)
  <2>1. {node} \in SUBSET DOMAIN heap
    BY <1>4
  <2>2. \A a \in DOMAIN heap' : ~heap[a].counted => L # << >> /\ a = L[Len(L)]
    BY <1>1, <1>11 DEF MonitorOK
  <2> HIDE DEF node, n
  <2> QED
    BY <1>1, <1>5, <1>11, <1>12, <2>1, <2>2, MonitorDrops
<1>24. Replaced(heap, heap', D, r)
  <2> HIDE DEF node
  <2> QED
    BY <1>1, <1>4, <1>9, <1>11, <1>16 DEF Replaced
<1>25. HandlesOK(heap', handles', r)
  <2> SUFFICES ASSUME NEW y \in handles'
               PROVE  /\ y \in {"lifo", "list"} \X Nodes \X Data
                      /\ y[1] = "list" => y[2] \in ToSet(r) /\ heap'[y[2]].data = y[3]
    BY DEF HandlesOK
  <2>1. y \in handles /\ (y[1] = "list" => y[2] # node)
    BY <1>5
  <2>2. /\ y \in {"lifo", "list"} \X Nodes \X Data
        /\ y[1] = "list" => y[2] \in ToSet(D) /\ heap[y[2]].data = y[3]
    BY <1>1, <2>1 DEF HandlesOK
  <2>3. ASSUME y[1] = "list" PROVE y[2] \in ToSet(r) /\ heap'[y[2]].data = y[3]
    <3>1. PICK i \in 1 .. n : D[i] = y[2]
      BY <1>1, <2>2, <2>3, ChainNodes
    <3>2. i # k
      BY <2>1, <2>3, <3>1
    <3>3. heap'[D[i]].data = heap[D[i]].data
      BY <1>13, <3>1, <3>2
    <3> QED
      BY <1>16, <2>1, <2>2, <2>3, <3>1, <3>3
  <2> QED
    BY <2>2, <2>3
<1>26. Linked(L, r, O)'
  BY <1>11, <1>22, <1>23, <1>24, <1>25, ListMoves
<1> QED
  BY <1>17, <1>26 DEF r

LEMMA ListDestroys ==
    ASSUME NEW L, NEW D, NEW O, Linked(L, D, O), list_destroy, UNCHANGED <<lifo, ordered>>
    PROVE  Linked(L, << >>, O)'
<1> DEFINE S == ToSet(D)
           F == {a \in S : heap[a].counted}
           r == << >>
<1>1. /\ heap' = Without(heap, S)
      /\ monitor' = [bytes_used |-> monitor.bytes_used - Bytes(heap, F),
                     live |-> monitor.live - Cardinality(F)]
      /\ list' = [head |-> NULL, tail |-> NULL, n |-> 0]
      /\ handles' = {h \in handles : h[1] # "list"}
  BY ChainsAre DEF list_destroy, Unmonitored
<1>2. HeapOK(heap) /\ MonitorOK(heap, monitor, L) /\ S \subseteq DOMAIN heap /\ HandlesOK(heap, handles, D)
  BY ListFacts
<1> HIDE DEF S
<1>3. /\ HeapOK(heap') /\ SameHeaders(heap, heap') /\ DOMAIN heap' = DOMAIN heap \ S
      /\ \A a \in DOMAIN heap \ S : heap'[a] = heap[a]
  BY <1>1, <1>2, WithoutIs
<1>4. \A a \in DOMAIN heap' : ~heap[a].counted => L # << >> /\ a = L[Len(L)]
  BY <1>2, <1>3 DEF MonitorOK
<1>5. MonitorOK(heap', monitor', L)
  BY <1>1, <1>2, <1>3, <1>4, MonitorDrops
<1>6. ListOK(heap', r, list') /\ ToSet(r) = {}
  <2>1. DataIn(heap', r) \in Seq(Data)
    BY DEF DataIn
  <2>2. IsChain(heap', r, list'.head)
    BY <1>1 DEF IsChain
  <2>3. list' \in [head : Slots, tail : Slots, n : Nat]
    BY <1>1 DEF Slots
  <2>4. list'.n = Len(r) /\ (ListMax # 0 => list'.n <= ListMax)
    BY <1>1, ListMaxAssumption
  <2>5. list'.tail = IF r = << >> THEN NULL ELSE r[Len(r)]
    BY <1>1
  <2>6. \A i \in 1 .. Len(r) : heap'[r[i]].prev = IF i = 1 THEN NULL ELSE r[i - 1]
    BY DEF ListOK
  <2>7. ToSet(r) = {}
    BY EndedEmpty
  <2> HIDE DEF r
  <2> QED
    BY <2>1, <2>2, <2>3, <2>4, <2>5, <2>6, <2>7 DEF ListOK
<1>7. HandlesOK(heap', handles', r)
  BY <1>1, <1>2 DEF HandlesOK
<1> HIDE DEF r
<1>8. Replaced(heap, heap', D, r)
  BY <1>3, <1>6 DEF S, Replaced
<1>9. Linked(L, r, O)'
  BY <1>3, <1>5, <1>6, <1>7, <1>8, ListMoves
<1> QED
  BY <1>9 DEF r
-----------------------------------------------------------------------------
(***************************************************************************)
(* The data the lists hold, before and after a removal                     *)
(***************************************************************************)
LEMMA AllButLastRemoves ==
    ASSUME NEW T, NEW d \in Seq(T), NEW k \in 1 .. Len(d) - 1
    PROVE  AllButLast(RemoveAt(d, k)) = RemoveAt(AllButLast(d), k)
<1> DEFINE n == Len(d)
           r == RemoveAt(d, k)
           a == AllButLast(d)
           b == AllButLast(r)
           c == RemoveAt(a, k)
<1>1. n \in Nat /\ k \in 1 .. n - 1 /\ n - 1 \in Nat /\ k \in 1 .. n /\ n # 0
  OBVIOUS
<1>2. r \in Seq(T) /\ Len(r) = n - 1 /\ \A i \in 1 .. n - 1 : r[i] = IF i < k THEN d[i] ELSE d[i + 1]
  BY <1>1, RemoveAtIs
<1>3. a \in Seq(T) /\ Len(a) = n - 1 /\ \A i \in 1 .. n - 1 : a[i] = d[i]
  BY <1>1, AllButLastIs
<1> HIDE DEF r, a
<1>4. b \in Seq(T) /\ Len(b) = n - 1 - 1 /\ \A i \in 1 .. n - 1 - 1 : b[i] = r[i]
  <2>1. /\ b \in Seq(T) /\ Len(b) = (IF Len(r) = 0 THEN 0 ELSE Len(r) - 1)
        /\ \A i \in 1 .. Len(r) - 1 : b[i] = r[i]
    BY <1>2, AllButLastIs
  <2>2. Len(r) = n - 1 /\ n - 1 # 0
    BY <1>1, <1>2
  <2> HIDE DEF n, b
  <2> QED
    BY <2>1, <2>2
<1>5. c \in Seq(T) /\ Len(c) = n - 1 - 1 /\ \A i \in 1 .. n - 1 - 1 : c[i] = IF i < k THEN a[i] ELSE a[i + 1]
  <2>1. k \in 1 .. Len(a)
    BY <1>1, <1>3
  <2>2. /\ c \in Seq(T) /\ Len(c) = Len(a) - 1
        /\ \A i \in 1 .. Len(a) - 1 : c[i] = IF i < k THEN a[i] ELSE a[i + 1]
    BY <1>3, <2>1, RemoveAtIs
  <2> QED
    BY <1>3, <2>2
<1> HIDE DEF n, b, c
<1>6. ASSUME NEW i \in 1 .. n - 1 - 1 PROVE b[i] = c[i]
  <2>1. i \in 1 .. n - 1 /\ i + 1 \in 1 .. n - 1
    BY <1>1
  <2>2. b[i] = (IF i < k THEN d[i] ELSE d[i + 1])
    BY <1>2, <1>4, <2>1
  <2>3. c[i] = (IF i < k THEN d[i] ELSE d[i + 1])
    BY <1>3, <1>5, <2>1
  <2> QED
    BY <2>2, <2>3
<1>7. b = c
  BY <1>4, <1>5, <1>6, SeqEqual
<1> QED
  BY <1>7 DEF a, b, c, r

\* What DataOf gives of a chain without its end node.
ShortData(h, s) == [i \in DOMAIN AllButLast(s) |-> h[AllButLast(s)[i]].data]

LEMMA ShortDataIs ==
    ASSUME NEW h, HeapOK(h), NEW s \in Seq(DOMAIN h)
    PROVE  ShortData(h, s) = AllButLast(DataIn(h, s))
<1> DEFINE n == Len(s)
           a == AllButLast(s)
           d == DataIn(h, s)
           b == AllButLast(d)
<1>1. n \in Nat /\ DOMAIN a = 1 .. n - 1 /\ \A i \in 1 .. n - 1 : a[i] = s[i]
  BY AllButLastIs
<1>2. d \in Seq(Known) /\ Len(d) = n /\ \A i \in 1 .. n : d[i] = h[s[i]].data
  BY DataIs
<1> HIDE DEF a, d
<1>3. b \in Seq(Known) /\ DOMAIN b = 1 .. n - 1 /\ \A i \in 1 .. n - 1 : b[i] = d[i]
  BY <1>2, AllButLastIs
<1>4. b = [i \in 1 .. n - 1 |-> b[i]]
  <2>1. b = [i \in DOMAIN b |-> b[i]]
    BY <1>3
  <2> HIDE DEF b
  <2> QED
    BY <1>3, <2>1
<1> HIDE DEF b, n
<1>5. \A i \in 1 .. n - 1 : h[a[i]].data = b[i]
  <2> SUFFICES ASSUME NEW i \in 1 .. n - 1 PROVE h[a[i]].data = b[i]
    OBVIOUS
  <2>1. i \in 1 .. n
    BY <1>1
  <2> QED
    BY <1>1, <1>2, <1>3, <2>1
<1>6. ShortData(h, s) = [i \in 1 .. n - 1 |-> h[a[i]].data]
  BY <1>1 DEF ShortData, a
<1>7. ShortData(h, s) = b
  BY <1>4, <1>5, <1>6
<1> QED
  BY <1>7 DEF b, d

LEMMA ShortLoses ==
    ASSUME NEW h, NEW g, HeapOK(h), HeapOK(g), NEW s \in Seq(DOMAIN h), NEW r \in Seq(DOMAIN g),
           NEW k \in 1 .. Len(s) - 1, LosesAt(h, s, g, r, k)
    PROVE  ShortData(g, r) = RemoveAt(ShortData(h, s), k)
<1> DEFINE d == DataIn(h, s)
<1>1. ShortData(g, r) = AllButLast(DataIn(g, r)) /\ ShortData(h, s) = AllButLast(d)
  BY ShortDataIs
<1>2. DataIn(g, r) = RemoveAt(d, k)
  BY DEF LosesAt
<1>3. d \in Seq(Known) /\ k \in 1 .. Len(d) - 1
  BY DataIs
<1> HIDE DEF d
<1>4. AllButLast(RemoveAt(d, k)) = RemoveAt(AllButLast(d), k)
  BY <1>3, AllButLastRemoves
<1> QED
  BY <1>1, <1>2, <1>4

LEMMA ChainsAreIn ==
    ASSUME NEW L, NEW D, NEW O, Linked(L, D, O)'
    PROVE  /\ HeapOK(heap')
           /\ L \in Seq(DOMAIN heap') /\ D \in Seq(DOMAIN heap') /\ O \in Seq(DOMAIN heap')
BY DEF Linked, LifoOK, ListOK, OrderedOK, EndedChain, IsChain

LEMMA LifoLoses ==
    ASSUME NEW L, NEW D, NEW O, Linked(L, D, O), NEW k \in 1 .. Len(L) - 1,
           LifoRemove(L[k]), UNCHANGED <<list, ordered>>
    PROVE  DataOf(LifoElements)' = RemoveAt(DataOf(LifoElements), k)
<1>1. PICK r : Linked(r, D, O)' /\ LosesAt(heap, L, heap', r, k)
  BY LifoRemoves DEF LosesAt
<1>2. LifoElements = AllButLast(L) /\ LifoElements' = AllButLast(r)
  BY <1>1, LifoElementsAre, ElementsWillBe DEF ElementsAre
<1>3. DataOf(LifoElements) = ShortData(heap, L) /\ DataOf(LifoElements)' = ShortData(heap', r)
  BY <1>2 DEF DataOf, ShortData
<1>4. HeapOK(heap) /\ L \in Seq(DOMAIN heap)
  BY EndedFacts DEF Linked, LifoOK
<1>5. HeapOK(heap') /\ r \in Seq(DOMAIN heap')
  BY <1>1, ChainsAreIn
<1>6. ShortData(heap', r) = RemoveAt(ShortData(heap, L), k)
  BY <1>1, <1>4, <1>5, ShortLoses
<1> QED
  BY <1>3, <1>6

LEMMA OrderedLoses ==
    ASSUME NEW L, NEW D, NEW O, Linked(L, D, O), NEW k \in 1 .. Len(O) - 1,
           OrderedRemove(O[k]), UNCHANGED <<lifo, list>>
    PROVE  DataOf(OrderedElements)' = RemoveAt(DataOf(OrderedElements), k)
<1>1. PICK r : Linked(L, D, r)' /\ LosesAt(heap, O, heap', r, k)
  BY OrderedRemoves
<1>2. OrderedElements = AllButLast(O) /\ OrderedElements' = AllButLast(r)
  BY <1>1, OrderedElementsAre, ElementsWillBe DEF ElementsAre
<1>3. DataOf(OrderedElements) = ShortData(heap, O) /\ DataOf(OrderedElements)' = ShortData(heap', r)
  BY <1>2 DEF DataOf, ShortData
<1>4. HeapOK(heap) /\ O \in Seq(DOMAIN heap)
  BY OrderedFacts
<1>5. HeapOK(heap') /\ r \in Seq(DOMAIN heap')
  BY <1>1, ChainsAreIn
<1>6. ShortData(heap', r) = RemoveAt(ShortData(heap, O), k)
  BY <1>1, <1>4, <1>5, ShortLoses
<1> QED
  BY <1>3, <1>6

LEMMA ListLoses ==
    ASSUME NEW L, NEW D, NEW O, Linked(L, D, O), NEW k \in 1 .. Len(D),
           ListRemove(D[k]), UNCHANGED <<lifo, ordered>>
    PROVE  DataOf(ListElements)' = RemoveAt(DataOf(ListElements), k)
<1>1. PICK r : Linked(L, r, O)' /\ LosesAt(heap, D, heap', r, k)
  BY ListRemoves
<1>2. ListElements = D /\ ListElements' = r
  BY <1>1, ChainsAre, ChainsWillBe
<1>3. DOMAIN D = 1 .. Len(D) /\ DOMAIN r = 1 .. Len(r)
  BY <1>1, ChainsAreIn, ListFacts
<1>4. DataOf(ListElements) = DataIn(heap, D) /\ DataOf(ListElements)' = DataIn(heap', r)
  BY <1>2, <1>3 DEF DataOf, DataIn
<1> QED
  BY <1>1, <1>4 DEF LosesAt

\* The removals of the lifo by a handle and by a datum.
LEMMA LifoNodeRemoves ==
    ASSUME NEW L, NEW D, NEW O, Linked(L, D, O), NEW h \in handles, lifo_remove_node(h),
           UNCHANGED <<list, ordered>>
    PROVE  /\ \E r : Linked(r, D, O)'
           /\ \E i \in DOMAIN LifoElements :
                /\ LifoElements[i] = h[2]
                /\ DataOf(LifoElements)' = RemoveAt(DataOf(LifoElements), i)
<1>1. PICK i \in DOMAIN LifoElements : LifoElements[i] = h[2]
  BY DEF lifo_remove_node
<1>2. i \in 1 .. Len(L) - 1 /\ h[2] = L[i]
  BY <1>1, LifoElementIs
<1>3. LifoRemove(L[i])
  BY <1>2 DEF lifo_remove_node
<1>4. \E r : Linked(r, D, O)'
  BY <1>2, <1>3, LifoRemoves
<1>5. DataOf(LifoElements)' = RemoveAt(DataOf(LifoElements), i)
  BY <1>2, <1>3, LifoLoses
<1> QED
  BY <1>1, <1>4, <1>5

LEMMA LifoDataRemoves ==
    ASSUME NEW L, NEW D, NEW O, Linked(L, D, O), NEW x, lifo_remove_data(x),
           UNCHANGED <<list, ordered>>
    PROVE  \E r : Linked(r, D, O)'
<1> DEFINE first == FirstOf(DataOf(LifoElements), x)
<1>0. first # 0 /\ LifoRemove(LifoElements[first])
  BY DEF lifo_remove_data, FirstOf
<1>1. PICK i \in DOMAIN LifoElements : LifoRemove(LifoElements[i])
  <2>1. first \in DOMAIN LifoElements
    BY <1>0, LifoFound
  <2> QED
    BY <1>0, <2>1
<1>2. i \in 1 .. Len(L) - 1 /\ LifoElements[i] = L[i]
  BY LifoElementIs
<1> QED
  BY <1>1, <1>2, LifoRemoves

\* The same of the doubly linked list.
LEMMA ListNodeRemoves ==
    ASSUME NEW L, NEW D, NEW O, Linked(L, D, O), NEW h \in handles, list_remove_node(h),
           UNCHANGED <<lifo, ordered>>
    PROVE  /\ \E r : Linked(L, r, O)'
           /\ \E i \in DOMAIN ListElements :
                /\ ListElements[i] = h[2]
                /\ DataOf(ListElements)' = RemoveAt(DataOf(ListElements), i)
<1>1. h[2] \in ToSet(D) /\ ListRemove(h[2])
  BY ListFacts DEF HandlesOK, list_remove_node
<1>2. D \in Seq(DOMAIN heap) /\ DOMAIN D = 1 .. Len(D)
  BY ListFacts
<1>3. PICK i \in 1 .. Len(D) : D[i] = h[2]
  BY <1>1, <1>2, ToSetIs
<1>4. \E r : Linked(L, r, O)'
  BY <1>1, <1>3, ListRemoves
<1>5. DataOf(ListElements)' = RemoveAt(DataOf(ListElements), i)
  BY <1>1, <1>3, ListLoses
<1> QED
  BY <1>2, <1>3, <1>4, <1>5, ChainsAre

LEMMA ListFound ==
    ASSUME NEW L, NEW D, NEW O, Linked(L, D, O), NEW x,
           NEW i, i = FirstOf(DataOf(ListElements), x), i # 0
    PROVE  i \in 1 .. Len(D) /\ ListElements[i] = D[i] /\ heap[D[i]].data = x
<1> DEFINE d == DataOf(ListElements)
<1>1. ListElements = D /\ Len(D) \in Nat /\ DOMAIN D = 1 .. Len(D)
  BY ChainsAre, ListFacts
<1>2. Len(d) = Len(D) /\ \A j \in 1 .. Len(D) : d[j] = heap[D[j]].data
  BY <1>1 DEF DataOf
<1> HIDE DEF d
<1>3. i = FirstOf(d, x) /\ i # 0
  BY DEF d
<1>4. Len(d) \in Nat
  BY <1>1, <1>2
<1>5. i \in 1 .. Len(d) /\ d[i] = x
  BY <1>3, <1>4, SelectedIs
<1> QED
  BY <1>1, <1>2, <1>5 DEF d

LEMMA ListDataRemoves ==
    ASSUME NEW L, NEW D, NEW O, Linked(L, D, O), NEW x, list_remove_data(x),
           UNCHANGED <<lifo, ordered>>
    PROVE  \E r : Linked(L, r, O)'
<1> DEFINE first == FirstOf(DataOf(ListElements), x)
<1>0. first # 0 /\ ListRemove(ListElements[first])
  BY DEF list_remove_data, FirstOf
<1>1. PICK i \in 1 .. Len(D) : ListRemove(D[i])
  <2>1. first \in 1 .. Len(D) /\ ListElements[first] = D[first]
    BY <1>0, ListFound
  <2> QED
    BY <1>0, <2>1
<1> QED
  BY <1>1, ListRemoves

\* The removals of the ordered list.
LEMMA OrderedDataRemoves ==
    ASSUME NEW L, NEW D, NEW O, Linked(L, D, O), NEW x \in Data, ordered_list_delete(x),
           UNCHANGED <<lifo, list>>
    PROVE  /\ \E r : Linked(L, D, r)'
           /\ DataOf(OrderedElements)' = RemoveAt(DataOf(OrderedElements), StopAt(x))
<1>1. /\ ordered.head # NULL /\ Finds(x) /\ OrderedRemove(OrderedNodes[StopAt(x)])
      /\ OrderedNodes = O
  BY ChainsAre DEF ordered_list_delete
<1>2. O # << >>
  BY <1>1, EndedFacts, OrderedFacts
<1> DEFINE k == StopAt(x)
<1>3. Len(O) \in Nat /\ k \in 1 .. Len(O) /\ k # Len(O)
  BY <1>1, <1>2, StopIs, OrderedFacts
<1>4. PICK i : i = k /\ i \in 1 .. Len(O) - 1 /\ OrderedRemove(O[i])
  BY <1>1, <1>3
<1>5. \E r : Linked(L, D, r)'
  BY <1>4, OrderedRemoves
<1>6. DataOf(OrderedElements)' = RemoveAt(DataOf(OrderedElements), i)
  BY <1>4, OrderedLoses
<1> QED
  BY <1>4, <1>5, <1>6

LEMMA OrderedNodeRemoves ==
    ASSUME NEW L, NEW D, NEW O, Linked(L, D, O), NEW node, ordered_list_delete_node(node),
           UNCHANGED <<lifo, list>>
    PROVE  \E r : Linked(L, D, r)'
<1>1. node \in ToSet(OrderedElements) /\ OrderedRemove(node)
  BY DEF ordered_list_delete_node
<1>2. O \in Seq(DOMAIN heap) /\ OrderedElements = AllButLast(O)
  BY OrderedFacts, OrderedElementsAre
<1>3. PICK i \in 1 .. Len(O) - 1 : node = O[i]
  BY <1>1, <1>2, AllButLastIs DEF ToSet
<1> QED
  BY <1>1, <1>3, OrderedRemoves

-----------------------------------------------------------------------------
(***************************************************************************)
(* The invariant                                                           *)
(***************************************************************************)
\* All that a search adds is a handle.
LEMMA HandleGiven ==
    ASSUME NEW L, NEW D, NEW O, Linked(L, D, O), UNCHANGED <<heap, monitor, lifo, list, ordered>>,
           HandlesOK(heap, handles', D)
    PROVE  Linked(L, D, O)'
BY DEF Linked

LEMMA LifoSearches ==
    ASSUME NEW L, NEW D, NEW O, Linked(L, D, O), NEW x \in Data, lifo_search_data(x),
           UNCHANGED <<list, ordered>>
    PROVE  Linked(L, D, O)'
<1> DEFINE first == FirstOf(DataOf(LifoElements), x)
<1>1. /\ first # 0 /\ handles' = handles \cup {<<"lifo", LifoElements[first], x>>}
      /\ UNCHANGED <<heap, monitor, lifo>>
  BY DEF lifo_search_data, FirstOf
<1>2. LifoElements[first] \in Nodes
  <2>1. first \in DOMAIN LifoElements
    BY <1>1, LifoFound
  <2> HIDE DEF first
  <2> QED
    BY <2>1, LifoElementIs
<1> HIDE DEF first
<1>3. HandlesOK(heap, handles', D)
  BY <1>1, <1>2, ListFacts DEF HandlesOK
<1> QED
  BY <1>1, <1>3, HandleGiven

LEMMA ListSearches ==
    ASSUME NEW L, NEW D, NEW O, Linked(L, D, O), NEW x \in Data, list_find_data_node(x),
           UNCHANGED <<lifo, ordered>>
    PROVE  Linked(L, D, O)'
<1> DEFINE first == FirstOf(DataOf(ListElements), x)
<1>1. /\ first # 0 /\ handles' = handles \cup {<<"list", ListElements[first], x>>}
      /\ UNCHANGED <<heap, monitor, list>>
  BY DEF list_find_data_node, FirstOf
<1>2. first \in 1 .. Len(D) /\ ListElements[first] = D[first] /\ heap[D[first]].data = x
  BY <1>1, ListFound
<1> HIDE DEF first
<1>3. D[first] \in ToSet(D) /\ D[first] \in Nodes
  BY <1>2, ListFacts
<1>4. HandlesOK(heap, handles', D)
  BY <1>1, <1>2, <1>3, ListFacts DEF HandlesOK
<1> QED
  BY <1>1, <1>4, HandleGiven

LEMMA LifoSteps ==
    ASSUME NEW L, NEW D, NEW O, Linked(L, D, O), LifoNext
    PROVE  \E r : Linked(r, D, O)'
<1>0. UNCHANGED <<list, ordered>>
  BY DEF LifoNext
<1>1. CASE lifo_init
  BY <1>0, <1>1, LifoInits
<1>2. ASSUME NEW d \in Data, lifo_add_data(d) PROVE \E r : Linked(r, D, O)'
  BY <1>0, <1>2, LifoAdds
<1>3. ASSUME NEW d \in Data, lifo_search_data(d) PROVE \E r : Linked(r, D, O)'
  BY <1>0, <1>3, LifoSearches
<1>4. ASSUME NEW d \in Data, lifo_remove_data(d) PROVE \E r : Linked(r, D, O)'
  BY <1>0, <1>4, LifoDataRemoves
<1>5. ASSUME NEW h \in handles, lifo_remove_node(h) PROVE \E r : Linked(r, D, O)'
  BY <1>0, <1>5, LifoNodeRemoves
<1>6. CASE lifo_destroy
  BY <1>0, <1>6, LifoDestroys
<1> QED
  BY <1>1, <1>2, <1>3, <1>4, <1>5, <1>6 DEF LifoNext

LEMMA ListSteps ==
    ASSUME NEW L, NEW D, NEW O, Linked(L, D, O), ListNext
    PROVE  \E r : Linked(L, r, O)'
<1>0. UNCHANGED <<lifo, ordered>>
  BY DEF ListNext
<1>1. ASSUME NEW d \in Data, list_prepend_data(d) PROVE \E r : Linked(L, r, O)'
  BY <1>0, <1>1, ListPrepends
<1>2. ASSUME NEW d \in Data, list_append_data(d) PROVE \E r : Linked(L, r, O)'
  BY <1>0, <1>2, ListAppends
<1>3. ASSUME NEW d \in Data, list_find_data_node(d) PROVE \E r : Linked(L, r, O)'
  BY <1>0, <1>3, ListSearches
<1>4. ASSUME NEW d \in Data, list_remove_data(d) PROVE \E r : Linked(L, r, O)'
  BY <1>0, <1>4, ListDataRemoves
<1>5. ASSUME NEW h \in handles, list_remove_node(h) PROVE \E r : Linked(L, r, O)'
  BY <1>0, <1>5, ListNodeRemoves
<1>6. CASE list_destroy
  BY <1>0, <1>6, ListDestroys
<1> QED
  BY <1>1, <1>2, <1>3, <1>4, <1>5, <1>6 DEF ListNext

LEMMA OrderedSteps ==
    ASSUME NEW L, NEW D, NEW O, Linked(L, D, O), OrderedNext
    PROVE  \E r : Linked(L, D, r)'
<1>0. UNCHANGED <<lifo, list>>
  BY DEF OrderedNext
<1>1. CASE ordered_list_init
  BY <1>0, <1>1, OrderedInits
<1>2. ASSUME NEW d \in Data, ordered_list_add(d) PROVE \E r : Linked(L, D, r)'
  BY <1>0, <1>2, OrderedAdds
<1>3. ASSUME NEW d \in Data, ordered_list_add_once(d) PROVE \E r : Linked(L, D, r)'
  BY <1>0, <1>3, OrderedAdds DEF ordered_list_add_once
<1>4. ASSUME NEW d \in Data, ordered_list_delete(d) PROVE \E r : Linked(L, D, r)'
  BY <1>0, <1>4, OrderedDataRemoves
<1>5. ASSUME NEW node, ordered_list_delete_node(node) PROVE \E r : Linked(L, D, r)'
  BY <1>0, <1>5, OrderedNodeRemoves
<1>6. CASE ordered_list_destroy
  BY <1>0, <1>6, OrderedDestroys
<1> QED
  BY <1>1, <1>2, <1>3, <1>4, <1>5, <1>6 DEF OrderedNext

LEMMA LinkedSteps == ASSUME IInv, [Next]_vars PROVE IInv'
<1>1. PICK L, D, O : Linked(L, D, O)
  BY DEF IInv
<1>2. \E p, q, r : Linked(p, q, r)'
  <2>1. CASE LifoNext
    BY <1>1, <2>1, LifoSteps
  <2>2. CASE ListNext
    BY <1>1, <2>2, ListSteps
  <2>3. CASE OrderedNext
    BY <1>1, <2>3, OrderedSteps
  <2>4. CASE UNCHANGED vars
    BY <1>1, <2>4 DEF vars, Linked
  <2> QED
    BY <2>1, <2>2, <2>3, <2>4 DEF Next
<1> QED
  BY <1>2, ChainsWillBe

LEMMA LinkedAtFirst == ASSUME Init PROVE IInv
<1> DEFINE r == << >>
<1>1. /\ heap = << >> /\ monitor = [bytes_used |-> 0, live |-> 0] /\ handles = {}
      /\ lifo = [head |-> NULL, n |-> 0] /\ ordered = [head |-> NULL, n |-> 0]
      /\ list = [head |-> NULL, tail |-> NULL, n |-> 0]
  BY DEF Init, MemInit
<1>2. DOMAIN heap = {} /\ ToSet(r) = {} /\ Counted(heap) = {}
  BY <1>1, EndedEmpty DEF Counted
<1>3. HeapOK(heap)
  BY <1>2, FS_EmptySet DEF HeapOK
<1>4. LifoOK(heap, r, lifo)
  BY <1>1, EndedEmpty, LifoMaxAssumption DEF LifoOK
<1>5. OrderedOK(heap, r, ordered)
  BY <1>1, EndedEmpty DEF OrderedOK
<1>6. ListOK(heap, r, list)
  <2>1. DataIn(heap, r) \in Seq(Data)
    BY DEF DataIn
  <2>2. IsChain(heap, r, list.head)
    BY <1>1 DEF IsChain
  <2>3. list \in [head : Slots, tail : Slots, n : Nat]
    BY <1>1 DEF Slots
  <2>4. list.n = Len(r) /\ (ListMax # 0 => list.n <= ListMax)
    BY <1>1, ListMaxAssumption
  <2>5. list.tail = IF r = << >> THEN NULL ELSE r[Len(r)]
    BY <1>1
  <2>6. \A i \in 1 .. Len(r) : heap[r[i]].prev = IF i = 1 THEN NULL ELSE r[i - 1]
    BY DEF ListOK
  <2> HIDE DEF r
  <2> QED
    BY <2>1, <2>2, <2>3, <2>4, <2>5, <2>6 DEF ListOK
<1>7. MonitorOK(heap, monitor, r)
  <2>1. Bytes(heap, {}) = 0
    <3>1. {} \in SUBSET DOMAIN heap
      OBVIOUS
    <3>2. Bytes(heap, {}) = SumFunctionOnSet(SizesIn(heap), {})
      BY <1>3, <3>1, BytesIs
    <3> QED
      BY <3>2, SumEmpty
  <2>2. Cardinality({}) = 0
    BY FS_EmptySet
  <2> QED
    BY <1>1, <1>2, <2>1, <2>2 DEF MonitorOK
<1>8. HandlesOK(heap, handles, r)
  BY <1>1 DEF HandlesOK
<1>9. InThree(DOMAIN heap, ToSet(r), ToSet(r), ToSet(r))
  BY <1>2 DEF InThree
<1>10. Linked(r, r, r)
  BY <1>3, <1>4, <1>5, <1>6, <1>7, <1>8, <1>9 DEF Linked
<1>11. Chain(lifo.head) = r /\ ListElements = r /\ OrderedNodes = r
  BY <1>10, ChainsAre
<1> HIDE DEF r
<1> QED
  BY <1>10, <1>11 DEF IInv

LEMMA AlwaysLinked == Spec => []IInv
<1>1. Init => IInv
  BY LinkedAtFirst
<1>2. IInv /\ [Next]_vars => IInv'
  BY LinkedSteps
<1> QED
  BY <1>1, <1>2, PTL DEF Spec

-----------------------------------------------------------------------------
(***************************************************************************)
(* What the invariant says                                                 *)
(***************************************************************************)
LEMMA LinkedTypes == ASSUME IInv PROVE TypeOK
<1>1. PICK L, D, O : Linked(L, D, O)
  BY DEF IInv
<1>2. /\ HeapOK(heap) /\ LifoOK(heap, L, lifo) /\ ListOK(heap, D, list) /\ OrderedOK(heap, O, ordered)
      /\ MonitorOK(heap, monitor, L) /\ HandlesOK(heap, handles, D)
  BY <1>1 DEF Linked
<1>3. DOMAIN heap \subseteq Nodes /\ Range(heap) \subseteq Blocks
  BY <1>2 DEF HeapOK, Range
<1>4. monitor \in [bytes_used : Nat, live : Nat]
  <2> DEFINE C == Counted(heap)
  <2>1. C \in SUBSET DOMAIN heap
    BY DEF Counted
  <2> HIDE DEF C
  <2>2. IsFiniteSet(C) /\ Cardinality(C) \in Nat /\ Bytes(heap, C) = SumFunctionOnSet(SizesIn(heap), C)
    BY <1>2, <2>1, BytesIs, FS_CardinalityType
  <2>3. \A a \in C : SizesIn(heap)[a] \in Nat
    BY <1>2, <2>1, BytesIs
  <2>4. Bytes(heap, C) \in Nat
    BY <2>2, <2>3, SumNat
  <2>5. monitor = [bytes_used |-> Bytes(heap, C), live |-> Cardinality(C)]
    BY <1>2 DEF MonitorOK, C
  <2> QED
    BY <2>2, <2>4, <2>5
<1>5. handles \subseteq {"lifo", "list"} \X Nodes \X Data
  BY <1>2 DEF HandlesOK
<1>6. lifo \in Structures /\ (LifoMax # 0 => lifo.n <= LifoMax) /\ ordered \in Structures
  BY <1>2 DEF LifoOK, OrderedOK, EndedChain
<1>7. list \in [head : Nodes \cup {NULL}, tail : Nodes \cup {NULL}, n : Nat]
      /\ (ListMax # 0 => list.n <= ListMax)
  BY <1>2 DEF ListOK, Slots
<1> QED
  BY <1>3, <1>4, <1>5, <1>6, <1>7 DEF TypeOK

LEMMA EndedIs ==
    ASSUME NEW s, NEW st, HeapOK(heap), EndedChain(heap, s, st), Chain(st.head) = s
    PROVE  Ended(st.head, st.n)
<1>1. /\ s \in Seq(DOMAIN heap) /\ Len(s) \in Nat /\ (s = << >> <=> Len(s) = 0)
      /\ \A i \in 1 .. Len(s) : (heap[s[i]].data = NULL) <=> (i = Len(s))
      /\ st.head = NULL <=> s = << >>
  BY EndedFacts
<1>2. st.n = IF s = << >> THEN 0 ELSE Len(s) - 1
  BY DEF EndedChain
<1>3. ASSUME st.head # NULL
      PROVE  /\ Len(s) = st.n + 1
             /\ \A i \in DOMAIN s : (i = st.n + 1) <=> (heap[s[i]].data = NULL)
  <2>1. s # << >>
    BY <1>1, <1>3
  <2>2. Len(s) = st.n + 1 /\ DOMAIN s = 1 .. Len(s)
    BY <1>1, <1>2, <2>1
  <2> QED
    BY <1>1, <2>2
<1> QED
  BY <1>3 DEF Ended

LEMMA TwoWayIs == ASSUME IInv PROVE TwoWay
<1>1. PICK L, D, O : Linked(L, D, O)
  BY DEF IInv
<1>2. ListElements = D
  BY <1>1, ChainsAre
<1>3. /\ list.n = Len(D) /\ list.tail = (IF D = << >> THEN NULL ELSE D[Len(D)])
      /\ D \in Seq(DOMAIN heap)
      /\ \A i \in 1 .. Len(D) : heap[D[i]].prev = IF i = 1 THEN NULL ELSE D[i - 1]
  BY <1>1, ListFacts
<1>4. DOMAIN D = 1 .. Len(D)
  BY <1>3
<1> QED
  BY <1>2, <1>3, <1>4 DEF TwoWay, Last

LEMMA InOrderIs == ASSUME IInv PROVE InOrder
<1>1. PICK L, D, O : Linked(L, D, O)
  BY DEF IInv
<1>2. SUFFICES ASSUME ordered.head # NULL PROVE InOrder
  BY DEF InOrder
<1> DEFINE n == Len(O)
           d == DataOf(OrderedElements)
<1>3. /\ Sorted(DataIn(heap, O)) /\ O \in Seq(DOMAIN heap) /\ n \in Nat
      /\ \A i \in 1 .. n : /\ O[i] \in DOMAIN heap /\ (heap[O[i]].data = NULL) <=> (i = n)
  BY <1>1, OrderedFacts
<1>4. O # << >>
  BY <1>1, <1>2, EndedFacts, OrderedFacts
<1>5. /\ OrderedElements = AllButLast(O)
      /\ DOMAIN AllButLast(O) = 1 .. n - 1 /\ \A i \in 1 .. n - 1 : AllButLast(O)[i] = O[i]
  BY <1>1, <1>3, OrderedElementsAre, AllButLastIs
<1>6. DOMAIN d = 1 .. n - 1 /\ \A i \in 1 .. n - 1 : d[i] = heap[O[i]].data
  BY <1>5 DEF DataOf
<1> HIDE DEF d
<1>7. \A i, j \in 1 .. n - 1 : i <= j => heap[O[i]].data <= heap[O[j]].data
  <2> DEFINE e == DataIn(heap, O)
  <2>1. Len(e) = n /\ \A i \in 1 .. n : e[i] = heap[O[i]].data
    BY <1>1, <1>3, DataIs, OrderedFacts
  <2>2. \A i, j \in 1 .. Len(e) - 1 : i <= j => e[i] <= e[j]
    BY <1>3 DEF Sorted
  <2> HIDE DEF e, n
  <2>3. \A i \in 1 .. n - 1 : i \in 1 .. n
    BY <1>3
  <2> QED
    BY <2>1, <2>2, <2>3
<1>8. \A i, j \in DOMAIN d : i < j => d[i] <= d[j]
  BY <1>6, <1>7
<1>9. ASSUME NEW x \in Data PROVE Finds(x) <=> x \in Range(d)
  <2> DEFINE k == StopAt(x)
  <2>1. /\ k \in 1 .. n
        /\ \A i \in 1 .. k - 1 : heap[O[i]].data < x
        /\ k # n => heap[O[k]].data >= x
        /\ Finds(x) <=> k # n /\ heap[O[k]].data = x
    BY <1>1, <1>4, StopIs
  <2> HIDE DEF k
  <2>2. ASSUME Finds(x) PROVE x \in Range(d)
    <3>1. k \in 1 .. n - 1 /\ d[k] = x
      BY <1>3, <1>6, <2>1, <2>2
    <3> QED
      BY <1>6, <3>1 DEF Range
  <2>3. ASSUME x \in Range(d) PROVE Finds(x)
    <3>1. PICK i \in 1 .. n - 1 : heap[O[i]].data = x
      BY <1>6, <2>3 DEF Range
    <3>2. x \in Nat
      BY DataAssumption
    <3>3. ~(i < k)
      <4>1. i < k => i \in 1 .. k - 1
        BY <2>1
      <4> QED
        BY <2>1, <3>1, <3>2, <4>1
    <3>4. k \in 1 .. n - 1 /\ k <= i
      BY <1>3, <2>1, <3>1, <3>3
    <3>5. heap[O[k]].data <= x /\ heap[O[k]].data >= x
      BY <1>3, <1>7, <2>1, <3>1, <3>4
    <3>6. heap[O[k]].data \in Nat
      <4>1. O[k] \in DOMAIN heap /\ heap[O[k]].data # NULL
        BY <1>3, <3>4
      <4>2. heap[O[k]] \in Blocks
        BY <1>1, <4>1, OrderedFacts DEF HeapOK
      <4> QED
        BY <4>1, <4>2, DataAssumption DEF Blocks
    <3> QED
      BY <1>3, <2>1, <3>2, <3>4, <3>5, <3>6
  <2> QED
    BY <2>2, <2>3
<1> QED
  BY <1>8, <1>9 DEF InOrder, d

LEMMA NodesCount ==
    ASSUME NEW T, NEW s \in Seq(T), \A i, j \in 1 .. Len(s) : s[i] = s[j] => i = j
    PROVE  Len(s) = Cardinality(ToSet(s)) /\ IsFiniteSet(ToSet(s))
<1>1. DOMAIN s = 1 .. Len(s)
  OBVIOUS
<1>2. IsInjective(s)
  BY <1>1 DEF IsInjective
<1> QED
  BY <1>2, LenIsCardinality, ToSetIs

LEMMA AllOnOneList ==
    ASSUME IInv
    PROVE  LET chains == <<Chain(lifo.head), ListElements, OrderedNodes>>
           IN  /\ UNION {ToSet(chains[i]) : i \in 1 .. 3} = DOMAIN heap
               /\ Len(chains[1]) + Len(chains[2]) + Len(chains[3]) = Cardinality(DOMAIN heap)
<1>1. PICK L, D, O : Linked(L, D, O)
  BY DEF IInv
<1>2. Chain(lifo.head) = L /\ ListElements = D /\ OrderedNodes = O
  BY <1>1, ChainsAre
<1> DEFINE A == ToSet(L)
           B == ToSet(D)
           C == ToSet(O)
<1>3. /\ DOMAIN heap = A \cup B \cup C
      /\ A \cap B = {} /\ A \cap C = {} /\ B \cap C = {}
  BY <1>1 DEF Linked, InThree
<1>4. Len(L) = Cardinality(A) /\ IsFiniteSet(A)
  <2>1. L \in Seq(DOMAIN heap) /\ \A i, j \in 1 .. Len(L) : L[i] = L[j] => i = j
    BY <1>1, EndedFacts DEF Linked, LifoOK
  <2> QED
    BY <2>1, NodesCount
<1>5. Len(D) = Cardinality(B) /\ IsFiniteSet(B)
  BY <1>1, ListFacts, NodesCount
<1>6. Len(O) = Cardinality(C) /\ IsFiniteSet(C)
  BY <1>1, OrderedFacts, NodesCount
<1> HIDE DEF A, B, C
<1>7. /\ IsFiniteSet(A \cup B)
      /\ Cardinality(A \cup B) = Cardinality(A) + Cardinality(B) - Cardinality(A \cap B)
  BY <1>4, <1>5, FS_Union
<1>8. (A \cup B) \cap C = {} /\ A \cap B = {}
  BY <1>3
<1>9. Cardinality((A \cup B) \cup C)
        = Cardinality(A \cup B) + Cardinality(C) - Cardinality((A \cup B) \cap C)
  BY <1>6, <1>7, FS_Union
<1>10. Cardinality({}) = 0 /\ Cardinality(A) \in Nat /\ Cardinality(B) \in Nat /\ Cardinality(C) \in Nat
  BY <1>4, <1>5, <1>6, FS_EmptySet, FS_CardinalityType
<1>11. Len(L) + Len(D) + Len(O) = Cardinality(DOMAIN heap)
  <2>1. Cardinality(A \cup B) = Cardinality(A) + Cardinality(B)
    <3>1. Cardinality(A \cap B) = 0
      <4>1. A \cap B = {}
        BY <1>8
      <4> QED
        BY <1>10, <4>1, Zenon
    <3> QED
      BY <1>7, <1>10, <3>1
  <2>2. Cardinality((A \cup B) \cup C) = Cardinality(A \cup B) + Cardinality(C)
    <3>1. Cardinality((A \cup B) \cap C) = 0
      <4>1. (A \cup B) \cap C = {}
        BY <1>8
      <4> QED
        BY <1>10, <4>1, Zenon
    <3> QED
      BY <1>9, <1>10, <2>1, <3>1
  <2>3. DOMAIN heap = (A \cup B) \cup C
    BY <1>3
  <2> QED
    BY <1>4, <1>5, <1>6, <2>1, <2>2, <2>3
<1>12. UNION {ToSet(<<L, D, O>>[i]) : i \in 1 .. 3} = DOMAIN heap
  <2>1. 1 .. 3 = {1, 2, 3}
    OBVIOUS
  <2>2. {ToSet(<<L, D, O>>[i]) : i \in 1 .. 3} = {ToSet(L), ToSet(D), ToSet(O)}
    BY <2>1
  <2> QED
    BY <1>3, <2>2 DEF A, B, C
<1> QED
  BY <1>2, <1>11, <1>12

LEMMA LinkedWell == ASSUME IInv PROVE WellLinked
<1>1. PICK L, D, O : Linked(L, D, O)
  BY DEF IInv
<1>2. /\ HeapOK(heap) /\ EndedChain(heap, L, lifo) /\ EndedChain(heap, O, ordered)
      /\ Chain(lifo.head) = L /\ Chain(ordered.head) = O
  BY <1>1, ChainsAre DEF Linked, LifoOK, OrderedOK, OrderedNodes
<1>3. Ended(lifo.head, lifo.n) /\ Ended(ordered.head, ordered.n)
  BY <1>2, EndedIs
<1> QED
  BY <1>3, LinkedTypes, TwoWayIs, InOrderIs, AllOnOneList DEF WellLinked

LEMMA LinkedCounts == ASSUME IInv PROVE MonitorExact
<1>1. PICK L, D, O : Linked(L, D, O)
  BY DEF IInv
<1> DEFINE C == Counted(heap)
           U == DOMAIN heap \ C
<1>2. /\ monitor.bytes_used = Bytes(heap, C) /\ monitor.live = Cardinality(C)
      /\ \A a \in U : L # << >> /\ a = L[Len(L)]
  BY <1>1 DEF Linked, MonitorOK, Counted
<1>3. L = << >> <=> lifo.head = NULL
  BY <1>1, EndedFacts DEF Linked, LifoOK
<1>4. C = {a \in DOMAIN heap : heap[a].counted}
  BY DEF Counted
<1> HIDE DEF C
<1>5. Cardinality(U) <= IF lifo.head = NULL THEN 0 ELSE 1
  <2>1. CASE L = << >>
    <3>1. U = {}
      BY <1>2, <2>1
    <3>2. Cardinality(U) = 0
      BY <3>1, FS_EmptySet
    <3> QED
      BY <1>3, <2>1, <3>2
  <2>2. CASE L # << >>
    <3>1. U \in SUBSET {L[Len(L)]}
      BY <1>2
    <3>2. IsFiniteSet({L[Len(L)]}) /\ Cardinality({L[Len(L)]}) = 1
      BY FS_Singleton
    <3>3. Cardinality(U) <= Cardinality({L[Len(L)]})
      <4> HIDE DEF U
      <4> QED
        BY <3>1, <3>2, FS_Subset
    <3>4. Cardinality(U) <= 1
      BY <3>2, <3>3
    <3> QED
      BY <1>3, <2>2, <3>4
  <2> QED
    BY <2>1, <2>2
<1> QED
  BY <1>2, <1>4, <1>5 DEF MonitorExact

LEMMA LinkedHandles == ASSUME IInv PROVE ListHandlesStay
<1>1. PICK L, D, O : Linked(L, D, O)
  BY DEF IInv
<1>2. ListElements = D /\ ToSet(D) \subseteq DOMAIN heap /\ HandlesOK(heap, handles, D)
  BY <1>1, ChainsAre, ListFacts
<1> QED
  BY <1>2 DEF ListHandlesStay, StillNames, HandlesOK

LEMMA LinkedRemoves == ASSUME IInv, Next PROVE RemovesOne
<1>1. PICK L, D, O : Linked(L, D, O)
  BY DEF IInv
<1>2. lifo.n \in Nat /\ list.n \in Nat /\ ordered.n \in Nat
  <2>1. TypeOK
    BY LinkedTypes
  <2> QED
    BY <2>1 DEF TypeOK, Structures
<1>3. ASSUME lifo'.n < lifo.n, NEW h \in handles, lifo_remove_node(h)
      PROVE  \E i \in DOMAIN LifoElements :
               /\ LifoElements[i] = h[2]
               /\ DataOf(LifoElements)' = RemoveAt(DataOf(LifoElements), i)
  <2>1. UNCHANGED <<list, ordered>>
    <3>1. lifo' # lifo
      BY <1>2, <1>3
    <3> QED
      BY <3>1 DEF Next, LifoNext, ListNext, OrderedNext
  <2> QED
    BY <1>1, <1>3, <2>1, LifoNodeRemoves
<1>4. ASSUME list'.n < list.n, NEW h \in handles, list_remove_node(h)
      PROVE  \E i \in DOMAIN ListElements :
               /\ ListElements[i] = h[2]
               /\ DataOf(ListElements)' = RemoveAt(DataOf(ListElements), i)
  <2>1. UNCHANGED <<lifo, ordered>>
    <3>1. list' # list
      BY <1>2, <1>4
    <3> QED
      BY <3>1 DEF Next, LifoNext, ListNext, OrderedNext
  <2> QED
    BY <1>1, <1>4, <2>1, ListNodeRemoves
<1>5. ASSUME ordered'.n < ordered.n, NEW d \in Data, ordered_list_delete(d)
      PROVE  DataOf(OrderedElements)' = RemoveAt(DataOf(OrderedElements), StopAt(d))
  <2>1. UNCHANGED <<lifo, list>>
    <3>1. ordered' # ordered
      BY <1>2, <1>5
    <3> QED
      BY <3>1 DEF Next, LifoNext, ListNext, OrderedNext
  <2> QED
    BY <1>1, <1>5, <2>1, OrderedDataRemoves
<1> QED
  BY <1>3, <1>4, <1>5 DEF RemovesOne

-----------------------------------------------------------------------------
\* Whatever is put in and taken out, and wherever a freed address comes back,
\* the three lists stay linked as their operations expect, the ordered one in
\* order, and between them they hold every block: the copying removals of
\* lifo.c and ordered_list.c lose none and free none twice.
THEOREM ListsAreLinked == Spec => []WellLinked
<1>1. IInv => WellLinked
  BY LinkedWell
<1> QED
  BY <1>1, AlwaysLinked, PTL

\* The shared monitor counts the blocks it was told of and no others; the one
\* block it does not see is the end node lifo_init made (lifo.c:166).
THEOREM MonitorIsExact == Spec => []MonitorExact
<1>1. IInv => MonitorExact
  BY LinkedCounts
<1> QED
  BY <1>1, AlwaysLinked, PTL

\* A removal takes the element it was asked for out of its list and no other,
\* and the handles of the doubly linked list go on naming their elements.
THEOREM RemovalsAreRight == Spec => RemovesTheRightOne
<1>1. IInv => ListHandlesStay
  BY LinkedHandles
<1>2. IInv /\ ListHandlesStay' /\ [Next]_vars => [RemovesOne /\ ListHandlesStay']_vars
  BY LinkedRemoves
<1> QED
  BY <1>1, <1>2, AlwaysLinked, PTL DEF Spec, RemovesTheRightOne
=============================================================================
