------------------------------ MODULE DataFacts ------------------------------
(***************************************************************************)
(* Facts about numbers, sequences and finite sets that the proofs of       *)
(* several components cite.  The library's induction theorems are about an *)
(* operator P(_); here induction is over the least element of a set of     *)
(* counterexamples, which is a fact about sets.                            *)
(***************************************************************************)
EXTENDS Integers, SequencesExt, SequenceTheorems, FiniteSetTheorems, WellFoundedInduction, TLAPS

LEMMA LeastNat ==
    ASSUME NEW S, S \subseteq Nat, S # {}
    PROVE  \E m \in S : \A k \in S : m <= k
<1>1. PICK x \in S : \A y \in S : ~(<<y, x>> \in OpToRel(<, Nat))
  BY NatLessThanWellFounded, WFMin
<1>2. \A y \in S : ~(y < x)
  BY <1>1 DEF OpToRel
<1> QED
  BY <1>2

LEMMA MinIs ==
    ASSUME NEW S, S \subseteq Nat, S # {}
    PROVE  Min(S) \in S /\ \A k \in S : Min(S) <= k
BY LeastNat DEF Min

\* The least number of a set of integers is the one that no other is below.
LEMMA LeastIs ==
    ASSUME NEW S, S \subseteq Int, NEW x \in S, \A k \in S : x <= k
    PROVE  Min(S) = x
<1>1. Min(S) \in S /\ \A k \in S : Min(S) <= k
  BY DEF Min
<1> DEFINE m == Min(S)
<1>2. m \in S /\ m <= x
  BY <1>1
<1> HIDE DEF m
<1>3. m = x
  BY <1>2
<1> QED
  BY <1>3 DEF m

\* A set of numbers that has 0 and with every number the next has them all.
LEMMA NatSetInduction ==
    ASSUME NEW S, NEW n \in Nat, 0 \in S, \A k \in 0 .. n - 1 : k \in S => k + 1 \in S
    PROVE  0 .. n \subseteq S
<1> DEFINE Bad == {k \in 0 .. n : k \notin S}
<1>1. SUFFICES ASSUME Bad # {} PROVE FALSE
  OBVIOUS
<1>2. Bad \subseteq Nat
  OBVIOUS
<1>3. PICK m \in Bad : \A k \in Bad : m <= k
  <2> HIDE DEF Bad
  <2> QED
    BY <1>1, <1>2, LeastNat
<1>4. m \in 0 .. n /\ m # 0 /\ m - 1 \in 0 .. n - 1 /\ m - 1 \notin Bad
  BY <1>3
<1> QED
  BY <1>3, <1>4

-----------------------------------------------------------------------------
LEMMA ModUnique ==
    ASSUME NEW m \in Nat \ {0}, NEW q \in Int, NEW r \in 0 .. m - 1
    PROVE  (m * q + r) % m = r
OBVIOUS

LEMMA ModZero == ASSUME NEW m \in Nat \ {0}, NEW q \in Int PROVE (m * q) % m = 0
OBVIOUS

LEMMA ModRange ==
    ASSUME NEW n \in Int, NEW m \in Nat \ {0}
    PROVE  /\ n \div m \in Int
           /\ n % m \in 0 .. m - 1
           /\ n = m * (n \div m) + (n % m)
<1>1. n % m \in Int /\ n \div m \in Int
  OBVIOUS
<1>2. 0 <= n % m
  OBVIOUS
<1>3. n % m < m
  OBVIOUS
<1>4. n - (n % m) = (n \div m) * m
  BY SMT
<1> DEFINE q == n \div m
           r == n % m
<1>5. q \in Int /\ r \in 0 .. m - 1 /\ n - r = q * m
  BY <1>1, <1>2, <1>3, <1>4
<1> HIDE DEF q, r
<1>6. q * m = m * q
  BY <1>5
<1>7. n = m * q + r
  BY <1>5, <1>6
<1> QED
  BY <1>5, <1>7 DEF q, r

\* An order on quotients and remainders is the order of the numbers.
LEMMA DivOrder ==
    ASSUME NEW m \in Nat \ {0}, NEW q \in Int, NEW p \in Int, NEW r \in 0 .. m - 1, NEW s \in 0 .. m - 1
    PROVE  /\ q < p => m * q + r < m * p + s
           /\ m * q + r = m * p + s => q = p /\ r = s
<1>1. ASSUME NEW a \in Int, NEW b \in Int, a < b PROVE m * b >= m * a + m
  <2>1. m * b >= m * (a + 1)
    BY <1>1
  <2> QED
    BY <1>1, <2>1
<1>2. ASSUME NEW a \in Int, NEW b \in Int, NEW x \in 0 .. m - 1, NEW y \in 0 .. m - 1, a < b
      PROVE  m * a + x < m * b + y
  BY <1>1, <1>2
<1>3. ASSUME m * q + r = m * p + s PROVE q = p /\ r = s
  <2>1. ~(q < p)
    BY <1>2, <1>3
  <2>2. ~(p < q)
    BY <1>2, <1>3
  <2>3. q = p
    BY <2>1, <2>2
  <2> QED
    BY <1>3, <2>3
<1> QED
  BY <1>2, <1>3

LEMMA DivUnique ==
    ASSUME NEW m \in Nat \ {0}, NEW q \in Int, NEW r \in 0 .. m - 1
    PROVE  (m * q + r) \div m = q /\ (m * q + r) % m = r
<1> DEFINE n == m * q + r
           p == n \div m
           s == n % m
<1>1. n \in Int
  OBVIOUS
<1>2. p \in Int /\ s \in 0 .. m - 1 /\ n = m * p + s
  BY <1>1, ModRange
<1> HIDE DEF p, s
<1>3. q = p /\ r = s
  BY <1>2, DivOrder
<1> QED
  BY <1>3 DEF p, s

LEMMA ModNext ==
    ASSUME NEW n \in Nat, NEW m \in Nat \ {0}
    PROVE  (n + 1) % m = IF (n % m) + 1 = m THEN 0 ELSE (n % m) + 1
<1> DEFINE q == n \div m
           r == n % m
<1>1. q \in Int /\ r \in 0 .. m - 1 /\ n = m * q + r
  BY ModRange
<1> HIDE DEF q, r
<1>2. CASE r + 1 = m
  <2>1. n + 1 = m * (q + 1)
    BY <1>1, <1>2
  <2>2. (m * (q + 1)) % m = 0
    BY <1>1, ModZero
  <2> QED
    BY <1>2, <2>1, <2>2 DEF r
<1>3. CASE r + 1 # m
  <2>1. n + 1 = m * q + (r + 1) /\ r + 1 \in 0 .. m - 1
    BY <1>1, <1>3
  <2>2. (m * q + (r + 1)) % m = r + 1
    BY <1>1, <2>1, ModUnique
  <2> QED
    BY <1>3, <2>1, <2>2 DEF r
<1> QED
  BY <1>2, <1>3

LEMMA ModSame ==
    ASSUME NEW a \in Int, NEW b \in Int, NEW m \in Nat \ {0}, a % m = b % m
    PROVE  (a - b) % m = 0
<1> DEFINE q == a \div m
           r == a % m
           p == b \div m
           s == b % m
<1>1. q \in Int /\ r \in 0 .. m - 1 /\ a = m * q + r
  BY ModRange
<1>2. p \in Int /\ s \in 0 .. m - 1 /\ b = m * p + s /\ s = r
  BY ModRange
<1> HIDE DEF q, r, p, s
<1>3. a - b = m * (q - p)
  BY <1>1, <1>2
<1>4. (m * (q - p)) % m = 0
  BY <1>1, <1>2, ModZero
<1> QED
  BY <1>3, <1>4

-----------------------------------------------------------------------------
LEMMA ToSetIs ==
    ASSUME NEW T, NEW s \in Seq(T)
    PROVE  /\ ToSet(s) = {s[i] : i \in 1 .. Len(s)}
           /\ ToSet(s) \subseteq T
           /\ IsFiniteSet(ToSet(s))
<1>1. ToSet(s) = {s[i] : i \in 1 .. Len(s)} /\ ToSet(s) \subseteq T
  BY DEF ToSet
<1>2. IsFiniteSet(1 .. Len(s))
  BY FS_Interval
<1>3. s \in Surjection(1 .. Len(s), ToSet(s))
  BY <1>1 DEF Surjection
<1> QED
  BY <1>1, <1>2, <1>3, FS_Surjection

LEMMA ConsIs ==
    ASSUME NEW T, NEW s \in Seq(T), NEW e \in T
    PROVE  /\ <<e>> \o s \in Seq(T)
           /\ ToSet(<<e>> \o s) = {e} \cup ToSet(s)
           /\ Len(<<e>> \o s) = Len(s) + 1
           /\ IsInjective(s) /\ e \notin ToSet(s) => IsInjective(<<e>> \o s)
<1> DEFINE t == <<e>> \o s
<1>1. /\ t \in Seq(T) /\ Len(t) = Len(s) + 1
      /\ \A i \in 1 .. Len(t) : t[i] = IF i = 1 THEN e ELSE s[i - 1]
  OBVIOUS
<1>2. DOMAIN t = 1 .. Len(s) + 1 /\ DOMAIN s = 1 .. Len(s) /\ Len(s) \in Nat
  BY <1>1
<1>3. ToSet(t) = {e} \cup ToSet(s)
  <2>1. \A i \in 1 .. Len(s) : t[i + 1] = s[i]
    BY <1>1, <1>2
  <2> HIDE DEF t
  <2> QED
    BY <1>1, <1>2, <2>1 DEF ToSet
<1>4. ASSUME IsInjective(s), e \notin ToSet(s) PROVE IsInjective(t)
  <2> HIDE DEF t
  <2>1. \A i \in 1 .. Len(s) : s[i] # e
    BY <1>2, <1>4 DEF ToSet
  <2>2. ASSUME NEW a \in 1 .. Len(s) + 1, NEW b \in 1 .. Len(s) + 1, t[a] = t[b]
        PROVE  a = b
    <3>1. CASE a = 1 \/ b = 1
      BY <1>1, <1>2, <2>1, <2>2, <3>1
    <3>2. CASE a # 1 /\ b # 1
      <4>1. a - 1 \in DOMAIN s /\ b - 1 \in DOMAIN s /\ s[a - 1] = s[b - 1]
        BY <1>1, <1>2, <2>2, <3>2
      <4> QED
        BY <1>2, <1>4, <4>1 DEF IsInjective
    <3> QED
      BY <3>1, <3>2
  <2> QED
    BY <1>2, <2>2 DEF IsInjective
<1> QED
  BY <1>1, <1>3, <1>4

LEMMA TailIs ==
    ASSUME NEW T, NEW s \in Seq(T), s # << >>
    PROVE  /\ Tail(s) \in Seq(T) /\ Head(s) \in ToSet(s) /\ Head(s) = s[1]
           /\ Len(Tail(s)) = Len(s) - 1
           /\ ToSet(s) = {Head(s)} \cup ToSet(Tail(s))
           /\ IsInjective(s) => IsInjective(Tail(s)) /\ Head(s) \notin ToSet(Tail(s))
<1> DEFINE t == Tail(s)
<1>1. /\ t \in Seq(T) /\ Len(t) = Len(s) - 1 /\ Len(s) \in Nat \ {0}
      /\ \A i \in 1 .. Len(t) : t[i] = s[i + 1]
      /\ Head(s) = s[1] /\ DOMAIN s = 1 .. Len(s) /\ DOMAIN t = 1 .. Len(t)
  OBVIOUS
<1> HIDE DEF t
<1>2. \A i \in 2 .. Len(s) : s[i] = t[i - 1]
  BY <1>1
<1>3. Head(s) \in ToSet(s) /\ ToSet(s) = {Head(s)} \cup ToSet(t)
  <2>1. ToSet(s) \subseteq {Head(s)} \cup ToSet(t)
    <3> SUFFICES ASSUME NEW i \in 1 .. Len(s) PROVE s[i] \in {Head(s)} \cup ToSet(t)
      BY <1>1 DEF ToSet
    <3>1. i = 1 \/ (i - 1 \in DOMAIN t /\ s[i] = t[i - 1])
      BY <1>1, <1>2
    <3> QED
      BY <1>1, <3>1 DEF ToSet
  <2>2. ToSet(t) \subseteq ToSet(s)
    <3> SUFFICES ASSUME NEW i \in DOMAIN t PROVE t[i] \in ToSet(s)
      BY DEF ToSet
    <3>1. i + 1 \in DOMAIN s /\ t[i] = s[i + 1]
      BY <1>1
    <3> QED
      BY <3>1 DEF ToSet
  <2>3. Head(s) \in ToSet(s)
    <3>1. 1 \in DOMAIN s
      BY <1>1
    <3> QED
      BY <1>1, <3>1 DEF ToSet
  <2> QED
    BY <2>1, <2>2, <2>3
<1>4. ASSUME IsInjective(s) PROVE IsInjective(t) /\ Head(s) \notin ToSet(t)
  <2>1. \A i \in DOMAIN t : i + 1 \in DOMAIN s /\ i + 1 # 1 /\ t[i] = s[i + 1]
    BY <1>1
  <2>2. 1 \in DOMAIN s
    BY <1>1
  <2>3. Head(s) \notin ToSet(t)
    BY <1>1, <1>4, <2>1, <2>2 DEF IsInjective, ToSet
  <2>4. ASSUME NEW a \in DOMAIN t, NEW b \in DOMAIN t, t[a] = t[b] PROVE a = b
    <3>1. a + 1 = b + 1
      BY <1>4, <2>1, <2>4 DEF IsInjective
    <3> QED
      BY <1>1, <3>1
  <2> QED
    BY <2>3, <2>4 DEF IsInjective
<1> QED
  BY <1>1, <1>3, <1>4 DEF t

\* How often a sequence without repetitions meets a set.
LEMMA CountIs ==
    ASSUME NEW T, NEW s \in Seq(T), IsInjective(s), NEW S
    PROVE  /\ IsFiniteSet(ToSet(s) \cap S)
           /\ Cardinality({i \in DOMAIN s : s[i] \in S}) = Cardinality(ToSet(s) \cap S)
<1> DEFINE I == {i \in DOMAIN s : s[i] \in S}
           f == [i \in I |-> s[i]]
<1>1. I \subseteq 1 .. Len(s) /\ IsFiniteSet(I)
  BY FS_Interval, FS_Subset
<1>2. f \in Bijection(I, ToSet(s) \cap S)
  BY DEF Bijection, Injection, Surjection, IsInjective, ToSet
<1>3. ExistsBijection(I, ToSet(s) \cap S)
  BY <1>2 DEF ExistsBijection
<1> QED
  BY <1>1, <1>3, FS_Bijection

LEMMA LenIsCardinality ==
    ASSUME NEW T, NEW s \in Seq(T), IsInjective(s)
    PROVE  Len(s) = Cardinality(ToSet(s))
<1>1. {i \in DOMAIN s : s[i] \in ToSet(s)} = 1 .. Len(s)
  BY DEF ToSet
<1>2. Cardinality(1 .. Len(s)) = Len(s)
  <2> DEFINE n == Len(s)
  <2>1. n \in Int /\ n >= 0
    OBVIOUS
  <2> HIDE DEF n
  <2>2. Cardinality(1 .. n) = n
    BY <2>1, FS_Interval
  <2> QED
    BY <2>2 DEF n
<1>3. Cardinality({i \in DOMAIN s : s[i] \in ToSet(s)}) = Cardinality(ToSet(s) \cap ToSet(s))
  BY CountIs
<1> QED
  BY <1>1, <1>2, <1>3

LEMMA InsertAtIs ==
    ASSUME NEW T, NEW s \in Seq(T), NEW e \in T, NEW k \in 1 .. Len(s) + 1
    PROVE  /\ InsertAt(s, k, e) \in Seq(T)
           /\ Len(InsertAt(s, k, e)) = Len(s) + 1
           /\ \A i \in 1 .. Len(s) + 1 :
                InsertAt(s, k, e)[i] = IF i < k THEN s[i] ELSE IF i = k THEN e ELSE s[i - 1]
<1> DEFINE a == SubSeq(s, 1, k - 1)
           b == SubSeq(s, k, Len(s))
<1>1. a \in Seq(T) /\ Len(a) = k - 1 /\ \A i \in 1 .. k - 1 : a[i] = s[i]
  OBVIOUS
<1>2. b \in Seq(T) /\ Len(b) = Len(s) + 1 - k /\ \A i \in 1 .. Len(b) : b[i] = s[k + i - 1]
  OBVIOUS
<1> HIDE DEF a, b
<1>3. (a \o <<e>>) \in Seq(T) /\ Len(a \o <<e>>) = k
      /\ \A i \in 1 .. k : (a \o <<e>>)[i] = IF i < k THEN s[i] ELSE e
  BY <1>1
<1> DEFINE c == a \o <<e>>
<1> HIDE DEF c
<1>4. c \in Seq(T) /\ Len(c) = k /\ \A i \in 1 .. k : c[i] = IF i < k THEN s[i] ELSE e
  BY <1>3 DEF c
<1>5. /\ c \o b \in Seq(T) /\ Len(c \o b) = Len(s) + 1
      /\ \A i \in 1 .. Len(s) + 1 : (c \o b)[i] = IF i <= k THEN c[i] ELSE b[i - k]
  <2>1. Len(c) + Len(b) = Len(s) + 1
    BY <1>2, <1>4
  <2> QED
    BY <1>2, <1>4, <2>1, ConcatProperties
<1>6. InsertAt(s, k, e) = c \o b
  BY DEF InsertAt, a, b, c
<1>7. \A i \in 1 .. Len(s) + 1 : i > k => b[i - k] = s[i - 1]
  BY <1>2
<1> HIDE DEF InsertAt
<1> QED
  BY <1>4, <1>5, <1>6, <1>7

LEMMA InsertedAt ==
    ASSUME NEW T, NEW s \in Seq(T), NEW e \in T, NEW k \in 1 .. Len(s) + 1, NEW i \in 1 .. Len(s) + 1
    PROVE  InsertAt(s, k, e)[i] = IF i < k THEN s[i] ELSE IF i = k THEN e ELSE s[i - 1]
BY InsertAtIs

LEMMA RemoveAtIs ==
    ASSUME NEW T, NEW s \in Seq(T), NEW k \in 1 .. Len(s)
    PROVE  /\ RemoveAt(s, k) \in Seq(T)
           /\ Len(RemoveAt(s, k)) = Len(s) - 1
           /\ \A i \in 1 .. Len(s) - 1 :
                RemoveAt(s, k)[i] = IF i < k THEN s[i] ELSE s[i + 1]
<1> DEFINE a == SubSeq(s, 1, k - 1)
           b == SubSeq(s, k + 1, Len(s))
<1>1. a \in Seq(T) /\ Len(a) = k - 1 /\ \A i \in 1 .. k - 1 : a[i] = s[i]
  OBVIOUS
<1>2. b \in Seq(T) /\ Len(b) = Len(s) - k /\ \A i \in 1 .. Len(b) : b[i] = s[k + i]
  OBVIOUS
<1> HIDE DEF a, b
<1>3. /\ a \o b \in Seq(T) /\ Len(a \o b) = Len(s) - 1
      /\ \A i \in 1 .. Len(s) - 1 : (a \o b)[i] = IF i < k THEN a[i] ELSE b[i - (k - 1)]
  <2>1. Len(a) + Len(b) = Len(s) - 1
    BY <1>1, <1>2
  <2>2. /\ a \o b \in Seq(T) /\ Len(a \o b) = Len(a) + Len(b)
        /\ \A i \in 1 .. Len(a) + Len(b) : (a \o b)[i] = IF i <= Len(a) THEN a[i] ELSE b[i - Len(a)]
    BY <1>1, <1>2, ConcatProperties
  <2>3. Len(a) = k - 1 /\ \A i \in Int : i <= k - 1 <=> i < k
    BY <1>1
  <2> QED
    BY <2>1, <2>2, <2>3
<1>4. RemoveAt(s, k) = a \o b
  BY DEF RemoveAt, a, b
<1>5. \A i \in 1 .. Len(s) - 1 : i >= k => b[i - (k - 1)] = s[i + 1]
  BY <1>2
<1> HIDE DEF RemoveAt
<1> QED
  BY <1>1, <1>3, <1>4, <1>5

-----------------------------------------------------------------------------
(***************************************************************************)
(* Sums over finite sets (SumFunctionOnSet, SumFunction).                  *)
(***************************************************************************)
Chosen(s) == CHOOSE x \in s : TRUE

\* sum is the function of all subsets of S that the fold defines.
Sums(f, S, sum) ==
    sum = [s \in SUBSET S |-> IF s = {} THEN 0 ELSE f[Chosen(s)] + sum[s \ {Chosen(s)}]]

LEMMA ChosenIs == ASSUME NEW s, s # {} PROVE Chosen(s) \in s
BY DEF Chosen

LEMMA WithoutChosen ==
    ASSUME NEW T, IsFiniteSet(T), T # {}
    PROVE  /\ Chosen(T) \in T
           /\ IsFiniteSet(T \ {Chosen(T)})
           /\ Cardinality(T) \in Nat \ {0}
           /\ Cardinality(T \ {Chosen(T)}) = Cardinality(T) - 1
<1>1. Chosen(T) \in T
  BY ChosenIs
<1>2. IsFiniteSet(T \ {Chosen(T)}) /\ Cardinality(T \ {Chosen(T)}) = Cardinality(T) - 1
  BY <1>1, FS_RemoveElement
<1>3. Cardinality(T) \in Nat /\ Cardinality(T) # 0
  BY FS_CardinalityType, FS_EmptySet
<1> QED
  BY <1>1, <1>2, <1>3

LEMMA SumsExists ==
    ASSUME NEW f, NEW S, IsFiniteSet(S)
    PROVE  \E sum : Sums(f, S, sum)
<1> DEFINE Step(g, s) == IF s = {} THEN 0 ELSE f[Chosen(s)] + g[s \ {Chosen(s)}]
           Up(g, k) == \A s \in SUBSET S : Cardinality(s) <= k => g[s] = Step(g, s)
           Good == {k \in 0 .. Cardinality(S) : \E g : Up(g, k)}
<1>1. \A s \in SUBSET S : /\ IsFiniteSet(s) /\ Cardinality(s) \in 0 .. Cardinality(S)
                          /\ s # {} => Cardinality(s \ {Chosen(s)}) = Cardinality(s) - 1
  <2> SUFFICES ASSUME NEW s \in SUBSET S
               PROVE  /\ IsFiniteSet(s) /\ Cardinality(s) \in 0 .. Cardinality(S)
                      /\ s # {} => Cardinality(s \ {Chosen(s)}) = Cardinality(s) - 1
    OBVIOUS
  <2>1. IsFiniteSet(s) /\ Cardinality(s) <= Cardinality(S)
    BY FS_Subset
  <2>2. Cardinality(s) \in Nat /\ Cardinality(S) \in Nat
    BY <2>1, FS_CardinalityType
  <2>3. s # {} => Cardinality(s \ {Chosen(s)}) = Cardinality(s) - 1
    BY <2>1, FS_RemoveElement, ChosenIs
  <2> QED
    BY <2>1, <2>2, <2>3
<1>2. Cardinality(S) \in Nat
  BY FS_CardinalityType
<1>3. 0 \in Good
  <2> DEFINE g == [s \in SUBSET S |-> 0]
  <2>1. ASSUME NEW s \in SUBSET S, Cardinality(s) <= 0 PROVE s = {}
    <3>1. IsFiniteSet(s)
      BY <2>1, <1>1
    <3>2. Cardinality(s) \in Nat
      BY <3>1, FS_CardinalityType
    <3>3. Cardinality(s) = 0
      BY <2>1, <3>2
    <3> QED
      BY <3>1, <3>3, FS_EmptySet
  <2>2. Up(g, 0)
    BY <2>1
  <2> QED
    BY <1>2, <2>2
<1>4. ASSUME NEW k \in 0 .. Cardinality(S) - 1, k \in Good PROVE k + 1 \in Good
  <2>1. PICK g : Up(g, k)
    BY <1>4
  <2> DEFINE h == [s \in SUBSET S |-> IF Cardinality(s) <= k THEN g[s] ELSE Step(g, s)]
  <2>2. ASSUME NEW s \in SUBSET S, Cardinality(s) <= k + 1 PROVE h[s] = Step(h, s)
    <3>1. CASE s = {}
      <4>1. Cardinality(s) = 0
        BY <3>1, FS_EmptySet
      <4> QED
        BY <1>2, <2>1, <3>1, <4>1
    <3>2. CASE s # {}
      <4> DEFINE t == s \ {Chosen(s)}
      <4>1. t \in SUBSET S /\ Cardinality(t) <= k
        BY <1>1, <2>2, <3>2
      <4>2. h[t] = g[t]
        BY <4>1
      <4>3. h[s] = Step(g, s)
        BY <2>1
      <4> QED
        BY <3>2, <4>2, <4>3
    <3> QED
      BY <3>1, <3>2
  <2>3. Up(h, k + 1)
    <3> HIDE DEF h, Step
    <3> QED
      BY <2>2
  <2>4. k + 1 \in 0 .. Cardinality(S)
    BY <1>2
  <2> HIDE DEF Up
  <2> QED
    BY <2>3, <2>4
<1>5. Cardinality(S) \in Good
  <2> HIDE DEF Good
  <2> QED
    BY <1>2, <1>3, <1>4, NatSetInduction
<1>6. PICK g : Up(g, Cardinality(S))
  BY <1>5
<1> DEFINE sum == [s \in SUBSET S |-> g[s]]
<1>7. \A s \in SUBSET S : sum[s] = Step(sum, s)
  <2> SUFFICES ASSUME NEW s \in SUBSET S PROVE sum[s] = Step(sum, s)
    OBVIOUS
  <2>1. g[s] = Step(g, s)
    <3>1. Cardinality(s) <= Cardinality(S)
      BY FS_Subset
    <3> HIDE DEF Step
    <3> QED
      BY <1>6, <3>1
  <2>2. s \ {Chosen(s)} \in SUBSET S
    OBVIOUS
  <2> QED
    BY <2>1, <2>2
<1>8. sum = [s \in SUBSET S |-> Step(sum, s)]
  <2> HIDE DEF Step
  <2>1. sum = [s \in SUBSET S |-> sum[s]]
    OBVIOUS
  <2> HIDE DEF sum
  <2> QED
    BY <1>7, <2>1
<1>9. Sums(f, S, sum)
  BY <1>8 DEF Sums
<1> QED
  BY <1>9

\* Every subset's own fold has the value that the larger set's has for it.
LEMMA SumIs ==
    ASSUME NEW f, NEW S, IsFiniteSet(S)
    PROVE  SumFunctionOnSet(f, S) = IF S = {} THEN 0
              ELSE f[Chosen(S)] + SumFunctionOnSet(f, S \ {Chosen(S)})
<1> DEFINE fold(T) == CHOOSE sum : Sums(f, T, sum)
<1>1. ASSUME NEW T PROVE SumFunctionOnSet(f, T) = fold(T)[T]
  BY DEF SumFunctionOnSet, FoldFunctionOnSet, MapThenFoldSet, Sums, Chosen
<1>2. ASSUME NEW T, IsFiniteSet(T) PROVE Sums(f, T, fold(T))
  BY <1>2, SumsExists
<1> HIDE DEF fold
<1>3. S = {} => SumFunctionOnSet(f, S) = 0
  <2> SUFFICES ASSUME S = {} PROVE fold(S)[S] = 0
    BY <1>1
  <2>1. S \in SUBSET S
    OBVIOUS
  <2> QED
    BY <1>2, <2>1 DEF Sums
<1>4. ASSUME S # {} PROVE SumFunctionOnSet(f, S) = f[Chosen(S)] + SumFunctionOnSet(f, S \ {Chosen(S)})
  <2> DEFINE U == S \ {Chosen(S)}
  <2>1. S \in SUBSET S /\ U \in SUBSET S
    OBVIOUS
  <2>2. fold(S)[S] = f[Chosen(S)] + fold(S)[U]
    BY <1>2, <1>4, <2>1 DEF Sums
  <2>3. IsFiniteSet(U)
    BY FS_Subset, <2>1
  <2>4. [s \in SUBSET U |-> fold(S)[s]] = fold(U)
    <3> DEFINE a == fold(S)
               b == fold(U)
               Bad == {s \in SUBSET U : a[s] # b[s]}
               Sizes == {Cardinality(s) : s \in Bad}
    <3>1. /\ \A s \in SUBSET U : a[s] = IF s = {} THEN 0 ELSE f[Chosen(s)] + a[s \ {Chosen(s)}]
          /\ \A s \in SUBSET U : b[s] = IF s = {} THEN 0 ELSE f[Chosen(s)] + b[s \ {Chosen(s)}]
          /\ b = [s \in SUBSET U |-> b[s]]
      <4>1. Sums(f, S, a) /\ Sums(f, U, b)
        BY <1>2, <2>3
      <4>2. \A s \in SUBSET U : s \in SUBSET S
        OBVIOUS
      <4> HIDE DEF a, b, U
      <4>3. \A s \in SUBSET S : a[s] = IF s = {} THEN 0 ELSE f[Chosen(s)] + a[s \ {Chosen(s)}]
        BY <4>1 DEF Sums
      <4>4. \A s \in SUBSET U : b[s] = IF s = {} THEN 0 ELSE f[Chosen(s)] + b[s \ {Chosen(s)}]
        BY <4>1 DEF Sums
      <4>5. b = [s \in SUBSET U |-> b[s]]
        <5>1. b = [s \in SUBSET U |-> IF s = {} THEN 0 ELSE f[Chosen(s)] + b[s \ {Chosen(s)}]]
          BY <4>1 DEF Sums
        <5> QED
          BY <4>4, <5>1
      <4> QED
        BY <4>2, <4>3, <4>4, <4>5
    <3> HIDE DEF a, b, U
    <3>2. Bad = {}
      <4> SUFFICES ASSUME Bad # {} PROVE FALSE
        OBVIOUS
      <4>1. \A s \in SUBSET U : IsFiniteSet(s) /\ Cardinality(s) \in Nat
        BY <2>3, FS_Subset, FS_CardinalityType DEF U
      <4>2. Sizes \subseteq Nat /\ Sizes # {}
        BY <4>1
      <4>3. PICK m \in Sizes : \A k \in Sizes : m <= k
        <5> HIDE DEF Sizes
        <5> QED
          BY <4>2, LeastNat
      <4>4. PICK s \in Bad : Cardinality(s) = m
        BY <4>3
      <4>5. s # {}
        BY <3>1, <4>4
      <4>6. /\ Cardinality(s \ {Chosen(s)}) = Cardinality(s) - 1
            /\ s \ {Chosen(s)} \in SUBSET U
        BY <4>1, <4>4, <4>5, ChosenIs, FS_RemoveElement
      <4>7. s \ {Chosen(s)} \notin Bad
        BY <4>1, <4>3, <4>4, <4>6
      <4>8. a[s \ {Chosen(s)}] = b[s \ {Chosen(s)}]
        BY <4>6, <4>7
      <4>9. s \in SUBSET U
        BY <4>4
      <4>10. a[s] = b[s]
        BY <3>1, <4>8, <4>9
      <4> QED
        BY <4>4, <4>10
    <3>3. \A s \in SUBSET U : a[s] = b[s]
      BY <3>2
    <3>4. [s \in SUBSET U |-> a[s]] = b
      BY <3>1, <3>3
    <3> QED
      BY <3>4 DEF a, b
  <2>5. U \in SUBSET U
    OBVIOUS
  <2>6. fold(U)[U] = fold(S)[U]
    <3> HIDE DEF U
    <3>1. fold(U)[U] = [s \in SUBSET U |-> fold(S)[s]][U]
      BY <2>4
    <3> QED
      BY <2>5, <3>1
  <2> QED
    BY <1>1, <2>2, <2>6
<1> QED
  BY <1>3, <1>4

LEMMA SumEmpty == \A f : SumFunctionOnSet(f, {}) = 0
BY SumIs, FS_EmptySet

LEMMA SumType ==
    ASSUME NEW f, NEW S, IsFiniteSet(S), \A x \in S : f[x] \in Int
    PROVE  SumFunctionOnSet(f, S) \in Int
<1> DEFINE Sum(T) == SumFunctionOnSet(f, T)
           Good == {k \in 0 .. Cardinality(S) :
                      \A T \in SUBSET S : Cardinality(T) = k => Sum(T) \in Int}
<1>1. \A T \in SUBSET S : IsFiniteSet(T) /\ Cardinality(T) \in Nat
  BY FS_Subset, FS_CardinalityType
<1>2. Cardinality(S) \in Nat
  BY FS_CardinalityType
<1> HIDE DEF Sum
<1>3. 0 \in Good
  <2>1. \A T \in SUBSET S : Cardinality(T) = 0 => Sum(T) = 0
    BY <1>1, SumEmpty, FS_EmptySet DEF Sum
  <2> QED
    BY <1>2, <2>1
<1>4. ASSUME NEW k \in 0 .. Cardinality(S) - 1, k \in Good PROVE k + 1 \in Good
  <2>1. ASSUME NEW T \in SUBSET S, Cardinality(T) = k + 1 PROVE Sum(T) \in Int
    <3>0. IsFiniteSet(T) /\ T # {}
      <4>1. k + 1 # 0 /\ Cardinality({}) = 0
        BY FS_EmptySet
      <4> QED
        BY <1>1, <2>1, <4>1
    <3>1. T # {} /\ Chosen(T) \in T
      BY <3>0, ChosenIs
    <3>2. Cardinality(T \ {Chosen(T)}) = k /\ T \ {Chosen(T)} \in SUBSET S
      BY <2>1, <3>0, WithoutChosen
    <3>3. Sum(T \ {Chosen(T)}) \in Int
      BY <1>4, <3>2
    <3>4. Sum(T) = f[Chosen(T)] + Sum(T \ {Chosen(T)})
      BY <1>1, <3>1, SumIs DEF Sum
    <3> QED
      BY <3>1, <3>3, <3>4
  <2>2. k + 1 \in 0 .. Cardinality(S)
    BY <1>2
  <2> QED
    BY <2>1, <2>2
<1>5. Cardinality(S) \in Good
  <2> HIDE DEF Good
  <2> QED
    BY <1>2, <1>3, <1>4, NatSetInduction
<1>6. S \in SUBSET S
  OBVIOUS
<1>7. Sum(S) \in Int
  BY <1>5, <1>6
<1> QED
  BY <1>7 DEF Sum

\* The order in which the fold takes the elements makes no difference.
LEMMA SumRemove ==
    ASSUME NEW f, NEW S, IsFiniteSet(S), \A x \in S : f[x] \in Int, NEW e \in S
    PROVE  SumFunctionOnSet(f, S) = f[e] + SumFunctionOnSet(f, S \ {e})
<1> DEFINE Sum(T) == SumFunctionOnSet(f, T)
           Good == {k \in 0 .. Cardinality(S) :
                      \A T \in SUBSET S : Cardinality(T) = k =>
                          \A x \in T : Sum(T) = f[x] + Sum(T \ {x})}
<1>1. \A T \in SUBSET S : IsFiniteSet(T) /\ Cardinality(T) \in Nat
  BY FS_Subset, FS_CardinalityType
<1>2. Cardinality(S) \in Nat
  BY FS_CardinalityType
<1>3. \A T \in SUBSET S : Sum(T) \in Int
  <2> SUFFICES ASSUME NEW T \in SUBSET S PROVE Sum(T) \in Int
    OBVIOUS
  <2>1. IsFiniteSet(T) /\ \A x \in T : f[x] \in Int
    BY <1>1
  <2> QED
    BY <2>1, SumType
<1>4. \A T \in SUBSET S : T # {} => Sum(T) = f[Chosen(T)] + Sum(T \ {Chosen(T)})
  BY <1>1, SumIs
<1> HIDE DEF Sum
<1>5. 0 \in Good
  <2>1. \A T \in SUBSET S : Cardinality(T) = 0 => T = {}
    BY <1>1, FS_EmptySet
  <2> QED
    BY <1>2, <2>1
<1>6. ASSUME NEW k \in 0 .. Cardinality(S) - 1, k \in Good PROVE k + 1 \in Good
  <2>1. ASSUME NEW T \in SUBSET S, Cardinality(T) = k + 1, NEW x \in T
        PROVE  Sum(T) = f[x] + Sum(T \ {x})
    <3> DEFINE c == Chosen(T)
    <3>1. c \in T /\ Sum(T) = f[c] + Sum(T \ {c})
      BY <1>4, ChosenIs
    <3> HIDE DEF c
    <3>2. CASE x = c
      BY <3>1, <3>2
    <3>3. CASE x # c
      <4>0. ASSUME NEW y \in T PROVE T \ {y} \in SUBSET S /\ Cardinality(T \ {y}) = k
        <5>1. IsFiniteSet(T)
          BY <1>1
        <5>2. Cardinality(T \ {y}) = Cardinality(T) - 1
          BY <5>1, FS_RemoveElement
        <5> QED
          BY <2>1, <5>2
      <4>1. /\ T \ {c} \in SUBSET S /\ Cardinality(T \ {c}) = k /\ x \in T \ {c}
            /\ T \ {x} \in SUBSET S /\ Cardinality(T \ {x}) = k /\ c \in T \ {x}
        BY <3>1, <3>3, <4>0
      <4>2. Sum(T \ {c}) = f[x] + Sum((T \ {c}) \ {x})
        BY <1>6, <4>1
      <4>3. Sum(T \ {x}) = f[c] + Sum((T \ {x}) \ {c})
        BY <1>6, <4>1
      <4>4. (T \ {c}) \ {x} = (T \ {x}) \ {c} /\ (T \ {x}) \ {c} \in SUBSET S
        OBVIOUS
      <4>5. f[x] \in Int /\ f[c] \in Int /\ Sum((T \ {x}) \ {c}) \in Int
        BY <1>3, <3>1, <4>4
      <4> DEFINE rest == Sum((T \ {x}) \ {c})
      <4>6. Sum(T \ {c}) = f[x] + rest /\ Sum(T \ {x}) = f[c] + rest
        BY <4>2, <4>3, <4>4
      <4>7. rest \in Int
        BY <4>5
      <4> HIDE DEF rest
      <4>8. f[c] + (f[x] + rest) = f[x] + (f[c] + rest)
        BY <4>5, <4>7
      <4> QED
        BY <3>1, <4>6, <4>8
    <3> QED
      BY <3>2, <3>3
  <2>2. k + 1 \in 0 .. Cardinality(S)
    BY <1>2
  <2> QED
    BY <2>1, <2>2
<1>7. Cardinality(S) \in Good
  <2> HIDE DEF Good
  <2> QED
    BY <1>2, <1>5, <1>6, NatSetInduction
<1>8. S \in SUBSET S
  OBVIOUS
<1>9. Sum(S) = f[e] + Sum(S \ {e})
  BY <1>7, <1>8
<1> QED
  BY <1>9 DEF Sum

\* Sums of functions that agree on the set.
LEMMA SumSame ==
    ASSUME NEW f, NEW g, NEW S, IsFiniteSet(S),
           \A x \in S : f[x] = g[x], \A x \in S : f[x] \in Int
    PROVE  SumFunctionOnSet(f, S) = SumFunctionOnSet(g, S)
<1> DEFINE F(T) == SumFunctionOnSet(f, T)
           G(T) == SumFunctionOnSet(g, T)
           Good == {k \in 0 .. Cardinality(S) :
                      \A T \in SUBSET S : Cardinality(T) = k => F(T) = G(T)}
<1>1. \A T \in SUBSET S : IsFiniteSet(T) /\ Cardinality(T) \in Nat
  BY FS_Subset, FS_CardinalityType
<1>2. Cardinality(S) \in Nat
  BY FS_CardinalityType
<1>3. \A T \in SUBSET S : T # {} => /\ F(T) = f[Chosen(T)] + F(T \ {Chosen(T)})
                                    /\ G(T) = g[Chosen(T)] + G(T \ {Chosen(T)})
  BY <1>1, SumIs
<1>4. F({}) = 0 /\ G({}) = 0
  BY SumEmpty
<1> HIDE DEF F, G
<1>5. 0 \in Good
  <2>1. \A T \in SUBSET S : Cardinality(T) = 0 => T = {}
    BY <1>1, FS_EmptySet
  <2> QED
    BY <1>2, <1>4, <2>1
<1>6. ASSUME NEW k \in 0 .. Cardinality(S) - 1, k \in Good PROVE k + 1 \in Good
  <2>1. ASSUME NEW T \in SUBSET S, Cardinality(T) = k + 1 PROVE F(T) = G(T)
    <3>0. IsFiniteSet(T) /\ T # {}
      <4>1. k + 1 # 0 /\ Cardinality({}) = 0
        BY FS_EmptySet
      <4> QED
        BY <1>1, <2>1, <4>1
    <3>1. T # {} /\ Chosen(T) \in T
      BY <3>0, ChosenIs
    <3>2. Cardinality(T \ {Chosen(T)}) = k /\ T \ {Chosen(T)} \in SUBSET S
      BY <2>1, <3>0, WithoutChosen
    <3>3. F(T \ {Chosen(T)}) = G(T \ {Chosen(T)})
      BY <1>6, <3>2
    <3> QED
      BY <1>3, <3>1, <3>3
  <2>2. k + 1 \in 0 .. Cardinality(S)
    BY <1>2
  <2> QED
    BY <2>1, <2>2
<1>7. Cardinality(S) \in Good
  <2> HIDE DEF Good
  <2> QED
    BY <1>2, <1>5, <1>6, NatSetInduction
<1>8. S \in SUBSET S
  OBVIOUS
<1>9. F(S) = G(S)
  BY <1>7, <1>8
<1> QED
  BY <1>9 DEF F, G

\* One value changes.
LEMMA SumChange ==
    ASSUME NEW f, NEW g, NEW S, IsFiniteSet(S), NEW e \in S,
           \A x \in S : f[x] \in Int /\ g[x] \in Int,
           \A x \in S \ {e} : g[x] = f[x]
    PROVE  SumFunctionOnSet(g, S) = SumFunctionOnSet(f, S) - f[e] + g[e]
<1> DEFINE T == S \ {e}
<1>1. IsFiniteSet(T)
  BY FS_RemoveElement
<1>2. SumFunctionOnSet(f, T) = SumFunctionOnSet(g, T)
  <2> HIDE DEF T
  <2>1. \A x \in T : f[x] = g[x] /\ f[x] \in Int
    BY DEF T
  <2> QED
    BY <1>1, <2>1, SumSame
<1>3. /\ SumFunctionOnSet(f, S) = f[e] + SumFunctionOnSet(f, T)
      /\ SumFunctionOnSet(g, S) = g[e] + SumFunctionOnSet(g, T)
  BY SumRemove
<1>4. SumFunctionOnSet(f, T) \in Int
  <2> HIDE DEF T
  <2>1. \A x \in T : f[x] \in Int
    BY DEF T
  <2> QED
    BY <1>1, <2>1, SumType
<1> QED
  BY <1>2, <1>3, <1>4

\* A sum of zeros.
LEMMA SumZero ==
    ASSUME NEW f, NEW S, IsFiniteSet(S), \A x \in S : f[x] = 0
    PROVE  SumFunctionOnSet(f, S) = 0
<1> DEFINE Bad == {T \in SUBSET S : SumFunctionOnSet(f, T) # 0}
           Sizes == {Cardinality(T) : T \in Bad}
<1>1. \A T \in SUBSET S : IsFiniteSet(T) /\ Cardinality(T) \in Nat
  BY FS_Subset, FS_CardinalityType
<1>2. ASSUME Bad # {} PROVE FALSE
  <2>1. Sizes \subseteq Nat /\ Sizes # {}
    BY <1>1, <1>2
  <2>2. PICK m \in Sizes : \A k \in Sizes : m <= k
    <3> HIDE DEF Sizes
    <3> QED
      BY <2>1, LeastNat
  <2>3. PICK T \in Bad : Cardinality(T) = m
    BY <2>2
  <2>4. T \in SUBSET S /\ SumFunctionOnSet(f, T) # 0 /\ T # {}
    BY <2>3, SumEmpty
  <2>5. /\ Chosen(T) \in T /\ Cardinality(T \ {Chosen(T)}) = m - 1
        /\ T \ {Chosen(T)} \in SUBSET S
    BY <1>1, <2>3, <2>4, ChosenIs, FS_RemoveElement
  <2>6. m \in Nat
    BY <1>1, <2>3
  <2>7. T \ {Chosen(T)} \notin Bad
    BY <2>2, <2>5, <2>6
  <2>8. SumFunctionOnSet(f, T) = f[Chosen(T)] + SumFunctionOnSet(f, T \ {Chosen(T)})
    BY <1>1, <2>4, SumIs
  <2>9. SumFunctionOnSet(f, T \ {Chosen(T)}) = 0 /\ f[Chosen(T)] = 0
    BY <2>5, <2>7, <2>4
  <2> QED
    BY <2>4, <2>8, <2>9
<1> QED
  BY <1>2

LEMMA SumNat ==
    ASSUME NEW f, NEW S, IsFiniteSet(S), \A x \in S : f[x] \in Nat
    PROVE  SumFunctionOnSet(f, S) \in Nat
<1> DEFINE Bad == {T \in SUBSET S : SumFunctionOnSet(f, T) \notin Nat}
           Sizes == {Cardinality(T) : T \in Bad}
<1>1. \A T \in SUBSET S : IsFiniteSet(T) /\ Cardinality(T) \in Nat
  BY FS_Subset, FS_CardinalityType
<1>2. ASSUME Bad # {} PROVE FALSE
  <2>1. Sizes \subseteq Nat /\ Sizes # {}
    BY <1>1, <1>2
  <2>2. PICK m \in Sizes : \A k \in Sizes : m <= k
    <3> HIDE DEF Sizes
    <3> QED
      BY <2>1, LeastNat
  <2>3. PICK T \in Bad : Cardinality(T) = m
    BY <2>2
  <2>4. T \in SUBSET S /\ SumFunctionOnSet(f, T) \notin Nat /\ T # {}
    BY <2>3, SumEmpty
  <2>5. /\ Chosen(T) \in T /\ Cardinality(T \ {Chosen(T)}) = m - 1
        /\ T \ {Chosen(T)} \in SUBSET S
    BY <1>1, <2>3, <2>4, ChosenIs, FS_RemoveElement
  <2>6. m \in Nat
    BY <1>1, <2>3
  <2>7. T \ {Chosen(T)} \notin Bad
    BY <2>2, <2>5, <2>6
  <2>8. SumFunctionOnSet(f, T) = f[Chosen(T)] + SumFunctionOnSet(f, T \ {Chosen(T)})
    BY <1>1, <2>4, SumIs
  <2>9. SumFunctionOnSet(f, T \ {Chosen(T)}) \in Nat /\ f[Chosen(T)] \in Nat
    BY <2>5, <2>7, <2>4
  <2> QED
    BY <2>4, <2>8, <2>9
<1> QED
  BY <1>2

\* A sum over a set is that over a part of it and that over the rest.
LEMMA SumSplit ==
    ASSUME NEW f, NEW S, IsFiniteSet(S), \A x \in S : f[x] \in Int, NEW T \in SUBSET S
    PROVE  SumFunctionOnSet(f, S) = SumFunctionOnSet(f, T) + SumFunctionOnSet(f, S \ T)
<1> DEFINE Sum(U) == SumFunctionOnSet(f, U)
           Bad == {U \in SUBSET S : Sum(S) # Sum(U) + Sum(S \ U)}
           Sizes == {Cardinality(U) : U \in Bad}
<1>1. \A U \in SUBSET S : IsFiniteSet(U) /\ Cardinality(U) \in Nat
  BY FS_Subset, FS_CardinalityType
<1>2. \A U \in SUBSET S : Sum(U) \in Int
  <2> SUFFICES ASSUME NEW U \in SUBSET S PROVE Sum(U) \in Int
    OBVIOUS
  <2>1. IsFiniteSet(U) /\ \A x \in U : f[x] \in Int
    BY <1>1
  <2> QED
    BY <2>1, SumType
<1>3. ASSUME NEW U \in SUBSET S, NEW e \in U PROVE Sum(U) = f[e] + Sum(U \ {e})
  <2>1. IsFiniteSet(U) /\ \A x \in U : f[x] \in Int
    BY <1>1
  <2> QED
    BY <2>1, SumRemove
<1>4. ASSUME Bad # {} PROVE FALSE
  <2>1. Sizes \subseteq Nat /\ Sizes # {}
    BY <1>1, <1>4
  <2>2. PICK m \in Sizes : \A k \in Sizes : m <= k
    <3> HIDE DEF Sizes
    <3> QED
      BY <2>1, LeastNat
  <2>3. PICK U \in Bad : Cardinality(U) = m
    BY <2>2
  <2>4. U # {}
    <3>1. Sum({}) = 0 /\ S \ {} = S
      BY SumEmpty
    <3>2. Sum(S) \in Int
      BY <1>2
    <3> HIDE DEF Sum
    <3> QED
      BY <2>3, <3>1, <3>2
  <2>5. PICK e \in U : TRUE
    BY <2>4
  <2>6. U \in SUBSET S /\ U \ {e} \in SUBSET S /\ Cardinality(U \ {e}) = m - 1 /\ m \in Nat
    BY <1>1, <2>3, <2>5, FS_RemoveElement
  <2>7. Sum(S) = Sum(U \ {e}) + Sum(S \ (U \ {e}))
    <3>1. U \ {e} \notin Bad
      <4>1. U \ {e} \in Bad => m - 1 \in Sizes
        <5> HIDE DEF Bad
        <5> QED
          BY <2>6
      <4> HIDE DEF Bad, Sizes
      <4> QED
        BY <2>2, <2>6, <4>1
    <3> QED
      BY <2>6, <3>1
  <2>8. Sum(U) = f[e] + Sum(U \ {e})
    BY <1>3, <2>5, <2>6
  <2>9. Sum(S \ (U \ {e})) = f[e] + Sum(S \ U)
    <3>1. S \ (U \ {e}) \in SUBSET S /\ e \in S \ (U \ {e}) /\ (S \ (U \ {e})) \ {e} = S \ U
      BY <2>5, <2>6
    <3> QED
      BY <1>3, <3>1
  <2>10. f[e] \in Int /\ Sum(U \ {e}) \in Int /\ Sum(S \ U) \in Int /\ Sum(U) \in Int
    <3>1. S \ U \in SUBSET S /\ e \in S
      BY <2>5, <2>6
    <3> QED
      BY <1>2, <2>6, <3>1
  <2>11. Sum(S) # Sum(U) + Sum(S \ U)
    BY <2>3
  <2> HIDE DEF Sum
  <2> QED
    BY <2>7, <2>8, <2>9, <2>10, <2>11
<1> QED
  BY <1>4

-----------------------------------------------------------------------------
(***************************************************************************)
(* Binary trees.  The nodes are C, l[x] and r[x] are the children of x, and *)
(* f[x] is the set of the nodes below x, x too.                            *)
(***************************************************************************)
Forest(C, f, l, r) ==
    /\ IsFiniteSet(C)
    /\ \A x \in C : /\ f[x] \subseteq C
                    /\ f[x] = {x} \cup f[l[x]] \cup f[r[x]]
                    /\ x \notin f[l[x]] /\ x \notin f[r[x]]
                    /\ f[l[x]] # {} => l[x] \in C
                    /\ f[r[x]] # {} => r[x] \in C

\* Every set of nodes has one whose children are not in the set: the
\* induction over a tree.
LEMMA ForestLowest ==
    ASSUME NEW C, NEW f, NEW l, NEW r, Forest(C, f, l, r), NEW S, S \subseteq C, S # {}
    PROVE  \E x \in S : l[x] \notin S /\ r[x] \notin S
<1> DEFINE N == {Cardinality(f[x]) : x \in S}
<1>1. \A x \in S : IsFiniteSet(f[x]) /\ Cardinality(f[x]) \in Nat
  <2>1. IsFiniteSet(C) /\ \A x \in S : f[x] \subseteq C
    BY DEF Forest
  <2> QED
    BY <2>1, FS_Subset, FS_CardinalityType
<1>2. N \subseteq Nat /\ N # {}
  BY <1>1
<1>3. PICK m \in N : \A k \in N : m <= k
  <2> HIDE DEF N
  <2> QED
    BY <1>2, LeastNat
<1>4. PICK x \in S : m = Cardinality(f[x])
  BY <1>3
<1>5. ASSUME NEW c \in S, f[c] \subseteq f[x], x \in f[x], x \notin f[c] PROVE FALSE
  <2>1. m <= Cardinality(f[c])
    BY <1>3
  <2>2. Cardinality(f[c]) <= Cardinality(f[x]) /\ Cardinality(f[x]) # Cardinality(f[c])
    BY <1>1, <1>5, FS_Subset
  <2> QED
    BY <1>1, <1>4, <2>1, <2>2
<1>6. /\ f[l[x]] \subseteq f[x] /\ f[r[x]] \subseteq f[x]
      /\ x \in f[x] /\ x \notin f[l[x]] /\ x \notin f[r[x]]
  BY DEF Forest
<1> QED
  BY <1>5, <1>6

\* What is below a node below w is below w.
LEMMA ForestBelow ==
    ASSUME NEW C, NEW f, NEW l, NEW r, Forest(C, f, l, r), NEW w \in C, NEW z \in f[w]
    PROVE  z \in C /\ f[z] \subseteq f[w]
<1> DEFINE S == {x \in C : \E y \in f[x] : ~(f[y] \subseteq f[x])}
<1>1. S = {}
  <2>1. SUFFICES ASSUME S # {} PROVE FALSE
    OBVIOUS
  <2>2. PICK x \in S : l[x] \notin S /\ r[x] \notin S
    <3> HIDE DEF S
    <3>1. S \subseteq C
      BY DEF S
    <3> QED
      BY <2>1, <3>1, ForestLowest
  <2>3. PICK y \in f[x] : ~(f[y] \subseteq f[x])
    BY <2>2
  <2>4. PICK c \in {l[x], r[x]} : y \in f[c]
    BY <2>2, <2>3 DEF Forest
  <2>5. c \in C /\ f[c] \subseteq f[x]
    BY <2>2, <2>4 DEF Forest
  <2>6. f[y] \subseteq f[c]
    BY <2>2, <2>4, <2>5
  <2> QED
    BY <2>3, <2>5, <2>6
<1>2. z \in C
  BY DEF Forest
<1> QED
  BY <1>1, <1>2

\* A node below another one is the child of a node that is below it too.
LEMMA ForestChild ==
    ASSUME NEW C, NEW f, NEW l, NEW r, Forest(C, f, l, r), NEW w \in C, NEW y \in f[w], y # w
    PROVE  \E p \in f[w] : y = l[p] \/ y = r[p]
<1> DEFINE S == {x \in C : \E z \in f[x] : z # x /\ ~(\E p \in f[x] : z = l[p] \/ z = r[p])}
<1>1. S = {}
  <2>1. SUFFICES ASSUME S # {} PROVE FALSE
    OBVIOUS
  <2>2. PICK x \in S : l[x] \notin S /\ r[x] \notin S
    <3> HIDE DEF S
    <3>1. S \subseteq C
      BY DEF S
    <3> QED
      BY <2>1, <3>1, ForestLowest
  <2>3. PICK z \in f[x] : z # x /\ ~(\E p \in f[x] : z = l[p] \/ z = r[p])
    BY <2>2
  <2>4. PICK c \in {l[x], r[x]} : z \in f[c]
    BY <2>2, <2>3 DEF Forest
  <2>5. c \in C /\ f[c] \subseteq f[x] /\ x \in f[x]
    BY <2>2, <2>4 DEF Forest
  <2>6. z # c
    BY <2>3, <2>4, <2>5
  <2>7. \E p \in f[c] : z = l[p] \/ z = r[p]
    BY <2>2, <2>4, <2>5, <2>6
  <2> QED
    BY <2>3, <2>5, <2>7
<1> QED
  BY <1>1
=============================================================================
