--------------------------- MODULE RadixTreeProofs ---------------------------
(***************************************************************************)
(* Proofs about RadixTree, for any alphabet, any keys and any data: the    *)
(* stored counts are those of the links, removal leaves nothing behind, a  *)
(* traversal hands out every key that has data, once and with its own      *)
(* bytes, and the tree implements the abstract dictionary.                 *)
(***************************************************************************)
EXTENDS RadixTree, FunctionTheorems, FiniteSetTheorems, TLAPS

Facts == INSTANCE DataFacts

-----------------------------------------------------------------------------
(***************************************************************************)
(* Prefixes                                                                *)
(***************************************************************************)
LEMMA PrefixIs ==
    ASSUME NEW k \in Seq(Nibbles), NEW n \in 0 .. Len(k)
    PROVE  /\ Prefix(k, n) \in Seq(Nibbles) /\ Len(Prefix(k, n)) = n
           /\ \A i \in 1 .. n : Prefix(k, n)[i] = k[i]
BY DEF Prefix

LEMMA SameSeq ==
    ASSUME NEW p \in Seq(Nibbles), NEW q \in Seq(Nibbles), Len(p) = Len(q),
           \A i \in 1 .. Len(p) : p[i] = q[i]
    PROVE  p = q
OBVIOUS

LEMMA PrefixOfPrefix ==
    ASSUME NEW k \in Seq(Nibbles), NEW n \in 0 .. Len(k), NEW m \in 0 .. n
    PROVE  Prefix(Prefix(k, n), m) = Prefix(k, m)
<1> DEFINE a == Prefix(Prefix(k, n), m)
           b == Prefix(k, m)
<1>1. m \in 0 .. Len(k) /\ m \in 0 .. Len(Prefix(k, n))
  BY PrefixIs
<1>2. a \in Seq(Nibbles) /\ b \in Seq(Nibbles) /\ Len(a) = m /\ Len(b) = m
  BY <1>1, PrefixIs
<1>3. \A i \in 1 .. m : a[i] = Prefix(k, n)[i] /\ b[i] = k[i]
  BY <1>1, PrefixIs
<1>4. \A i \in 1 .. m : i \in 1 .. n
  OBVIOUS
<1>5. \A i \in 1 .. m : a[i] = b[i]
  BY <1>3, <1>4, PrefixIs
<1> HIDE DEF a, b
<1>6. a = b
  BY <1>2, <1>5, SameSeq
<1> QED
  BY <1>6 DEF a, b

LEMMA WholePrefix == ASSUME NEW k \in Seq(Nibbles) PROVE Prefix(k, Len(k)) = k /\ Prefix(k, 0) = Root
<1>1. Len(k) \in 0 .. Len(k) /\ 0 \in 0 .. Len(k)
  OBVIOUS
<1>2. Prefix(k, Len(k)) \in Seq(Nibbles) /\ Len(Prefix(k, Len(k))) = Len(k)
      /\ \A i \in 1 .. Len(k) : Prefix(k, Len(k))[i] = k[i]
  BY <1>1, PrefixIs
<1>3. Prefix(k, 0) \in Seq(Nibbles) /\ Len(Prefix(k, 0)) = 0
  BY <1>1, PrefixIs
<1> QED
  BY <1>2, <1>3, SameSeq DEF Root

\* The parent of a node, and the node as a child of its parent.
LEMMA ParentIs ==
    ASSUME NEW p \in Seq(Nibbles), p # Root
    PROVE  /\ Len(p) \in Nat \ {0}
           /\ Parent(p) \in Seq(Nibbles) /\ Len(Parent(p)) = Len(p) - 1
           /\ p[Len(p)] \in Nibbles /\ Append(Parent(p), p[Len(p)]) = p
<1>1. Len(p) \in Nat \ {0} /\ Len(p) - 1 \in 0 .. Len(p)
  BY DEF Root
<1>2. Parent(p) \in Seq(Nibbles) /\ Len(Parent(p)) = Len(p) - 1
      /\ \A i \in 1 .. Len(p) - 1 : Parent(p)[i] = p[i]
  BY <1>1, PrefixIs DEF Parent
<1>3. p[Len(p)] \in Nibbles
  BY <1>1
<1> DEFINE a == Append(Parent(p), p[Len(p)])
<1>4. a \in Seq(Nibbles) /\ Len(a) = Len(p) /\ \A i \in 1 .. Len(p) : a[i] = p[i]
  BY <1>1, <1>2, <1>3
<1> HIDE DEF a
<1>5. a = p
  BY <1>4, SameSeq
<1> QED
  BY <1>1, <1>2, <1>3, <1>5 DEF a

LEMMA ChildIs ==
    ASSUME NEW p \in Seq(Nibbles), NEW v \in Nibbles
    PROVE  /\ Append(p, v) \in Seq(Nibbles) /\ Len(Append(p, v)) = Len(p) + 1
           /\ Append(p, v)[Len(p) + 1] = v
           /\ Append(p, v) # Root
           /\ Parent(Append(p, v)) = p
           /\ \A n \in 0 .. Len(p) : Prefix(Append(p, v), n) = Prefix(p, n)
<1> DEFINE c == Append(p, v)
<1>1. /\ c \in Seq(Nibbles) /\ Len(c) = Len(p) + 1 /\ c[Len(p) + 1] = v
      /\ \A i \in 1 .. Len(p) : c[i] = p[i]
  OBVIOUS
<1> HIDE DEF c
<1>2. ASSUME NEW n \in 0 .. Len(p) PROVE Prefix(c, n) = Prefix(p, n)
  <2>1. n \in 0 .. Len(c)
    BY <1>1
  <2>2. /\ Prefix(c, n) \in Seq(Nibbles) /\ Len(Prefix(c, n)) = n
        /\ \A i \in 1 .. n : Prefix(c, n)[i] = c[i]
    BY <1>1, <2>1, PrefixIs
  <2>3. /\ Prefix(p, n) \in Seq(Nibbles) /\ Len(Prefix(p, n)) = n
        /\ \A i \in 1 .. n : Prefix(p, n)[i] = p[i]
    BY PrefixIs
  <2>4. \A i \in 1 .. n : Prefix(c, n)[i] = Prefix(p, n)[i]
    BY <1>1, <2>2, <2>3
  <2> QED
    BY <2>2, <2>3, <2>4, SameSeq
<1>3. Parent(c) = p
  <2>1. Len(c) - 1 = Len(p) /\ Len(p) \in 0 .. Len(p)
    BY <1>1
  <2> QED
    BY <1>2, <2>1, WholePrefix DEF Parent
<1>4. c # Root
  BY <1>1 DEF Root
<1> QED
  BY <1>1, <1>2, <1>3, <1>4 DEF c

LEMMA ParentOfPrefix ==
    ASSUME NEW k \in Seq(Nibbles), NEW n \in 1 .. Len(k)
    PROVE  Parent(Prefix(k, n)) = Prefix(k, n - 1)
<1>1. n \in 0 .. Len(k) /\ n - 1 \in 0 .. n
  OBVIOUS
<1>2. Len(Prefix(k, n)) = n
  BY <1>1, PrefixIs
<1> QED
  BY <1>1, <1>2, PrefixOfPrefix DEF Parent

LEMMA PrefixesAre ==
    ASSUME NEW k \in Seq(Nibbles)
    PROVE  /\ IsFiniteSet(PrefixesOf(k))
           /\ \A p \in PrefixesOf(k) : /\ p \in Seq(Nibbles) /\ Len(p) \in 1 .. Len(k)
                                       /\ p = Prefix(k, Len(p)) /\ p # Root
           /\ \A p \in PrefixesOf(k) : Len(p) > 1 => Parent(p) \in PrefixesOf(k)
<1> DEFINE f == [n \in 1 .. Len(k) |-> Prefix(k, n)]
<1>1. IsFiniteSet(PrefixesOf(k))
  <2>1. f \in Surjection(1 .. Len(k), PrefixesOf(k))
    BY DEF Surjection, PrefixesOf
  <2> QED
    BY <2>1, FS_Surjection, FS_Interval
<1>2. ASSUME NEW p \in PrefixesOf(k)
      PROVE  /\ p \in Seq(Nibbles) /\ Len(p) \in 1 .. Len(k)
             /\ p = Prefix(k, Len(p)) /\ p # Root
             /\ Len(p) > 1 => Parent(p) \in PrefixesOf(k)
  <2>1. PICK n \in 1 .. Len(k) : p = Prefix(k, n)
    BY DEF PrefixesOf
  <2>2. n \in 0 .. Len(k)
    OBVIOUS
  <2>3. p \in Seq(Nibbles) /\ Len(p) = n
    BY <2>1, <2>2, PrefixIs
  <2>4. p # Root
    BY <2>3 DEF Root
  <2>5. ASSUME n > 1 PROVE Parent(p) \in PrefixesOf(k)
    BY <2>1, <2>5, ParentOfPrefix DEF PrefixesOf
  <2> QED
    BY <2>1, <2>3, <2>4, <2>5
<1> QED
  BY <1>1, <1>2

LEMMA KeyIs ==
    ASSUME NEW d \in Data
    PROVE  /\ Key[d] \in Seq(Nibbles) /\ Len(Key[d]) \in Nat \ {0} /\ Len(Key[d]) % 2 = 0
           /\ Key[d] \in PrefixesOf(Key[d]) /\ PrefixesOf(Key[d]) \subseteq Paths
<1>1. Key[d] \in Seq(Nibbles) /\ Len(Key[d]) \in Nat \ {0} /\ Len(Key[d]) % 2 = 0
  <2>1. Key[d] \in Seq(Nibbles) /\ Len(Key[d]) > 0 /\ Len(Key[d]) % 2 = 0
    BY Zenon, KeyAssumption
  <2> DEFINE n == Len(Key[d])
  <2>2. n \in Nat /\ n > 0
    BY <2>1
  <2> HIDE DEF n
  <2>3. n \in Nat \ {0}
    BY <2>2
  <2> QED
    BY <2>1, <2>3 DEF n
<1>2. Len(Key[d]) \in 1 .. Len(Key[d]) /\ Prefix(Key[d], Len(Key[d])) = Key[d]
  BY <1>1, WholePrefix
<1> QED
  BY <1>1, <1>2 DEF PrefixesOf, Paths

LEMMA PathIs ==
    ASSUME NEW p \in Paths
    PROVE  /\ p \in Seq(Nibbles) /\ Len(p) \in Nat \ {0} /\ p # Root
           /\ Len(p) > 1 => Parent(p) \in Paths
           /\ Parent(p) \in Paths \cup {Root}
           /\ \A n \in 1 .. Len(p) : Prefix(p, n) \in Paths
<1>1. PICK d \in Data : p \in PrefixesOf(Key[d])
  BY DEF Paths
<1>2. /\ p \in Seq(Nibbles) /\ Len(p) \in 1 .. Len(Key[d]) /\ p # Root
      /\ p = Prefix(Key[d], Len(p))
      /\ Len(p) > 1 => Parent(p) \in PrefixesOf(Key[d])
      /\ PrefixesOf(Key[d]) \subseteq Paths /\ Key[d] \in Seq(Nibbles) /\ Len(Key[d]) \in Nat
  BY <1>1, KeyIs, PrefixesAre
<1>3. ASSUME NEW n \in 1 .. Len(p) PROVE Prefix(p, n) \in Paths
  <2>1. n \in 1 .. Len(Key[d]) /\ n \in 0 .. Len(p) /\ Len(p) \in 0 .. Len(Key[d])
    BY <1>2
  <2>2. Prefix(p, n) = Prefix(Key[d], n)
    BY <1>2, <2>1, PrefixOfPrefix
  <2> QED
    BY <1>2, <2>1, <2>2 DEF PrefixesOf
<1>4. Len(p) = 1 => Parent(p) = Root
  BY <1>2, WholePrefix DEF Parent
<1>5. Len(p) \in Nat \ {0} /\ (Len(p) = 1 \/ Len(p) > 1)
  <2> DEFINE n == Len(p)
  <2>1. n \in Nat \ {0}
    BY <1>2, ParentIs
  <2> HIDE DEF n
  <2>2. n = 1 \/ n > 1
    BY <2>1
  <2> QED
    BY <2>1, <2>2 DEF n
<1> QED
  BY <1>2, <1>3, <1>4, <1>5

-----------------------------------------------------------------------------
(***************************************************************************)
(* The links and their counts                                              *)
(***************************************************************************)
LEMMA DisjointUnion ==
    ASSUME NEW S, NEW T, IsFiniteSet(S), IsFiniteSet(T), S \cap T = {}
    PROVE  Cardinality(S \cup T) = Cardinality(S) + Cardinality(T)
<1>1. Cardinality(S \cup T) = Cardinality(S) + Cardinality(T) - Cardinality({})
  BY FS_Union
<1>2. Cardinality(S) \in Nat /\ Cardinality(T) \in Nat /\ Cardinality({}) = 0
  BY FS_CardinalityType, FS_EmptySet
<1> QED
  BY <1>1, <1>2

LEMMA Difference ==
    ASSUME NEW S, NEW T, IsFiniteSet(S), T \subseteq S
    PROVE  Cardinality(S \ T) = Cardinality(S) - Cardinality(T)
<1>1. S \cap T = T
  OBVIOUS
<1> QED
  BY <1>1, FS_Difference

Children(S, p) == {q \in S : Parent(q) = p}

LinksRight ==
    /\ nodes \subseteq Paths /\ IsFiniteSet(nodes)
    /\ DOMAIN n_children = Paths \cup {Root}
    /\ \A p \in Paths \cup {Root} : n_children[p] = Cardinality(Children(nodes, p))
    /\ \A p \in nodes : Len(p) > 1 => Parent(p) \in nodes
    /\ node_count = Cardinality(nodes)

LEMMA ChildrenFit ==
    ASSUME NEW S, S \subseteq Paths, NEW p
    PROVE  IsFiniteSet(Children(S, p)) /\ Cardinality(Children(S, p)) \in 0 .. Alphabet
<1> DEFINE C == Children(S, p)
           f == [q \in C |-> q[Len(q)]]
<1>1. \A q \in C : q[Len(q)] \in Nibbles /\ q = Append(p, q[Len(q)])
  BY PathIs, ParentIs DEF Children
<1>2. f \in Injection(C, Nibbles)
  <2>1. f \in [C -> Nibbles]
    BY <1>1
  <2>2. \A q, r \in C : f[q] = f[r] => q = r
    <3> SUFFICES ASSUME NEW q \in C, NEW r \in C, f[q] = f[r] PROVE q = r
      OBVIOUS
    <3>1. q[Len(q)] = r[Len(r)]
      OBVIOUS
    <3> QED
      BY <1>1, <3>1
  <2> HIDE DEF f, C
  <2> QED
    BY <2>1, <2>2 DEF Injection, IsInjective
<1>3. IsFiniteSet(Nibbles) /\ Cardinality(Nibbles) = Alphabet /\ Alphabet \in Nat
  <2>1. Alphabet \in Nat \ {0}
    BY KeyAssumption
  <2> QED
    BY <2>1, FS_Interval DEF Nibbles
<1> HIDE DEF f, C
<1>4. IsFiniteSet(C) /\ Cardinality(C) <= Alphabet
  BY <1>2, <1>3, FS_Injection
<1>5. Cardinality(C) \in Nat
  BY <1>4, FS_CardinalityType
<1>6. IsFiniteSet(C) /\ Cardinality(C) \in 0 .. Alphabet
  BY <1>3, <1>4, <1>5
<1> QED
  BY <1>6 DEF C

LEMMA AddKeeps ==
    ASSUME LinksRight, NEW k \in Seq(Nibbles), PrefixesOf(k) \subseteq Paths, Add(PrefixesOf(k))
    PROVE  LinksRight' /\ nodes' = nodes \cup PrefixesOf(k)
<1> DEFINE new == PrefixesOf(k) \ nodes
<1>1. /\ nodes' = nodes \cup new
      /\ n_children' = [p \in DOMAIN n_children |-> n_children[p] + Cardinality(Children(new, p))]
      /\ node_count' = node_count + Cardinality(new)
  BY DEF Add, Children
<1>2. IsFiniteSet(new) /\ new \subseteq Paths /\ nodes \cap new = {}
  <2>1. IsFiniteSet(PrefixesOf(k))
    BY PrefixesAre
  <2> QED
    BY <2>1, FS_Difference
<1>3. nodes' = nodes \cup PrefixesOf(k)
  BY <1>1
<1>4. \A p \in nodes' : Len(p) > 1 => Parent(p) \in nodes'
  BY <1>3, PrefixesAre DEF LinksRight
<1> HIDE DEF new
<1>5. nodes' \subseteq Paths /\ IsFiniteSet(nodes') /\ node_count' = Cardinality(nodes')
  BY <1>1, <1>2, FS_Union, DisjointUnion DEF LinksRight
<1>6. ASSUME NEW p \in Paths \cup {Root}
      PROVE  n_children'[p] = Cardinality(Children(nodes', p))
  <2>1. Children(nodes', p) = Children(nodes, p) \cup Children(new, p)
        /\ Children(nodes, p) \cap Children(new, p) = {}
    BY <1>1, <1>2 DEF Children
  <2>2. IsFiniteSet(Children(nodes, p)) /\ IsFiniteSet(Children(new, p))
    BY <1>2, ChildrenFit DEF LinksRight
  <2>3. Cardinality(Children(nodes', p)) = Cardinality(Children(nodes, p)) + Cardinality(Children(new, p))
    BY <2>1, <2>2, DisjointUnion
  <2>4. n_children'[p] = n_children[p] + Cardinality(Children(new, p))
    BY <1>1 DEF LinksRight
  <2> QED
    BY <2>3, <2>4 DEF LinksRight
<1>7. DOMAIN n_children' = Paths \cup {Root}
  BY <1>1 DEF LinksRight
<1> QED
  BY <1>3, <1>4, <1>5, <1>6, <1>7 DEF LinksRight, Children

Unused(k, q) == IF q = k THEN n_children[q] = 0
                ELSE user_data[q] = NULL /\ n_children[q] = 1

LEMMA OnlyChild ==
    ASSUME LinksRight, NEW q \in nodes, NEW r \in nodes, Parent(q) = Parent(r),
           n_children[Parent(q)] = 1
    PROVE  q = r
<1> DEFINE C == Children(nodes, Parent(q))
<1>1. Parent(q) \in Paths \cup {Root}
  BY PathIs DEF LinksRight
<1>2. IsFiniteSet(C) /\ Cardinality(C) = 1
  BY <1>1, ChildrenFit DEF LinksRight
<1>3. q \in C /\ r \in C
  BY DEF Children
<1> HIDE DEF C
<1>4. PICK x : C = {x}
  BY <1>2, FS_Singleton
<1> QED
  BY <1>3, <1>4

LEMMA NoChild ==
    ASSUME LinksRight, NEW q \in nodes
    PROVE  n_children[Parent(q)] # 0
<1> DEFINE C == Children(nodes, Parent(q))
<1>1. Parent(q) \in Paths \cup {Root}
  BY PathIs DEF LinksRight
<1>2. IsFiniteSet(C) /\ n_children[Parent(q)] = Cardinality(C)
  BY <1>1, ChildrenFit DEF LinksRight
<1>3. q \in C
  BY DEF Children
<1> HIDE DEF C
<1> QED
  BY <1>2, <1>3, FS_EmptySet

\* What a removal cuts off are nodes of the key's path, with all below them.
LEMMA CutIs ==
    ASSUME LinksRight, NEW k \in Seq(Nibbles), PrefixesOf(k) \subseteq nodes
    PROVE  /\ Cut(k) \subseteq PrefixesOf(k)
           /\ \A p \in Cut(k) : p # k => user_data[p] = NULL
           /\ \A p \in nodes : Parent(p) \in Cut(k) => p \in Cut(k)
           /\ k \in nodes /\ n_children[k] = 0 => k \in Cut(k)
           /\ \A p \in nodes : Parent(p) \in nodes \ Cut(k) /\ p \in Cut(k)
                                 => ~Unused(k, Parent(p)) /\ Parent(p) # k
<1>1. Cut(k) = {p \in PrefixesOf(k) : \A q \in PrefixesOf(k) : Len(q) >= Len(p) => Unused(k, q)}
  BY DEF Cut, Unused
<1>2. \A p \in PrefixesOf(k) : /\ p \in Seq(Nibbles) /\ Len(p) \in 1 .. Len(k)
                               /\ p = Prefix(k, Len(p)) /\ p # Root
                               /\ Len(p) > 1 => Parent(p) \in PrefixesOf(k)
  BY PrefixesAre
<1>3. \A p \in Cut(k) : Unused(k, p)
  <2> SUFFICES ASSUME NEW p \in Cut(k) PROVE Unused(k, p)
    OBVIOUS
  <2>1. p \in PrefixesOf(k) /\ Len(p) >= Len(p)
    BY <1>1, <1>2
  <2> QED
    BY <1>1, <2>1
<1>4. ASSUME NEW p \in nodes, Parent(p) \in Cut(k) PROVE p \in Cut(k)
  <2> DEFINE u == Parent(p)
             m == Len(u)
  <2>1. /\ u \in PrefixesOf(k) /\ Unused(k, u)
        /\ \A q \in PrefixesOf(k) : Len(q) >= m => Unused(k, q)
    BY <1>1, <1>3, <1>4
  <2>2. u \in Seq(Nibbles) /\ m \in 1 .. Len(k) /\ u = Prefix(k, m)
    BY <1>2, <2>1
  <2>3. n_children[u] # 0
    BY NoChild
  <2>4. u # k /\ n_children[u] = 1
    BY <2>1, <2>3 DEF Unused
  <2>5. m # Len(k)
    BY <2>2, <2>4, WholePrefix
  <2> DEFINE r == Prefix(k, m + 1)
  <2>6. m + 1 \in 1 .. Len(k) /\ m + 1 \in 0 .. Len(k) /\ m + 1 - 1 = m
    BY <2>2, <2>5
  <2>7. r \in PrefixesOf(k) /\ Parent(r) = u /\ Len(r) = m + 1
    BY <2>2, <2>6, ParentOfPrefix, PrefixIs DEF PrefixesOf
  <2> HIDE DEF r, m
  <2>8. r = p
    BY <2>4, <2>7, OnlyChild
  <2>9. ASSUME NEW q \in PrefixesOf(k), Len(q) >= Len(r) PROVE Unused(k, q)
    <3>1. Len(q) \in 1 .. Len(k)
      BY <1>2
    <3>2. Len(q) >= m
      BY <2>2, <2>7, <2>9, <3>1
    <3> QED
      BY <2>1, <3>2
  <2> QED
    BY <1>1, <2>7, <2>8, <2>9
<1>5. ASSUME k \in nodes, n_children[k] = 0 PROVE k \in Cut(k)
  <2>1. k # Root /\ k = Prefix(k, Len(k)) /\ Len(k) \in Nat
    BY <1>5, PathIs, WholePrefix DEF LinksRight
  <2>2. Len(k) \in 1 .. Len(k)
    BY <2>1, ParentIs
  <2>3. k \in PrefixesOf(k)
    BY <2>1, <2>2 DEF PrefixesOf
  <2>4. ASSUME NEW q \in PrefixesOf(k), Len(q) >= Len(k) PROVE Unused(k, q)
    <3>1. q = Prefix(k, Len(q)) /\ Len(q) \in 1 .. Len(k)
      BY <1>2
    <3>2. Len(q) = Len(k)
      BY <2>1, <2>4, <3>1
    <3> QED
      BY <1>5, <2>1, <3>1, <3>2 DEF Unused
  <2> QED
    BY <1>1, <2>3, <2>4
<1>6. ASSUME NEW p \in nodes, Parent(p) \in nodes \ Cut(k), p \in Cut(k)
      PROVE  ~Unused(k, Parent(p)) /\ Parent(p) # k
  <2> DEFINE u == Parent(p)
  <2>1. /\ p \in PrefixesOf(k) /\ p # Root /\ p \in Seq(Nibbles) /\ Len(p) \in 1 .. Len(k)
        /\ \A q \in PrefixesOf(k) : Len(q) >= Len(p) => Unused(k, q)
    BY <1>1, <1>2, <1>6
  <2>2. u \in Paths /\ u \in Seq(Nibbles) /\ Len(u) \in Nat \ {0} /\ Len(u) = Len(p) - 1
    BY <1>6, <2>1, PathIs, ParentIs DEF LinksRight
  <2>3. u \in PrefixesOf(k)
    <3>1. Len(p) > 1
      BY <2>1, <2>2
    <3> QED
      BY <1>2, <2>1, <3>1
  <2>4. u # k
    <3>1. Len(u) < Len(k)
      BY <2>1, <2>2
    <3> QED
      BY <2>2, <3>1
  <2>5. PICK q \in PrefixesOf(k) : Len(q) >= Len(u) /\ ~Unused(k, q)
    BY <1>1, <1>6, <2>3
  <2>6. Len(q) = Len(u)
    <3>1. Len(q) \in Nat /\ ~(Len(q) >= Len(p))
      BY <1>2, <2>1, <2>5
    <3> QED
      BY <2>1, <2>2, <2>5, <3>1
  <2>7. q = u
    BY <1>2, <2>3, <2>6
  <2> QED
    BY <2>4, <2>5, <2>7
<1> QED
  BY <1>1, <1>3, <1>4, <1>5, <1>6 DEF Unused

-----------------------------------------------------------------------------
(***************************************************************************)
(* The tree under the calls                                                *)
(***************************************************************************)
\* Data are at the ends of their own keys.
DataRight ==
    /\ user_data \in [Paths \cup {Root} -> Data \cup {NULL}] /\ user_data[Root] = NULL
    /\ \A p \in Paths \ nodes : user_data[p] = NULL
    /\ \A p \in Paths : user_data[p] # NULL => Key[user_data[p]] = p

TreeInv == LinksRight /\ DataRight

LEMMA InitTree == Init => TreeInv
<1> SUFFICES ASSUME Init PROVE TreeInv
  OBVIOUS
<1>1. /\ nodes = {} /\ node_count = 0
      /\ user_data = [p \in Paths \cup {Root} |-> NULL]
      /\ n_children = [p \in Paths \cup {Root} |-> 0]
  BY DEF Init
<1>2. \A p : Children(nodes, p) = {}
  BY <1>1 DEF Children
<1>3. LinksRight
  BY <1>1, <1>2, FS_EmptySet DEF LinksRight
<1> QED
  BY <1>1, <1>3 DEF TreeInv, DataRight

LEMMA InsertKeeps ==
    ASSUME TreeInv, NEW d \in Data, Insert(d)
    PROVE  TreeInv' /\ nodes' = nodes \cup PrefixesOf(Key[d])
<1> DEFINE k == Key[d]
<1>1. /\ k \in Seq(Nibbles) /\ k \in PrefixesOf(k) /\ PrefixesOf(k) \subseteq Paths
      /\ k \in Paths /\ k # Root
  BY KeyIs, PathIs
<1>2. LinksRight' /\ nodes' = nodes \cup PrefixesOf(k)
  BY <1>1, AddKeeps DEF Insert, TreeInv
<1>3. user_data' = [user_data EXCEPT ![k] = IF @ = NULL THEN d ELSE @]
  BY DEF Insert
<1>4. DataRight
  BY DEF TreeInv
<1> HIDE DEF k
<1>5. \A p \in Paths \cup {Root} : user_data'[p] = IF p = k /\ user_data[k] = NULL THEN d ELSE user_data[p]
  BY <1>1, <1>3, <1>4 DEF DataRight
<1>6. user_data' \in [Paths \cup {Root} -> Data \cup {NULL}]
  BY <1>1, <1>3, <1>4 DEF DataRight
<1>7. Key[d] = k
  BY DEF k
<1>8. \A p \in Paths : user_data'[p] # NULL => Key[user_data'[p]] = p
  BY <1>4, <1>5, <1>7 DEF DataRight
<1>9. DataRight'
  BY <1>1, <1>2, <1>4, <1>5, <1>6, <1>8 DEF DataRight
<1> QED
  BY <1>2, <1>9 DEF TreeInv, k

\* Every node on the way to a node is there.
LEMMA PrefixesThere ==
    ASSUME LinksRight, NEW k \in nodes
    PROVE  PrefixesOf(k) \subseteq nodes
<1>1. k \in Seq(Nibbles) /\ Len(k) \in Nat \ {0}
  BY PathIs DEF LinksRight
<1> DEFINE S == {j \in 0 .. Len(k) - 1 : Prefix(k, Len(k) - j) \in nodes}
           l == Len(k)
<1>2. 0 \in S
  BY <1>1, WholePrefix
<1>3. ASSUME NEW j \in 0 .. (l - 1) - 1, j \in S PROVE j + 1 \in S
  <2> DEFINE m == Len(k) - j
  <2>1. m \in 1 .. Len(k) /\ m \in 0 .. Len(k) /\ m > 1 /\ m - 1 = Len(k) - (j + 1)
        /\ j + 1 \in 0 .. Len(k) - 1
    BY <1>1
  <2>2. Prefix(k, m) \in nodes
    BY <1>3
  <2> HIDE DEF m
  <2>3. Parent(Prefix(k, m)) = Prefix(k, m - 1) /\ Len(Prefix(k, m)) = m
    BY <1>1, <2>1, ParentOfPrefix, PrefixIs
  <2> QED
    BY <2>1, <2>2, <2>3 DEF LinksRight
<1> HIDE DEF S, l
<1>4. l - 1 \in Nat /\ l \in Nat
  BY <1>1 DEF l
<1>5. 0 .. l - 1 \subseteq S
  BY <1>2, <1>3, <1>4, Facts!NatSetInduction
<1>6. ASSUME NEW n \in 1 .. l PROVE Prefix(k, n) \in nodes
  <2>1. l - n \in 0 .. l - 1 /\ l - (l - n) = n
    BY <1>4
  <2>2. l - n \in S
    BY <1>5, <2>1
  <2> QED
    BY <2>1, <2>2 DEF S, l
<1> QED
  BY <1>6 DEF PrefixesOf, l

LEMMA InsertFailsKeeps ==
    ASSUME TreeInv, NEW d \in Data, InsertFails(d)
    PROVE  TreeInv' /\ nodes \subseteq nodes' /\ Key[d] \notin nodes
<1> DEFINE k == Key[d]
<1>1. k \in Seq(Nibbles) /\ PrefixesOf(k) \subseteq Paths /\ Len(k) \in Nat \ {0}
  BY KeyIs
<1>2. PICK n \in 0 .. Len(k) - 1 : Prefix(k, n + 1) \notin nodes /\ Add(PrefixesOf(Prefix(k, n)))
  BY DEF InsertFails
<1>3. n \in 0 .. Len(k) /\ n + 1 \in 1 .. Len(k)
  BY <1>1
<1>4. Prefix(k, n) \in Seq(Nibbles) /\ Len(Prefix(k, n)) = n
  BY <1>1, <1>3, PrefixIs
<1>5. PrefixesOf(Prefix(k, n)) \subseteq Paths
  <2> SUFFICES ASSUME NEW m \in 1 .. n PROVE Prefix(Prefix(k, n), m) \in PrefixesOf(k)
    BY <1>1, <1>4 DEF PrefixesOf
  <2>1. m \in 0 .. n /\ m \in 1 .. Len(k)
    BY <1>1, <1>3
  <2> QED
    BY <1>1, <1>3, <2>1, PrefixOfPrefix DEF PrefixesOf
<1>6. LinksRight' /\ nodes' = nodes \cup PrefixesOf(Prefix(k, n))
  BY <1>2, <1>4, <1>5, AddKeeps DEF TreeInv
<1>7. user_data' = user_data
  BY DEF InsertFails
<1>8. DataRight'
  BY <1>6, <1>7 DEF DataRight, TreeInv
<1>9. k \notin nodes
  BY <1>2, <1>3, PrefixesThere DEF PrefixesOf, TreeInv
<1> QED
  BY <1>6, <1>8, <1>9 DEF TreeInv

LEMMA RemoveKeeps ==
    ASSUME TreeInv, NEW d \in Data, Remove(d)
    PROVE  TreeInv' /\ nodes' = nodes \ Cut(Key[d])
<1> DEFINE k == Key[d]
           cut == Cut(k)
<1>1. k \in Seq(Nibbles) /\ k \in PrefixesOf(k) /\ k \in Paths /\ k # Root
  BY KeyIs, PathIs
<1>2. PrefixesOf(k) \subseteq nodes
  BY DEF Remove, Found
<1>3. /\ user_data' = [user_data EXCEPT ![k] = NULL]
      /\ nodes' = nodes \ cut
      /\ n_children' = [p \in DOMAIN n_children |-> n_children[p] - Cardinality(Children(cut, p))]
      /\ node_count' = node_count - Cardinality(cut)
  BY DEF Remove, Children
<1>4. LinksRight /\ DataRight
  BY DEF TreeInv
<1>5. /\ cut \subseteq nodes /\ cut \subseteq Paths
      /\ \A p \in cut : p # k => user_data[p] = NULL
      /\ \A p \in nodes : Parent(p) \in cut => p \in cut
  <2>1. nodes \subseteq Paths
    BY <1>4 DEF LinksRight
  <2> QED
    BY <1>1, <1>2, <1>4, <2>1, CutIs
<1> HIDE DEF k, cut
<1>6. IsFiniteSet(nodes) /\ IsFiniteSet(cut)
  BY <1>4, <1>5, FS_Subset DEF LinksRight
<1>7. nodes' \subseteq Paths /\ IsFiniteSet(nodes') /\ node_count' = Cardinality(nodes')
  BY <1>3, <1>4, <1>5, <1>6, FS_Difference, Difference DEF LinksRight
<1>8. ASSUME NEW p \in Paths \cup {Root}
      PROVE  n_children'[p] = Cardinality(Children(nodes', p))
  <2>1. Children(nodes', p) = Children(nodes, p) \ Children(cut, p)
        /\ Children(cut, p) \subseteq Children(nodes, p)
    BY <1>3, <1>5 DEF Children
  <2>2. IsFiniteSet(Children(nodes, p))
    BY <1>4, ChildrenFit DEF LinksRight
  <2>3. Cardinality(Children(nodes', p)) = Cardinality(Children(nodes, p)) - Cardinality(Children(cut, p))
    BY <2>1, <2>2, Difference
  <2>4. n_children'[p] = n_children[p] - Cardinality(Children(cut, p))
    BY <1>3, <1>4 DEF LinksRight
  <2> QED
    BY <1>4, <2>3, <2>4 DEF LinksRight
<1>9. \A p \in nodes' : Len(p) > 1 => Parent(p) \in nodes'
  BY <1>3, <1>4, <1>5 DEF LinksRight
<1>10. LinksRight'
  <2>1. DOMAIN n_children' = Paths \cup {Root}
    BY <1>3, <1>4 DEF LinksRight
  <2> QED
    BY <1>7, <1>8, <1>9, <2>1 DEF LinksRight, Children
<1>11. \A p \in Paths \cup {Root} : user_data'[p] = IF p = k THEN NULL ELSE user_data[p]
  BY <1>1, <1>3, <1>4 DEF DataRight
<1>12. DataRight'
  <2>1. user_data' \in [Paths \cup {Root} -> Data \cup {NULL}]
    BY <1>3, <1>4 DEF DataRight
  <2> QED
    BY <1>3, <1>4, <1>5, <1>11, <2>1 DEF DataRight
<1> QED
  BY <1>3, <1>10, <1>12 DEF TreeInv, k, cut

LEMMA TreeStays == ASSUME TreeInv, UNCHANGED treeVars PROVE TreeInv'
BY DEF TreeInv, LinksRight, DataRight, Children, treeVars

\* All other steps leave the tree alone.
LEMMA OthersLeaveTree ==
    /\ \A d \in Data : \/ Search(d) \/ RemoveFails(d)
                       \/ \E op \in {"insert", "remove"} : Refuse(op, d)
                       \/ \E op \in {"search", "remove"} : Crash(op, d)
                       => UNCHANGED treeVars
    /\ \A t \in Threads : Traverse(t) => UNCHANGED treeVars
<1>1. ASSUME NEW d \in Data,
             \/ Search(d) \/ RemoveFails(d)
             \/ \E op \in {"insert", "remove"} : Refuse(op, d)
             \/ \E op \in {"search", "remove"} : Crash(op, d)
      PROVE UNCHANGED treeVars
  BY <1>1 DEF Search, RemoveFails, Refuse, Crash
<1>2. ASSUME NEW t \in Threads, Traverse(t) PROVE UNCHANGED treeVars
  BY <1>2 DEF Traverse, TraverseTest, TraverseSet, TraverseNoMemory, TraverseBegin, TraverseDown,
              TraverseCall, TraverseUp, TraverseReturned, TraverseClear
<1> QED
  BY <1>1, <1>2

LEMMA NextTree == TreeInv /\ [Next]_vars => TreeInv'
<1> SUFFICES ASSUME TreeInv, [Next]_vars PROVE TreeInv'
  OBVIOUS
<1>1. ASSUME NEW d \in Data, Operate(d) PROVE TreeInv'
  <2>1. CASE Insert(d)
    BY <2>1, InsertKeeps
  <2>2. CASE InsertFails(d)
    BY <2>2, InsertFailsKeeps
  <2>3. CASE Remove(d)
    BY <2>3, RemoveKeeps
  <2> QED
    BY <1>1, <2>1, <2>2, <2>3, OthersLeaveTree, TreeStays DEF Operate
<1>2. ASSUME NEW t \in Threads, Traverse(t) PROVE TreeInv'
  BY <1>2, OthersLeaveTree, TreeStays
<1>3. CASE UNCHANGED vars
  BY <1>3, TreeStays DEF vars
<1> QED
  BY <1>1, <1>2, <1>3 DEF Next

-----------------------------------------------------------------------------
(***************************************************************************)
(* Nothing is left behind                                                  *)
(***************************************************************************)
LEMMA InsertLeaves ==
    ASSUME TreeInv, NEW d \in Data, Insert(d)
    PROVE  BareLeaves' \subseteq BareLeaves
<1> DEFINE k == Key[d]
<1>1. /\ k \in Seq(Nibbles) /\ k \in Paths /\ Len(k) \in Nat /\ k \in PrefixesOf(k)
      /\ nodes' = nodes \cup PrefixesOf(k)
  BY KeyIs, InsertKeeps
<1>2. /\ \A p \in Paths \cup {Root} : user_data'[p] = IF p = k /\ user_data[k] = NULL THEN d ELSE user_data[p]
      /\ d # NULL
  <2>1. user_data' = [user_data EXCEPT ![k] = IF @ = NULL THEN d ELSE @]
    BY DEF Insert
  <2> HIDE DEF k
  <2> QED
    BY <1>1, <2>1, KeyAssumption DEF TreeInv, DataRight
<1> HIDE DEF k
<1> SUFFICES ASSUME NEW p \in nodes', user_data'[p] = NULL, \A q \in nodes' : Parent(q) # p
             PROVE  p \in BareLeaves
  BY DEF BareLeaves
<1>3. p \in Paths
  BY InsertKeeps DEF TreeInv, LinksRight
<1>4. p # k
  BY <1>1, <1>2
<1>5. p \notin PrefixesOf(k)
  <2> SUFFICES ASSUME p \in PrefixesOf(k) PROVE FALSE
    OBVIOUS
  <2> DEFINE m == Len(p)
  <2>1. p \in Seq(Nibbles) /\ m \in 1 .. Len(k) /\ p = Prefix(k, m)
    BY <1>1, PrefixesAre
  <2>2. m # Len(k)
    BY <1>1, <1>4, <2>1, WholePrefix
  <2> HIDE DEF m
  <2>3. m + 1 \in 1 .. Len(k) /\ m + 1 - 1 = m
    BY <1>1, <2>1, <2>2
  <2>4. Parent(Prefix(k, m + 1)) = p /\ Prefix(k, m + 1) \in PrefixesOf(k)
    BY <1>1, <2>1, <2>3, ParentOfPrefix DEF PrefixesOf
  <2> QED
    BY <1>1, <2>4
<1>6. p \in nodes /\ user_data[p] = NULL /\ \A q \in nodes : Parent(q) # p
  BY <1>1, <1>2, <1>3, <1>4, <1>5
<1> QED
  BY <1>6 DEF BareLeaves

LEMMA RemoveLeaves ==
    ASSUME TreeInv, NEW d \in Data, Remove(d)
    PROVE  BareLeaves' \subseteq BareLeaves
<1> DEFINE k == Key[d]
           cut == Cut(k)
<1>1. k \in Seq(Nibbles) /\ k \in Paths /\ k \in PrefixesOf(k) /\ PrefixesOf(k) \subseteq nodes
  BY KeyIs DEF Remove, Found
<1>2. nodes' = nodes \ cut
  BY RemoveKeeps
<1>3. /\ cut \subseteq PrefixesOf(k)
      /\ n_children[k] = 0 => k \in cut
      /\ \A p \in nodes : Parent(p) \in nodes \ cut /\ p \in cut
                            => ~Unused(k, Parent(p)) /\ Parent(p) # k
  BY <1>1, CutIs DEF TreeInv
<1>4. \A p \in Paths \cup {Root} : user_data'[p] = IF p = k THEN NULL ELSE user_data[p]
  BY <1>1 DEF Remove, TreeInv, DataRight
<1>5. LinksRight
  BY DEF TreeInv
<1> SUFFICES ASSUME NEW p \in nodes', user_data'[p] = NULL, \A q \in nodes' : Parent(q) # p,
                    p \notin BareLeaves
             PROVE  FALSE
  BY DEF BareLeaves
<1> HIDE DEF k, cut
<1>6. p \in nodes /\ p \notin cut /\ p \in Paths /\ p # Root
  BY <1>2, <1>5, PathIs DEF LinksRight
<1>7. ASSUME NEW q \in nodes, Parent(q) = p PROVE q \in cut
  BY <1>2, <1>7
<1>8. PICK q \in nodes : Parent(q) = p
  <2> SUFFICES ASSUME \A q \in nodes : Parent(q) # p PROVE FALSE
    OBVIOUS
  <2>1. n_children[p] = 0
    <3>1. Children(nodes, p) = {}
      BY DEF Children
    <3> QED
      BY <1>5, <1>6, <3>1, FS_EmptySet DEF LinksRight
  <2>2. p # k
    BY <1>3, <1>6, <2>1
  <2> QED
    BY <1>4, <1>6, <2>2 DEF BareLeaves
<1>9. q \in cut /\ q \in PrefixesOf(k)
  BY <1>3, <1>7, <1>8
<1>10. p # k /\ ~Unused(k, p)
  BY <1>3, <1>6, <1>8, <1>9
<1>11. n_children[p] # 1
  BY <1>4, <1>6, <1>10 DEF Unused
<1>12. PICK r \in nodes : Parent(r) = p /\ r # q
  <2> SUFFICES ASSUME \A r \in nodes : Parent(r) = p => r = q PROVE FALSE
    OBVIOUS
  <2>1. Children(nodes, p) = {q}
    BY <1>8 DEF Children
  <2> QED
    BY <1>5, <1>6, <1>11, <2>1, FS_Singleton DEF LinksRight
<1>13. r \in PrefixesOf(k) /\ r \in Paths /\ q \in Paths
  BY <1>3, <1>5, <1>7, <1>12 DEF LinksRight
<1>14. Len(r) = Len(q)
  <2>1. /\ Len(r) \in Nat \ {0} /\ Len(p) = Len(r) - 1
        /\ Len(q) \in Nat \ {0} /\ Len(p) = Len(q) - 1
    BY <1>8, <1>12, <1>13, PathIs, ParentIs
  <2> QED
    BY <2>1
<1> QED
  BY <1>1, <1>9, <1>12, <1>13, <1>14, PrefixesAre

LEMMA LeavesStep == TreeInv /\ [Next]_vars =>
    [(\E d \in Data : Insert(d) \/ Remove(d)) => BareLeaves' \subseteq BareLeaves]_vars
BY InsertLeaves, RemoveLeaves

-----------------------------------------------------------------------------
(***************************************************************************)
(* The dictionary                                                          *)
(***************************************************************************)
Store == {user_data[p] : p \in nodes} \ {NULL}

StoreRight == \A e : e \in Store <=> e \in Data /\ Key[e] \in nodes /\ user_data[Key[e]] = e

LEMMA StoreIs ==
    ASSUME TreeInv
    PROVE  /\ \A e : e \in Store <=> e \in Data /\ Key[e] \in nodes /\ user_data[Key[e]] = e
           /\ \A d \in Data : (\A e \in Store : Key[e] # Key[d]) <=> user_data[Key[d]] = NULL
           /\ \A d \in Data : Found(Key[d]) <=> user_data[Key[d]] # NULL
<1>1. NULL \notin Data
  BY KeyAssumption
<1>2. /\ nodes \subseteq Paths
      /\ \A p \in Paths : /\ user_data[p] \in Data \cup {NULL}
                          /\ user_data[p] # NULL => Key[user_data[p]] = p /\ p \in nodes
  BY DEF TreeInv, LinksRight, DataRight
<1>3. \A e : e \in Store <=> e \in Data /\ Key[e] \in nodes /\ user_data[Key[e]] = e
  BY <1>1, <1>2 DEF Store
<1>4. \A d \in Data : Key[d] \in Paths
  BY KeyIs
<1>5. ASSUME NEW d \in Data
      PROVE  (\A e \in Store : Key[e] # Key[d]) <=> user_data[Key[d]] = NULL
  <2> DEFINE x == user_data[Key[d]]
  <2>1. x \in Data \cup {NULL} /\ (x # NULL => Key[x] = Key[d] /\ Key[d] \in nodes)
    BY <1>2, <1>4
  <2>2. x # NULL => x \in Store
    BY <1>3, <2>1
  <2>3. ASSUME x = NULL, NEW e \in Store, Key[e] = Key[d] PROVE FALSE
    BY <1>1, <1>3, <2>3
  <2> QED
    BY <2>1, <2>2, <2>3
<1>6. ASSUME NEW d \in Data
      PROVE  Found(Key[d]) <=> user_data[Key[d]] # NULL
  BY <1>2, <1>4, PrefixesThere DEF Found, TreeInv
<1> QED
  BY <1>3, <1>5, <1>6

LEMMA TreeStore == TreeInv => StoreRight
BY StoreIs DEF StoreRight

LEMMA TreeStoreNext == TreeInv' => StoreRight'
BY TreeStore, PTL

Frozen == should_not_be_modified

\* A change of the data at one key.
LEMMA StoreStep ==
    ASSUME TreeInv, TreeInv', NEW d \in Data,
           \A p \in Paths : p # Key[d] => user_data'[p] = user_data[p]
    PROVE  \A e : Key[e] # Key[d] => (e \in Store' <=> e \in Store)
<1>1. NULL \notin Data
  BY KeyAssumption
<1>2. /\ \A e : e \in Store' <=> e \in Data /\ user_data'[Key[e]] = e
      /\ \A e : e \in Store <=> e \in Data /\ user_data[Key[e]] = e
  <2>1. /\ \A p \in Paths \ nodes : user_data[p] = NULL
        /\ \A p \in Paths \ nodes' : user_data'[p] = NULL
    BY DEF TreeInv, DataRight
  <2>2. \A e \in Data : Key[e] \in Paths
    BY KeyIs
  <2> QED
    BY <1>1, <2>1, <2>2, TreeStore, TreeStoreNext DEF StoreRight
<1>3. \A e \in Data : Key[e] \in Paths
  BY KeyIs
<1> QED
  BY <1>2, <1>3

LEMMA DictNexts ==
    /\ \A d, e \in Data : Dict!InsertOver(d, e) => Dict!Next
    /\ \A d, e \in Data : Dict!Search(d, e) => Dict!Next
    /\ \A d, e \in Data : Dict!Remove(d, e) => Dict!Next
    /\ \A d \in Data : \A rc \in {"ENOSPC", "ENOMEM"} : Dict!InsertFails(d, rc) => Dict!Next
    /\ \A d \in Data : \A op \in {"insert", "remove"} : Dict!Refuse(op, d) => Dict!Next
BY DEF Dict!Next

LEMMA InsertStep ==
    ASSUME TreeInv, NEW d \in Data, Insert(d)
    PROVE  Dict!Next
<1> DEFINE k == Key[d]
           e == user_data[Key[d]]
<1>1. /\ TreeInv' /\ k \in Paths /\ d # NULL /\ ~Frozen /\ Frozen' = Frozen
      /\ Dict!Says("insert", d, "ok", e)
  BY InsertKeeps, KeyIs, KeyAssumption DEF Insert, Says, Dict!Says, Frozen
<1>2. \A p \in Paths : user_data'[p] = IF p = k /\ e = NULL THEN d ELSE user_data[p]
  <2>1. user_data' = [user_data EXCEPT ![k] = IF @ = NULL THEN d ELSE @]
    BY DEF Insert
  <2> QED
    BY <1>1, <2>1 DEF TreeInv, DataRight
<1>3. \A x : Key[x] # k => (x \in Store' <=> x \in Store)
  BY <1>1, <1>2, StoreStep
<1>4. /\ \A x : x \in Store' <=> x \in Data /\ user_data'[Key[x]] = x /\ Key[x] \in nodes'
      /\ \A x : x \in Store <=> x \in Data /\ user_data[Key[x]] = x /\ Key[x] \in nodes
  BY <1>1, TreeStore, TreeStoreNext DEF StoreRight
<1>5. k \in nodes'
  BY InsertKeeps, KeyIs
<1>6. CASE e = NULL
  <2>1. \A x : x \in Store' <=> x \in Store \/ x = d
    <3>1. user_data'[k] = d
      BY <1>1, <1>2, <1>6
    <3>2. \A x \in Store' : Key[x] = k => x = d
      BY <1>4, <3>1
    <3>3. d \in Store'
      BY <1>4, <1>5, <3>1
    <3>4. \A x \in Store : Key[x] # k
      BY <1>6, StoreIs
    <3> HIDE DEF k, e
    <3> QED
      BY <1>3, <3>2, <3>3, <3>4
  <2>2. Store' = Store \cup {d}
    BY <2>1
  <2>3. Dict!Missing(d)
    BY <1>6, StoreIs DEF Dict!Missing, Store
  <2>4. Dict!Insert(d)
    BY <1>1, <1>6, <2>2, <2>3 DEF Dict!Insert, Store, Frozen
  <2> QED
    BY <2>4 DEF Dict!Next
<1>7. CASE e # NULL
  <2>1. \A x : x \in Store' <=> x \in Store
    <3>1. user_data'[k] = e
      BY <1>1, <1>2, <1>7
    <3>2. k \in nodes
      BY <1>1, <1>7 DEF TreeInv, DataRight
    <3> HIDE DEF k, e
    <3>3. user_data[k] = e
      BY DEF e, k
    <3> QED
      BY <1>3, <1>4, <1>5, <3>1, <3>2, <3>3
  <2>2. Store' = Store
    BY <2>1
  <2>3. e \in Data /\ e \in Store /\ Key[e] = k
    <3>1. e \in Data \cup {NULL} /\ Key[e] = k /\ k \in nodes
      BY <1>1, <1>7 DEF TreeInv, DataRight
    <3> QED
      BY <1>4, <1>7, <3>1
  <2> HIDE DEF e
  <2>4. PICK x \in Data : x = e
    BY <2>3
  <2>5. Dict!InsertOver(d, x)
    <3>1. Dict!Has(d, x)
      BY <2>3, <2>4 DEF Dict!Has, Store
    <3> QED
      BY <1>1, <2>2, <2>4, <3>1 DEF Dict!InsertOver, Dict!Says, Store, Frozen
  <2> QED
    BY <2>5, DictNexts
<1> QED
  BY <1>6, <1>7

LEMMA RemoveStep ==
    ASSUME TreeInv, NEW d \in Data, Remove(d)
    PROVE  Dict!Next
<1> DEFINE k == Key[d]
           e == user_data[Key[d]]
<1>1. /\ TreeInv' /\ k \in Paths /\ ~Frozen /\ Frozen' = Frozen
      /\ Dict!Says("remove", d, "ok", e) /\ e # NULL
  BY RemoveKeeps, KeyIs DEF Remove, Says, Dict!Says, Frozen, Found
<1>2. \A p \in Paths : user_data'[p] = IF p = k THEN NULL ELSE user_data[p]
  BY <1>1 DEF TreeInv, DataRight, Remove
<1>3. \A x : Key[x] # k => (x \in Store' <=> x \in Store)
  BY <1>1, <1>2, StoreStep
<1>4. e \in Data /\ e \in Store /\ Key[e] = k
  <2>1. e \in Data \cup {NULL} /\ Key[e] = k /\ k \in nodes
    BY <1>1 DEF TreeInv, DataRight
  <2> QED
    BY <1>1, <2>1, TreeStore DEF StoreRight
<1>5. \A x \in Store : Key[x] = k => x = e
  BY TreeStore DEF StoreRight
<1>6. \A x \in Store' : Key[x] # k
  <2>1. user_data'[k] = NULL /\ NULL \notin Data
    BY <1>1, <1>2, KeyAssumption
  <2> QED
    BY <1>1, <2>1, TreeStoreNext DEF StoreRight
<1> HIDE DEF e
<1>7. Store' = Store \ {e}
  <2>1. \A x : x \in Store' <=> x \in Store /\ x # e
    BY <1>3, <1>4, <1>5, <1>6
  <2> QED
    BY <2>1
<1>8. PICK x \in Data : x = e
  BY <1>4
<1>9. Dict!Has(d, x)
  BY <1>4, <1>8 DEF Dict!Has, Store
<1>10. Dict!Remove(d, x)
  BY <1>1, <1>7, <1>8, <1>9 DEF Dict!Remove, Dict!Says, Store, Frozen
<1> QED
  BY <1>10, DictNexts

LEMMA InsertFailsStep ==
    ASSUME TreeInv, NEW d \in Data, InsertFails(d)
    PROVE  Dict!Next
<1>1. /\ TreeInv' /\ Key[d] \in Paths /\ Key[d] \notin nodes /\ nodes \subseteq nodes'
      /\ user_data' = user_data
      /\ ~Frozen /\ Frozen' = Frozen /\ Dict!Says("insert", d, "ENOMEM", NULL)
  BY InsertFailsKeeps, KeyIs DEF InsertFails, Says, Dict!Says, Frozen
<1>2. Store' = Store
  <2> SUFFICES ASSUME NEW e PROVE e \in Store' <=> e \in Store
    OBVIOUS
  <2>1. e \in Data /\ user_data[Key[e]] = e => Key[e] \in nodes
    BY KeyIs, KeyAssumption DEF TreeInv, DataRight
  <2> QED
    BY <1>1, <2>1, TreeStore, TreeStoreNext DEF StoreRight
<1>3. Dict!Missing(d)
  <2>1. user_data[Key[d]] = NULL
    BY <1>1 DEF TreeInv, DataRight
  <2> QED
    BY <2>1, StoreIs DEF Dict!Missing, Store
<1>4. Dict!InsertFails(d, "ENOMEM")
  BY <1>1, <1>2, <1>3 DEF Dict!InsertFails, Store, Frozen
<1> QED
  BY <1>4, DictNexts

LEMMA SearchStep ==
    ASSUME TreeInv, NEW d \in Data, Search(d) \/ RemoveFails(d)
    PROVE  Dict!Next
<1> DEFINE e == user_data[Key[d]]
<1>1. Store' = Store /\ Frozen' = Frozen /\ Key[d] \in Paths
  BY KeyIs DEF Search, RemoveFails, treeVars, Store, Frozen
<1>2. ASSUME ~Found(Key[d]) PROVE Dict!Missing(d)
  BY <1>2, StoreIs DEF Dict!Missing, Store
<1>3. CASE Search(d) /\ Found(Key[d])
  <2>1. Dict!Says("search", d, "ok", e) /\ e # NULL
    BY <1>3 DEF Search, Says, Dict!Says, Found
  <2>2. e \in Data /\ e \in Store /\ Key[e] = Key[d]
    <3>1. e \in Data \cup {NULL} /\ Key[e] = Key[d] /\ Key[d] \in nodes
      BY <1>1, <2>1 DEF TreeInv, DataRight
    <3> QED
      BY <2>1, <3>1, TreeStore DEF StoreRight
  <2> HIDE DEF e
  <2>3. Dict!Search(d, e)
    BY <1>1, <2>1, <2>2 DEF Dict!Search, Dict!Has, Store, Frozen
  <2> QED
    BY <2>2, <2>3, DictNexts
<1>4. CASE Search(d) /\ ~Found(Key[d])
  <2>1. Dict!SearchFails(d)
    BY <1>1, <1>2, <1>4 DEF Search, Says, Dict!Says, Dict!SearchFails, Store, Frozen
  <2> QED
    BY <2>1 DEF Dict!Next
<1>5. CASE RemoveFails(d)
  <2>1. Dict!RemoveFails(d)
    BY <1>1, <1>2, <1>5 DEF RemoveFails, Says, Dict!Says, Dict!RemoveFails, Store, Frozen
  <2> QED
    BY <2>1 DEF Dict!Next
<1> QED
  BY <1>3, <1>4, <1>5

LEMMA RefuseStep ==
    ASSUME NEW d \in Data, NEW op \in {"insert", "remove"}, Refuse(op, d)
    PROVE  Dict!Next
<1>1. Dict!Refuse(op, d)
  BY DEF Refuse, Says, Dict!Refuse, Dict!Says, treeVars
<1> QED
  BY <1>1, DictNexts

FlagRight == should_not_be_modified \in BOOLEAN

\* What a traversal changes is the flag, and a crash nothing.
LEMMA TraverseStep ==
    ASSUME FlagRight, NEW t \in Threads, Traverse(t)
    PROVE  [Dict!Next]_Dict!vars
<1>1. /\ UNCHANGED treeVars /\ UNCHANGED answer
      /\ Frozen' = Frozen \/ TraverseSet(t) \/ TraverseClear(t)
  BY DEF Traverse, TraverseTest, TraverseSet, TraverseNoMemory, TraverseBegin, TraverseDown,
         TraverseCall, TraverseUp, TraverseReturned, TraverseClear, Frozen
<1>2. Store' = Store
  BY <1>1 DEF treeVars, Store
<1>3. CASE Frozen' = Frozen
  BY <1>1, <1>2, <1>3 DEF Dict!vars, Store, Frozen
<1>4. CASE TraverseSet(t) /\ Frozen' # Frozen
  <2>1. Frozen' = TRUE
    BY <1>4 DEF TraverseSet, Frozen
  <2> QED
    BY <1>1, <1>2, <1>4, <2>1 DEF Dict!Next, Dict!Freeze, Store, Frozen
<1>5. CASE TraverseClear(t) /\ Frozen' # Frozen
  <2>1. Frozen' = FALSE /\ Frozen
    BY <1>5 DEF TraverseClear, Frozen, FlagRight
  <2> QED
    BY <1>1, <1>2, <1>5, <2>1 DEF Dict!Next, Dict!Thaw, Store, Frozen
<1> QED
  BY <1>1, <1>3, <1>4, <1>5

LEMMA NextFlag == FlagRight /\ [Next]_vars => FlagRight'
<1> SUFFICES ASSUME FlagRight, [Next]_vars PROVE FlagRight'
  OBVIOUS
<1>1. ASSUME NEW d \in Data, Operate(d) PROVE FlagRight'
  BY <1>1 DEF Operate, Insert, InsertFails, Search, Remove, RemoveFails, Refuse, Crash, FlagRight
<1>2. ASSUME NEW t \in Threads, Traverse(t) PROVE FlagRight'
  BY <1>2 DEF Traverse, TraverseTest, TraverseSet, TraverseNoMemory, TraverseBegin, TraverseDown,
              TraverseCall, TraverseUp, TraverseReturned, TraverseClear, FlagRight
<1>3. CASE UNCHANGED vars
  BY <1>3 DEF vars, FlagRight
<1> QED
  BY <1>1, <1>2, <1>3 DEF Next

LEMMA DictStep == TreeInv /\ FlagRight /\ [Next]_vars => [Dict!Next]_Dict!vars
<1> SUFFICES ASSUME TreeInv, FlagRight, [Next]_vars PROVE [Dict!Next]_Dict!vars
  OBVIOUS
<1>1. ASSUME NEW d \in Data, NEW op \in {"search", "remove"}, Crash(op, d)
      PROVE  UNCHANGED Dict!vars
  BY <1>1 DEF Crash, Dict!vars, treeVars
<1>2. ASSUME NEW d \in Data, Operate(d) PROVE [Dict!Next]_Dict!vars
  BY <1>1, <1>2, InsertStep, RemoveStep, InsertFailsStep, SearchStep, RefuseStep DEF Operate
<1>3. CASE UNCHANGED vars
  BY <1>3 DEF vars, treeVars, Dict!vars
<1> QED
  BY <1>2, <1>3, TraverseStep DEF Next

\* The tree implements the dictionary, for any keys and data: no insertion,
\* removal or search is answered for another key than its own, whatever nodes
\* they share and whatever a failed insertion has left (radix_tree_object.c:165).
THEOREM Refinement == Spec => ImplementsDictionary
<1>1. Init => Dict!Init
  <2> SUFFICES ASSUME Init PROVE Dict!Init
    OBVIOUS
  <2>1. Store = {} /\ Frozen \in FlagsAtInit /\ answer = Dict!NoAnswer
    BY DEF Init, Store, Frozen, NoAnswer, Dict!NoAnswer
  <2> QED
    BY <2>1 DEF Dict!Init, Store, Frozen
<1>2. Init => FlagRight
  BY KeyAssumption DEF Init, FlagRight
<1> QED
  BY <1>1, <1>2, DictStep, InitTree, NextTree, NextFlag, PTL DEF Spec, ImplementsDictionary, Dict!Spec

\* Nothing that no key needs stays behind an insertion or a removal
\* (radix_tree_object.c:196).
THEOREM NothingIsLeft == Spec => NoNewBareLeaves
BY InitTree, NextTree, LeavesStep, PTL DEF Spec, NoNewBareLeaves

-----------------------------------------------------------------------------
(***************************************************************************)
(* The traversal                                                           *)
(***************************************************************************)
\* The counters are in the nodes, and a read lock does not keep two traversals
\* from one another: what is said of a traversal is of one at a time.
OneTraverser == \E t : Threads = {t}

\* The nodes that are behind a traversal at p whose counter is c: those whose
\* path leaves that of p for a smaller nibble.
Done(p, c) ==
    {q \in nodes : \E m \in 0 .. Len(p) :
                      /\ m < Len(q) /\ Prefix(q, m) = Prefix(p, m)
                      /\ q[m + 1] < IF m = Len(p) THEN c ELSE p[m + 1]}

WithData(S) == {q \in S : user_data[q] # NULL}
Members(list) == {list[i] : i \in DOMAIN list}
Once(list) == \A i, j \in DOMAIN list : list[i] = list[j] => i = j

Byte == [lo : Nibbles, hi : SUBSET Nibbles]
BytesRight(bytes, p, n) ==
    n <= Len(bytes) /\ \A i \in 1 .. n : bytes[i] = [lo |-> p[2 * i - 1], hi |-> {p[2 * i]} \ {0}]

\* The bytes of the path to p, complete once the loop has turned there; before
\* that the byte of a high nibble has its low one.
KeyRight(bytes, p, c) ==
    IF c > 0 THEN BytesRight(bytes, p, Len(p) \div 2)
    ELSE /\ BytesRight(bytes, p, (Len(p) - 1) \div 2)
         /\ Len(p) % 2 = 0 /\ p # Root =>
              /\ Len(p) \div 2 <= Len(bytes)
              /\ bytes[Len(p) \div 2] = [lo |-> p[Len(p) - 1], hi |-> {}]

WalkTypes(t) ==
    /\ should_not_be_modified \in BOOLEAN /\ crashed \in BOOLEAN
    /\ pc \in [Threads -> {"idle", "tested", "set", "loop", "called", "clear"}]
    /\ failed \in [Threads -> BOOLEAN]
    /\ current \in [Paths \cup {Root} -> 0 .. Alphabet]
    /\ at \in [Threads -> Paths \cup {Root}]
    /\ key \in [Threads -> Seq(Byte)]
    /\ handed \in [Threads -> Seq(Paths)]

\* The counters: those above a traversal are behind the nibble it took, and
\* those that it is not below are 0.
CountersRight(counters, p) ==
    /\ \A m \in 0 .. Len(p) - 1 : counters[Prefix(p, m)] = p[m + 1] + 1
    /\ \A q \in Paths \cup {Root} : counters[q] = 0 \/ \E m \in 0 .. Len(p) : q = Prefix(p, m)

\* A traversal on its way
OnTheWay(t) ==
    LET p == at[t]
        done == WithData(Done(p, current[p]))
    IN  /\ p \in nodes \cup {Root}
        /\ CountersRight(current, p)
        /\ KeyRight(key[t], p, current[p])
        /\ Once(handed[t])
        /\ pc[t] = "loop" => /\ Members(handed[t]) \subseteq done
                             /\ ~failed[t] => Members(handed[t]) = done
        /\ pc[t] = "called" => /\ Members(handed[t]) = done \cup {p}
                               /\ user_data[p] # NULL /\ current[p] = Alphabet

WalkInv(t) ==
    /\ WalkTypes(t)
    /\ pc[t] \in {"set", "loop", "called", "clear"} => should_not_be_modified
    /\ pc[t] \in {"idle", "tested", "set"} => handed[t] = << >> /\ ~failed[t]
    /\ pc[t] \notin {"loop", "called"} => \A q \in Paths \cup {Root} : current[q] = 0
    /\ pc[t] \in {"loop", "called"} => OnTheWay(t)
    /\ pc[t] = "clear" /\ ~failed[t] => Members(handed[t]) = WithData(nodes)

-----------------------------------------------------------------------------
(***************************************************************************)
(* What is behind a traversal, as it goes on                               *)
(***************************************************************************)
LEMMA NodeIs ==
    ASSUME LinksRight, NEW q \in nodes
    PROVE  /\ q \in Seq(Nibbles) /\ Len(q) \in Nat \ {0}
           /\ \A i \in 1 .. Len(q) : q[i] \in Nibbles /\ q[i] \in Nat /\ q[i] < Alphabet
<1>1. q \in Seq(Nibbles) /\ Len(q) \in Nat \ {0}
  BY PathIs DEF LinksRight
<1>2. Alphabet \in Nat \ {0}
  BY KeyAssumption
<1> QED
  BY <1>1, <1>2 DEF Nibbles

\* Nothing is, at the start.
LEMMA DoneAtStart == ASSUME LinksRight PROVE Done(Root, 0) = {}
<1> SUFFICES ASSUME NEW q \in nodes, NEW m \in 0 .. Len(Root), m < Len(q),
                    q[m + 1] < IF m = Len(Root) THEN 0 ELSE Root[m + 1]
             PROVE  FALSE
  BY DEF Done
<1>1. m = 0 /\ Len(Root) = 0
  BY DEF Root
<1>2. 1 \in 1 .. Len(q) /\ q[1] < 0
  BY <1>1, NodeIs
<1> QED
  BY <1>2, NodeIs

\* All nodes are, when the counter of the root has come to its end.
LEMMA DoneAtEnd == ASSUME LinksRight PROVE Done(Root, Alphabet) = nodes
<1>1. SUFFICES ASSUME NEW q \in nodes PROVE q \in Done(Root, Alphabet)
  BY DEF Done
<1>2. /\ 0 \in 0 .. Len(Root) /\ Len(Root) = 0 /\ 0 < Len(q) /\ q[0 + 1] < Alphabet
      /\ Prefix(q, 0) = Prefix(Root, 0)
  <2>1. Len(Root) = 0 /\ Root \in Seq(Nibbles)
    BY DEF Root
  <2>2. Prefix(q, 0) = Root /\ Prefix(Root, 0) = Root
    BY <2>1, NodeIs, WholePrefix
  <2>3. 0 < Len(q) /\ 1 \in 1 .. Len(q) /\ 0 + 1 = 1
    BY NodeIs
  <2>4. q[1] < Alphabet
    BY <2>3, NodeIs
  <2> QED
    BY <2>1, <2>2, <2>3, <2>4
<1> QED
  BY <1>2 DEF Done

\* A traversal is not behind itself.
LEMMA NotDone == ASSUME NEW p \in Seq(Nibbles), NEW c PROVE p \notin Done(p, c)
<1> SUFFICES ASSUME NEW m \in 0 .. Len(p), m < Len(p),
                    p[m + 1] < IF m = Len(p) THEN c ELSE p[m + 1]
             PROVE  FALSE
  BY DEF Done
<1>1. m + 1 \in 1 .. Len(p) /\ m # Len(p)
  OBVIOUS
<1>2. p[m + 1] \in Int
  BY <1>1, KeyAssumption DEF Nibbles
<1> QED
  BY <1>1, <1>2

\* The one nibble at which nodes part.
LEMMA SplitAt ==
    ASSUME NEW q \in Seq(Nibbles), NEW p \in Seq(Nibbles), NEW v \in Nibbles
    PROVE  Len(p) < Len(q) /\ Prefix(q, Len(p)) = p /\ q[Len(p) + 1] = v
             <=> Len(p) + 1 <= Len(q) /\ Prefix(q, Len(p) + 1) = Append(p, v)
<1> DEFINE n == Len(p)
           r == Append(p, v)
<1>1. /\ r \in Seq(Nibbles) /\ Len(r) = n + 1 /\ r[n + 1] = v /\ Prefix(r, n) = p /\ n \in Nat
      /\ Len(q) \in Nat
  BY ChildIs, WholePrefix
<1>2. ASSUME n + 1 <= Len(q), Prefix(q, n + 1) = r
      PROVE  Prefix(q, n) = p /\ q[n + 1] = v
  <2> HIDE DEF n, r
  <2>1. n + 1 \in 0 .. Len(q) /\ n \in 0 .. n + 1 /\ n + 1 \in 1 .. n + 1
    BY <1>1, <1>2
  <2>2. Prefix(q, n) = Prefix(r, n)
    BY <1>2, <2>1, PrefixOfPrefix
  <2>3. q[n + 1] = r[n + 1]
    BY <1>2, <2>1, PrefixIs
  <2> QED
    BY <1>1, <2>2, <2>3
<1>3. ASSUME n < Len(q), Prefix(q, n) = p, q[n + 1] = v
      PROVE  n + 1 <= Len(q) /\ Prefix(q, n + 1) = r
  <2> DEFINE a == Prefix(q, n + 1)
  <2>1. n + 1 \in 0 .. Len(q) /\ n \in 0 .. Len(q) /\ n + 1 <= Len(q)
    BY <1>1, <1>3
  <2>2. a \in Seq(Nibbles) /\ Len(a) = n + 1 /\ \A i \in 1 .. n + 1 : a[i] = q[i]
    BY <2>1, PrefixIs
  <2>3. \A i \in 1 .. n : p[i] = q[i]
    BY <1>3, <2>1, PrefixIs
  <2>4. \A i \in 1 .. n : r[i] = p[i]
    OBVIOUS
  <2> HIDE DEF a, r, n
  <2>5. \A i \in 1 .. n + 1 : a[i] = r[i]
    BY <1>1, <1>3, <2>2, <2>3, <2>4
  <2>6. a = r
    BY <1>1, <2>2, <2>5, SameSeq
  <2> QED
    BY <2>1, <2>6 DEF a
<1> QED
  BY <1>1, <1>2, <1>3

\* Done in two parts: what leaves the path of p above it, and its children.
Above(q, p) == \E m \in 0 .. Len(p) - 1 : /\ m < Len(q) /\ Prefix(q, m) = Prefix(p, m)
                                          /\ q[m + 1] < p[m + 1]
Below(q, p, c) == Len(p) < Len(q) /\ Prefix(q, Len(p)) = p /\ q[Len(p) + 1] < c

LEMMA DoneIs ==
    ASSUME NEW p \in Seq(Nibbles), NEW c
    PROVE  \A q : q \in Done(p, c) <=> q \in nodes /\ (Above(q, p) \/ Below(q, p, c))
<1> DEFINE n == Len(p)
<1>1. n \in Nat /\ Prefix(p, n) = p
  BY WholePrefix
<1> HIDE DEF n
<1>2. \A m : m \in 0 .. n <=> m \in 0 .. n - 1 \/ m = n
  BY <1>1
<1>3. \A m \in 0 .. n - 1 : m # n
  BY <1>1
<1> SUFFICES ASSUME NEW q \in nodes PROVE q \in Done(p, c) <=> Above(q, p) \/ Below(q, p, c)
  BY DEF Done
<1>4. q \in Done(p, c) <=> \E m \in 0 .. n : /\ m < Len(q) /\ Prefix(q, m) = Prefix(p, m)
                                            /\ q[m + 1] < IF m = n THEN c ELSE p[m + 1]
  BY DEF Done, n
<1> QED
  BY <1>1, <1>2, <1>3, <1>4 DEF Above, Below, n

\* Above a child: above its parent or below it on a smaller nibble.
LEMMA AboveChild ==
    ASSUME NEW p \in Seq(Nibbles), NEW v \in Nibbles, NEW q
    PROVE  Above(q, Append(p, v)) <=> Above(q, p) \/ Below(q, p, v)
<1> DEFINE n == Len(p)
           r == Append(p, v)
<1>1. /\ n \in Nat /\ Len(r) = n + 1 /\ r[n + 1] = v
      /\ \A m \in 0 .. n : Prefix(r, m) = Prefix(p, m)
      /\ Prefix(p, n) = p
      /\ \A i \in 1 .. n : r[i] = p[i]
  BY ChildIs, WholePrefix
<1> HIDE DEF n, r
<1>2. \A m : m \in 0 .. n + 1 - 1 <=> m \in 0 .. n - 1 \/ m = n
  BY <1>1
<1>3. \A m \in 0 .. n - 1 : m + 1 \in 1 .. n /\ m \in 0 .. n
  BY <1>1
<1>4. \A m \in 0 .. n - 1 : Prefix(r, m) = Prefix(p, m) /\ r[m + 1] = p[m + 1]
  BY <1>1, <1>3
<1>5. Prefix(r, n) = p
  BY <1>1
<1>6. Above(q, r) <=> \E m \in 0 .. n + 1 - 1 : /\ m < Len(q) /\ Prefix(q, m) = Prefix(r, m)
                                               /\ q[m + 1] < r[m + 1]
  BY <1>1 DEF Above
<1>7. Above(q, p) <=> \E m \in 0 .. n - 1 : /\ m < Len(q) /\ Prefix(q, m) = Prefix(p, m)
                                           /\ q[m + 1] < p[m + 1]
  BY DEF Above, n
<1>8. Below(q, p, v) <=> n < Len(q) /\ Prefix(q, n) = p /\ q[n + 1] < v
  BY DEF Below, n
<1>9. Above(q, r) <=> Above(q, p) \/ Below(q, p, v)
  BY <1>1, <1>2, <1>4, <1>5, <1>6, <1>7, <1>8
<1> QED
  BY <1>9 DEF r

\* The counter goes past a nibble for which there is no child.
LEMMA DonePast ==
    ASSUME LinksRight, NEW p \in Seq(Nibbles), NEW c \in Nibbles, Append(p, c) \notin nodes
    PROVE  Done(p, c + 1) = Done(p, c)
<1> SUFFICES ASSUME NEW q \in nodes PROVE Below(q, p, c + 1) <=> Below(q, p, c)
  BY DoneIs
<1>1. c \in Nat /\ q \in Seq(Nibbles) /\ Len(q) \in Nat /\ Len(p) \in Nat
  BY NodeIs DEF Nibbles
<1>2. ASSUME Len(p) < Len(q), Prefix(q, Len(p)) = p, q[Len(p) + 1] = c PROVE FALSE
  <2>1. Len(p) + 1 <= Len(q) /\ Prefix(q, Len(p) + 1) = Append(p, c)
    BY <1>1, <1>2, SplitAt
  <2>2. Len(p) + 1 \in 1 .. Len(q)
    BY <1>1, <2>1
  <2>3. Append(p, c) \in PrefixesOf(q)
    BY <2>1, <2>2 DEF PrefixesOf
  <2> QED
    BY <2>3, PrefixesThere
<1>3. Len(p) < Len(q) => q[Len(p) + 1] \in Nat
  <2>1. Len(p) < Len(q) => Len(p) + 1 \in 1 .. Len(q)
    BY <1>1
  <2> QED
    BY <2>1, NodeIs
<1> QED
  BY <1>1, <1>2, <1>3 DEF Below

\* The traversal goes to a child.
LEMMA DoneDown ==
    ASSUME LinksRight, NEW p \in Seq(Nibbles), NEW c \in Nibbles
    PROVE  Done(Append(p, c), 0) = Done(p, c)
<1> DEFINE r == Append(p, c)
<1>1. r \in Seq(Nibbles) /\ Len(r) \in Nat
  BY ChildIs
<1>2. \A q : Above(q, r) <=> Above(q, p) \/ Below(q, p, c)
  BY AboveChild
<1> HIDE DEF r
<1>3. ASSUME NEW q \in nodes PROVE ~Below(q, r, 0)
  <2> SUFFICES ASSUME Len(r) < Len(q), q[Len(r) + 1] < 0 PROVE FALSE
    BY DEF Below
  <2>1. Len(r) + 1 \in 1 .. Len(q)
    BY <1>1, NodeIs
  <2> QED
    BY <2>1, NodeIs
<1>4. Done(r, 0) = Done(p, c)
  BY <1>1, <1>2, <1>3, DoneIs
<1> QED
  BY <1>4 DEF r

\* It goes up from a node: that and all below it are behind it.
LEMMA DoneUp ==
    ASSUME LinksRight, NEW r \in nodes
    PROVE  Done(Parent(r), r[Len(r)] + 1) = Done(r, Alphabet) \cup {r}
<1> DEFINE p == Parent(r)
           v == r[Len(r)]
<1>1. /\ r \in Seq(Nibbles) /\ p \in Seq(Nibbles) /\ v \in Nibbles /\ Append(p, v) = r
      /\ Len(r) = Len(p) + 1 /\ Len(p) \in Nat /\ r # Root
  <2>1. r \in Seq(Nibbles) /\ r # Root
    BY PathIs DEF LinksRight
  <2>2. p \in Seq(Nibbles) /\ v \in Nibbles /\ Append(p, v) = r
    BY <2>1, ParentIs
  <2> HIDE DEF p, v
  <2> QED
    BY <2>1, <2>2
<1> HIDE DEF p, v
<1>2. ASSUME NEW q \in nodes
      PROVE  Below(q, p, v + 1) <=> Below(q, p, v) \/ Below(q, r, Alphabet) \/ q = r
  <2>1. /\ q \in Seq(Nibbles) /\ Len(q) \in Nat /\ v \in Nat
        /\ \A i \in 1 .. Len(q) : q[i] \in Nat /\ q[i] < Alphabet
    BY <1>1, NodeIs DEF Nibbles
  <2>2. Len(p) < Len(q) => q[Len(p) + 1] \in Nat
    BY <1>1, <2>1
  <2>3. Below(q, p, v + 1) <=>
          Below(q, p, v) \/ (Len(p) < Len(q) /\ Prefix(q, Len(p)) = p /\ q[Len(p) + 1] = v)
    BY <2>1, <2>2 DEF Below
  <2>4. Len(p) < Len(q) /\ Prefix(q, Len(p)) = p /\ q[Len(p) + 1] = v
          <=> Len(r) <= Len(q) /\ Prefix(q, Len(r)) = r
    <3>1. Len(p) < Len(q) /\ Prefix(q, Len(p)) = p /\ q[Len(p) + 1] = v
            <=> Len(p) + 1 <= Len(q) /\ Prefix(q, Len(p) + 1) = Append(p, v)
      <4>1. q \in Seq(Nibbles) /\ p \in Seq(Nibbles) /\ v \in Nibbles
        BY <1>1, <2>1
      <4> QED
        BY <4>1, SplitAt, ZenonT(60)
    <3> QED
      BY <1>1, <3>1, Zenon
  <2>5. Below(q, r, Alphabet) <=> Len(r) < Len(q) /\ Prefix(q, Len(r)) = r
    BY <1>1, <2>1 DEF Below
  <2>6. Len(r) = Len(q) /\ Prefix(q, Len(r)) = r <=> q = r
    BY <1>1, <2>1, WholePrefix
  <2> QED
    BY <1>1, <2>1, <2>3, <2>4, <2>5, <2>6
<1>3. \A q : Above(q, r) <=> Above(q, p) \/ Below(q, p, v)
  BY <1>1, AboveChild
<1>4. Done(p, v + 1) = Done(r, Alphabet) \cup {r}
  BY <1>1, <1>2, <1>3, DoneIs
<1> QED
  BY <1>4 DEF p, v

-----------------------------------------------------------------------------
(***************************************************************************)
(* The key under construction                                              *)
(***************************************************************************)
LEMMA Halves ==
    ASSUME NEW n \in Nat
    PROVE  \E h \in Nat : \/ /\ n = 2 * h /\ n % 2 = 0 /\ n \div 2 = h /\ (n + 1) \div 2 = h
                             /\ (n - 1) \div 2 = h - 1
                          \/ /\ n = 2 * h + 1 /\ n % 2 = 1 /\ n \div 2 = h /\ (n + 1) \div 2 = h + 1
                             /\ (n - 1) \div 2 = h
<1> DEFINE h == n \div 2
<1>1. h \in Nat /\ n % 2 \in 0 .. 1 /\ n = 2 * h + (n % 2)
  OBVIOUS
<1>2. CASE n % 2 = 0
  <2>1. n = 2 * h /\ (n + 1) \div 2 = h /\ (n - 1) \div 2 = h - 1
    BY <1>1, <1>2
  <2> QED
    BY <1>1, <1>2, <2>1
<1>3. CASE n % 2 = 1
  <2>1. n = 2 * h + 1 /\ (n + 1) \div 2 = h + 1 /\ (n - 1) \div 2 = h
    BY <1>1, <1>3
  <2> QED
    BY <1>1, <1>3, <2>1
<1> QED
  BY <1>1, <1>2, <1>3

\* A turn of the loop leaves the bytes of the path complete, and at a low
\* nibble the next one begun.
LEMMA NibbleIs ==
    ASSUME NEW bytes \in Seq(Byte), NEW p \in Seq(Nibbles), NEW c \in 0 .. Alphabet,
           KeyRight(bytes, p, c)
    PROVE  /\ WithNibble(bytes, p) \in Seq(Byte)
           /\ BytesRight(WithNibble(bytes, p), p, Len(p) \div 2)
           /\ Len(p) % 2 = 1 =>
                /\ (Len(p) + 1) \div 2 <= Len(WithNibble(bytes, p))
                /\ WithNibble(bytes, p)[(Len(p) + 1) \div 2] = [lo |-> p[Len(p)], hi |-> {}]
<1> DEFINE n == Len(p)
           w == WithNibble(bytes, p)
           v == p[n]
<1>0. n \in Nat /\ Len(bytes) \in Nat
  OBVIOUS
<1>1. PICK h \in Nat : \/ /\ n = 2 * h /\ n % 2 = 0 /\ n \div 2 = h /\ (n + 1) \div 2 = h
                          /\ (n - 1) \div 2 = h - 1
                       \/ /\ n = 2 * h + 1 /\ n % 2 = 1 /\ n \div 2 = h /\ (n + 1) \div 2 = h + 1
                          /\ (n - 1) \div 2 = h
  BY Halves
<1>2. /\ n = 0 => w = bytes
      /\ n # 0 /\ n % 2 = 1 =>
           w = SubSeq(bytes, 1, (n + 1) \div 2 - 1) \o <<[lo |-> v, hi |-> {}]>>
      /\ n # 0 /\ n % 2 # 1 =>
           w = [bytes EXCEPT ![(n + 1) \div 2].hi = @ \cup ({v} \ {0})]
  <2>1. w = CASE n = 0 -> bytes
              [] n % 2 = 1 -> SubSeq(bytes, 1, (n + 1) \div 2 - 1) \o <<[lo |-> v, hi |-> {}]>>
              [] OTHER -> [bytes EXCEPT ![(n + 1) \div 2].hi = @ \cup ({v} \ {0})]
    BY DEF WithNibble
  <2>2. n = 0 => n % 2 # 1
    OBVIOUS
  <2> DEFINE odd == SubSeq(bytes, 1, (n + 1) \div 2 - 1) \o <<[lo |-> v, hi |-> {}]>>
             even == [bytes EXCEPT ![(n + 1) \div 2].hi = @ \cup ({v} \ {0})]
  <2>3. w = CASE n = 0 -> bytes [] n % 2 = 1 -> odd [] OTHER -> even
    BY <2>1
  <2> HIDE DEF w, n, odd, even
  <2>4. /\ n = 0 => w = bytes
        /\ n # 0 /\ n % 2 = 1 => w = odd
        /\ n # 0 /\ n % 2 # 1 => w = even
    BY <2>2, <2>3
  <2> QED
    BY <2>4 DEF odd, even
<1>3. n # 0 => v \in Nibbles
  BY <1>0
<1>4. KeyRight(bytes, p, c) <=>
        IF c > 0 THEN BytesRight(bytes, p, n \div 2)
        ELSE /\ BytesRight(bytes, p, (n - 1) \div 2)
             /\ n % 2 = 0 /\ p # Root =>
                  /\ n \div 2 <= Len(bytes)
                  /\ bytes[n \div 2] = [lo |-> p[n - 1], hi |-> {}]
  BY DEF KeyRight
<1> HIDE DEF n, w, v
<1>5. CASE n = 0
  <2>1. w = bytes /\ n \div 2 = 0 /\ n % 2 = 0
    BY <1>2, <1>5
  <2> QED
    BY <1>0, <2>1 DEF BytesRight, n, w
<1>6. CASE n # 0 /\ n % 2 = 1
  <2>1. n \div 2 = h /\ (n + 1) \div 2 = h + 1 /\ (n - 1) \div 2 = h
    BY <1>1, <1>6
  <2>2. BytesRight(bytes, p, h)
    BY <1>4, <2>1
  <2>3. h \in 0 .. Len(bytes)
    BY <1>0, <2>2 DEF BytesRight
  <2> DEFINE b == SubSeq(bytes, 1, h)
             new == [lo |-> v, hi |-> {}]
  <2>4. b \in Seq(Byte) /\ Len(b) = h /\ (\A i \in 1 .. h : b[i] = bytes[i]) /\ new \in Byte
    <3>1. new \in Byte
      BY <1>3, <1>6 DEF Byte
    <3>2. b \in Seq(Byte) /\ Len(b) = h /\ (\A i \in 1 .. h : b[i] = bytes[i])
      BY <2>3
    <3> QED
      BY <3>1, <3>2
  <2>5. w = b \o <<new>>
    <3>1. (n + 1) \div 2 - 1 = h
      BY <2>1
    <3>2. w = SubSeq(bytes, 1, (n + 1) \div 2 - 1) \o <<new>>
      BY <1>2, <1>6
    <3> QED
      BY <3>1, <3>2, Zenon
  <2> HIDE DEF b, new
  <2>6. w \in Seq(Byte) /\ Len(w) = h + 1 /\ w[h + 1] = new /\ \A i \in 1 .. h : w[i] = b[i]
    BY <2>4, <2>5
  <2>7. BytesRight(w, p, h)
    <3>1. \A i \in 1 .. h : w[i] = bytes[i]
      BY <2>4, <2>6
    <3>2. h <= Len(w)
      BY <2>6
    <3> QED
      BY <2>2, <3>1, <3>2 DEF BytesRight
  <2> QED
    BY <2>1, <2>6, <2>7 DEF n, w, v, new
<1>7. CASE n # 0 /\ n % 2 # 1
  <2>1. /\ n = 2 * h /\ n \div 2 = h /\ (n + 1) \div 2 = h /\ (n - 1) \div 2 = h - 1 /\ n % 2 = 0
        /\ h \in Nat \ {0}
    BY <1>1, <1>7
  <2>2. w = [bytes EXCEPT ![h].hi = @ \cup ({v} \ {0})]
    BY <1>2, <1>7, <2>1
  <2>3. p # Root
    BY <1>7 DEF n, Root
  <2>4. /\ h <= Len(bytes) /\ \A i \in 1 .. h - 1 : bytes[i] = [lo |-> p[2 * i - 1], hi |-> {p[2 * i]} \ {0}]
        /\ bytes[h].lo = p[2 * h - 1] /\ bytes[h].hi \in {{}, {p[2 * h]} \ {0}}
    <3>1. CASE c > 0
      <4>1. BytesRight(bytes, p, h)
        BY <1>4, <2>1, <3>1
      <4>2. h <= Len(bytes) /\ \A i \in 1 .. h : bytes[i] = [lo |-> p[2 * i - 1], hi |-> {p[2 * i]} \ {0}]
        BY <4>1 DEF BytesRight
      <4>3. bytes[h] = [lo |-> p[2 * h - 1], hi |-> {p[2 * h]} \ {0}]
        BY <2>1, <4>2
      <4>4. \A i \in 1 .. h - 1 : i \in 1 .. h
        BY <2>1
      <4>5. \A i \in 1 .. h - 1 : bytes[i] = [lo |-> p[2 * i - 1], hi |-> {p[2 * i]} \ {0}]
        BY <4>2, <4>4
      <4>6. bytes[h].lo = p[2 * h - 1] /\ bytes[h].hi = {p[2 * h]} \ {0}
        BY <4>3
      <4>7. bytes[h].lo = p[2 * h - 1] /\ bytes[h].hi \in {{}, {p[2 * h]} \ {0}}
        BY <4>6, Zenon
      <4>8. h <= Len(bytes)
        BY <4>2
      <4> QED
        BY <4>5, <4>7, <4>8, Zenon
    <3>2. CASE ~(c > 0)
      <4>1. BytesRight(bytes, p, h - 1) /\ h <= Len(bytes) /\ bytes[h] = [lo |-> p[2 * h - 1], hi |-> {}]
        BY <1>4, <2>1, <2>3, <3>2
      <4> QED
        BY <2>1, <4>1 DEF BytesRight
    <3> QED
      BY <3>1, <3>2
  <2>5. h \in 1 .. Len(bytes) /\ h \in DOMAIN bytes /\ bytes[h] \in Byte
    BY <1>0, <2>1, <2>4
  <2>6. v = p[2 * h]
    BY <2>1 DEF v
  <2> DEFINE new == [bytes[h] EXCEPT !.hi = @ \cup ({v} \ {0})]
  <2>7. w = [bytes EXCEPT ![h] = new]
    BY <2>2
  <2>8. new \in Byte /\ new = [lo |-> p[2 * h - 1], hi |-> {p[2 * h]} \ {0}]
    <3>1. bytes[h] = [lo |-> bytes[h].lo, hi |-> bytes[h].hi] /\ bytes[h].lo \in Nibbles
          /\ bytes[h].hi \subseteq Nibbles
      BY <2>5 DEF Byte
    <3>2. bytes[h].hi \cup ({v} \ {0}) = {p[2 * h]} \ {0}
      BY <2>4, <2>6
    <3>3. new = [lo |-> bytes[h].lo, hi |-> bytes[h].hi \cup ({v} \ {0})]
      <4> DEFINE x == bytes[h]
                 both == {v} \ {0}
      <4>1. x \in [lo : Nibbles, hi : SUBSET Nibbles] /\ both \subseteq Nibbles
        BY <1>3, <1>7, <2>5 DEF Byte
      <4> HIDE DEF x, both
      <4> DEFINE y == [x EXCEPT !.hi = @ \cup both]
      <4>2. y \in [lo : Nibbles, hi : SUBSET Nibbles]
        BY <4>1
      <4>3. y.lo = x.lo /\ y.hi = x.hi \cup both
        BY <4>1
      <4>4. y = [lo |-> y.lo, hi |-> y.hi]
        <5> HIDE DEF y
        <5> QED
          BY <4>2
      <4> HIDE DEF y
      <4>5. y = [lo |-> x.lo, hi |-> x.hi \cup both]
        BY <4>3, <4>4
      <4> QED
        BY <4>5 DEF x, both, y
    <3>4. bytes[h].hi \cup ({v} \ {0}) \subseteq Nibbles
      BY <1>3, <1>7, <3>1
    <3> HIDE DEF new
    <3> QED
      BY <2>4, <3>1, <3>2, <3>3, <3>4 DEF Byte
  <2> HIDE DEF new
  <2>9. w \in Seq(Byte) /\ Len(w) = Len(bytes) /\ \A i \in 1 .. Len(bytes) : w[i] = IF i = h THEN new ELSE bytes[i]
    BY <2>5, <2>7, <2>8
  <2>10. BytesRight(w, p, h)
    <3> SUFFICES ASSUME NEW i \in 1 .. h PROVE w[i] = [lo |-> p[2 * i - 1], hi |-> {p[2 * i]} \ {0}]
      BY <2>4, <2>9 DEF BytesRight
    <3>1. i \in 1 .. Len(bytes)
      BY <2>5
    <3>2. i = h \/ i \in 1 .. h - 1
      OBVIOUS
    <3> QED
      BY <2>4, <2>8, <2>9, <3>1, <3>2
  <2> QED
    BY <1>7, <2>1, <2>9, <2>10 DEF n, w
<1> QED
  BY <1>5, <1>6, <1>7

\* What a complete path is for its child, and for its parent.
LEMMA KeyDown ==
    ASSUME NEW bytes \in Seq(Byte), NEW p \in Seq(Nibbles), NEW v \in Nibbles,
           BytesRight(bytes, p, Len(p) \div 2),
           Len(p) % 2 = 1 => /\ (Len(p) + 1) \div 2 <= Len(bytes)
                             /\ bytes[(Len(p) + 1) \div 2] = [lo |-> p[Len(p)], hi |-> {}]
    PROVE  KeyRight(bytes, Append(p, v), 0)
<1> DEFINE n == Len(p)
           r == Append(p, v)
<1>1. n \in Nat /\ Len(r) = n + 1 /\ \A i \in 1 .. n : r[i] = p[i]
  OBVIOUS
<1>2. PICK h \in Nat : \/ /\ n = 2 * h /\ n % 2 = 0 /\ n \div 2 = h /\ (n + 1) \div 2 = h
                          /\ (n - 1) \div 2 = h - 1
                       \/ /\ n = 2 * h + 1 /\ n % 2 = 1 /\ n \div 2 = h /\ (n + 1) \div 2 = h + 1
                          /\ (n - 1) \div 2 = h
  BY <1>1, Halves
<1>3. BytesRight(bytes, p, h)
  BY <1>2
<1>4. n % 2 = 1 => h + 1 <= Len(bytes) /\ bytes[h + 1] = [lo |-> p[n], hi |-> {}]
  BY <1>2
<1> HIDE DEF n, r
<1>5. BytesRight(bytes, r, h)
  <2> SUFFICES ASSUME NEW i \in 1 .. h PROVE bytes[i] = [lo |-> r[2 * i - 1], hi |-> {r[2 * i]} \ {0}]
    BY <1>3 DEF BytesRight
  <2>1. 2 * i - 1 \in 1 .. n /\ 2 * i \in 1 .. n
    BY <1>1, <1>2
  <2> QED
    BY <1>1, <1>3, <2>1 DEF BytesRight
<1>6. (Len(r) - 1) \div 2 = h
  <2>1. Len(r) - 1 = n
    BY <1>1
  <2> QED
    BY <1>2, <2>1
<1>7. ASSUME Len(r) % 2 = 0
      PROVE  Len(r) \div 2 <= Len(bytes) /\ bytes[Len(r) \div 2] = [lo |-> r[Len(r) - 1], hi |-> {}]
  <2>1. n % 2 = 1 /\ n = 2 * h + 1
    BY <1>1, <1>2, <1>7
  <2>2. Len(r) \div 2 = h + 1 /\ Len(r) - 1 = n /\ n \in 1 .. n
    BY <1>1, <1>2, <2>1
  <2> QED
    BY <1>1, <1>4, <2>1, <2>2
<1>8. BytesRight(bytes, r, (Len(r) - 1) \div 2) /\ ~(0 > 0)
  BY <1>5, <1>6
<1>9. KeyRight(bytes, r, 0)
  BY <1>7, <1>8 DEF KeyRight
<1> QED
  BY <1>9 DEF r

LEMMA KeyUp ==
    ASSUME NEW bytes \in Seq(Byte), NEW p \in Seq(Nibbles), p # Root,
           BytesRight(bytes, p, Len(p) \div 2)
    PROVE  BytesRight(bytes, Parent(p), Len(Parent(p)) \div 2)
<1> DEFINE n == Len(p)
           u == Parent(p)
<1>1. n \in Nat \ {0} /\ Len(u) = n - 1 /\ \A i \in 1 .. n - 1 : u[i] = p[i]
  <2>1. n \in Nat \ {0} /\ Len(u) = n - 1
    BY ParentIs
  <2>2. n - 1 \in 0 .. n
    BY <2>1
  <2> QED
    BY <2>1, <2>2, PrefixIs DEF Parent
<1>2. PICK h \in Nat : \/ /\ n = 2 * h /\ n % 2 = 0 /\ n \div 2 = h /\ (n + 1) \div 2 = h
                          /\ (n - 1) \div 2 = h - 1
                       \/ /\ n = 2 * h + 1 /\ n % 2 = 1 /\ n \div 2 = h /\ (n + 1) \div 2 = h + 1
                          /\ (n - 1) \div 2 = h
  BY <1>1, Halves
<1>3. BytesRight(bytes, p, h)
  BY <1>2
<1> DEFINE k == (n - 1) \div 2
<1>4. k \in Int /\ k <= h /\ 2 * k <= n - 1
  BY <1>1, <1>2
<1>5. Len(u) \div 2 = k
  BY <1>1
<1> HIDE DEF k, n, u
<1>6. BytesRight(bytes, u, k)
  <2>1. k <= Len(bytes)
    BY <1>3, <1>4 DEF BytesRight
  <2> SUFFICES ASSUME NEW i \in 1 .. k PROVE bytes[i] = [lo |-> u[2 * i - 1], hi |-> {u[2 * i]} \ {0}]
    BY <2>1 DEF BytesRight
  <2>2. 2 * i - 1 \in 1 .. n - 1 /\ 2 * i \in 1 .. n - 1 /\ i \in 1 .. h
    BY <1>1, <1>4
  <2> QED
    BY <1>1, <1>3, <2>2 DEF BytesRight
<1> QED
  BY <1>5, <1>6 DEF u

-----------------------------------------------------------------------------
(***************************************************************************)
(* The steps of a traversal                                                *)
(***************************************************************************)
LEMMA OnTheWayNext ==
    ASSUME UNCHANGED treeVars, NEW t \in Threads, NEW p \in nodes \cup {Root}, NEW c,
           at'[t] = p, current'[p] = c,
           CountersRight(current', p), KeyRight(key'[t], p, c), Once(handed'[t]),
           pc'[t] = "loop" => /\ Members(handed'[t]) \subseteq WithData(Done(p, c))
                              /\ ~failed'[t] => Members(handed'[t]) = WithData(Done(p, c)),
           pc'[t] = "called" => /\ Members(handed'[t]) = WithData(Done(p, c)) \cup {p}
                                /\ user_data[p] # NULL /\ c = Alphabet
    PROVE  OnTheWay(t)'
<1>1. nodes' = nodes /\ user_data' = user_data
  BY DEF treeVars
<1>2. /\ at[t]' = p /\ current[at[t]]' = c
      /\ WithData(Done(at[t], current[at[t]]))' = WithData(Done(p, c))
  BY <1>1 DEF WithData, Done
<1>3. CountersRight(current, at[t])' /\ KeyRight(key[t], at[t], current[at[t]])'
  BY <1>2 DEF CountersRight, KeyRight, BytesRight
<1>4. Once(handed[t])' /\ Members(handed[t])' = Members(handed'[t])
  BY DEF Once, Members
<1> QED
  BY <1>1, <1>2, <1>3, <1>4 DEF OnTheWay

LEMMA WalkStays ==
    ASSUME NEW t \in Threads, WalkInv(t),
           UNCHANGED <<treeVars, current, should_not_be_modified, travVars>>, crashed' \in BOOLEAN
    PROVE  WalkInv(t)'
<1>1. /\ UNCHANGED treeVars /\ current' = current /\ should_not_be_modified' = should_not_be_modified
      /\ pc' = pc /\ at' = at /\ key' = key /\ failed' = failed /\ handed' = handed
      /\ nodes' = nodes /\ user_data' = user_data
  BY DEF treeVars, travVars
<1>2. WalkTypes(t)'
  BY <1>1 DEF WalkInv, WalkTypes
<1>3. OnTheWay(t) => OnTheWay(t)'
  <2>1. CountersRight(current, at[t])' <=> CountersRight(current, at[t])
    BY <1>1 DEF CountersRight
  <2>2. KeyRight(key[t], at[t], current[at[t]])' <=> KeyRight(key[t], at[t], current[at[t]])
    BY <1>1 DEF KeyRight, BytesRight
  <2>3. WithData(Done(at[t], current[at[t]]))' = WithData(Done(at[t], current[at[t]]))
    BY <1>1 DEF WithData, Done
  <2>4. (Once(handed[t])' <=> Once(handed[t])) /\ Members(handed[t])' = Members(handed[t])
    BY <1>1 DEF Once, Members
  <2> QED
    BY <1>1, <2>1, <2>2, <2>3, <2>4 DEF OnTheWay
<1>4. Members(handed[t])' = Members(handed[t]) /\ WithData(nodes)' = WithData(nodes)
  BY <1>1 DEF Members, WithData
<1> QED
  BY <1>1, <1>2, <1>3, <1>4 DEF WalkInv

\* While a traversal is not on its way the tree may change.
LEMMA WalkIdle ==
    ASSUME NEW t \in Threads, WalkInv(t), ~should_not_be_modified,
           UNCHANGED <<current, should_not_be_modified, travVars, crashed>>
    PROVE  WalkInv(t)'
<1>1. /\ current' = current /\ should_not_be_modified' = should_not_be_modified /\ crashed' = crashed
      /\ pc' = pc /\ at' = at /\ key' = key /\ failed' = failed /\ handed' = handed
  BY DEF travVars
<1>2. WalkTypes(t)'
  BY <1>1 DEF WalkInv, WalkTypes
<1>3. pc[t] \notin {"set", "loop", "called", "clear"}
  BY DEF WalkInv
<1> QED
  BY <1>1, <1>2, <1>3 DEF WalkInv

LEMMA OperateWalk ==
    ASSUME NEW t \in Threads, WalkInv(t), NEW d \in Data, Operate(d)
    PROVE  WalkInv(t)'
<1>1. crashed \in BOOLEAN
  BY DEF WalkInv, WalkTypes
<1>2. CASE Insert(d) \/ InsertFails(d) \/ Remove(d) \/ RemoveFails(d)
  BY <1>2, WalkIdle DEF Insert, InsertFails, Remove, RemoveFails
<1>3. CASE Search(d)
  BY <1>1, <1>3, WalkStays DEF Search
<1>4. ASSUME NEW op, Refuse(op, d) PROVE WalkInv(t)'
  BY <1>1, <1>4, WalkStays DEF Refuse
<1>5. ASSUME NEW op, Crash(op, d) PROVE WalkInv(t)'
  BY <1>5, WalkStays DEF Crash
<1> QED
  BY <1>2, <1>3, <1>4, <1>5 DEF Operate

\* The steps around the loop.
LEMMA AroundWalk ==
    ASSUME NEW t \in Threads, WalkInv(t), LinksRight,
           TraverseTest(t) \/ TraverseSet(t) \/ TraverseNoMemory(t) \/ TraverseClear(t)
    PROVE  WalkInv(t)'
<1>1. /\ current' = current /\ crashed' = crashed /\ at' = at
      /\ should_not_be_modified' \in BOOLEAN
      /\ pc' \in [Threads -> {"idle", "tested", "set", "loop", "called", "clear"}]
  <2>1. pc \in [Threads -> {"idle", "tested", "set", "loop", "called", "clear"}]
        /\ should_not_be_modified \in BOOLEAN
    BY DEF WalkInv, WalkTypes
  <2> QED
    BY <2>1 DEF TraverseTest, TraverseSet, TraverseNoMemory, TraverseClear
<1>2. /\ failed' \in [Threads -> BOOLEAN] /\ key' \in [Threads -> Seq(Byte)]
      /\ handed' \in [Threads -> Seq(Paths)]
  <2>1. /\ failed \in [Threads -> BOOLEAN] /\ key \in [Threads -> Seq(Byte)]
        /\ handed \in [Threads -> Seq(Paths)]
    BY DEF WalkInv, WalkTypes
  <2>2. << >> \in Seq(Byte) /\ << >> \in Seq(Paths)
    OBVIOUS
  <2>3. \/ failed' = failed /\ key' = key /\ handed' = handed
        \/ /\ failed' = [failed EXCEPT ![t] = FALSE] /\ key' = [key EXCEPT ![t] = << >>]
           /\ handed' = [handed EXCEPT ![t] = << >>]
    BY DEF TraverseTest, TraverseSet, TraverseNoMemory, TraverseClear
  <2> QED
    BY <2>1, <2>2, <2>3
<1>3. WalkTypes(t)'
  BY <1>1, <1>2 DEF WalkInv, WalkTypes
<1>4. /\ pc \in [Threads -> {"idle", "tested", "set", "loop", "called", "clear"}]
      /\ failed \in [Threads -> BOOLEAN] /\ DOMAIN handed = Threads
  BY DEF WalkInv, WalkTypes
<1>5. pc[t] \notin {"loop", "called"} /\ \A q \in Paths \cup {Root} : current[q] = 0
  BY DEF WalkInv, TraverseTest, TraverseSet, TraverseNoMemory, TraverseClear
<1>6. /\ pc'[t] \in {"idle", "tested", "set"}
      /\ pc'[t] = "set" => should_not_be_modified'
  BY <1>4 DEF TraverseTest, TraverseSet, TraverseNoMemory, TraverseClear
<1>7. handed'[t] = << >> /\ ~failed'[t]
  BY <1>4 DEF WalkInv, TraverseTest, TraverseSet, TraverseNoMemory, TraverseClear
<1> QED
  BY <1>1, <1>3, <1>5, <1>6, <1>7 DEF WalkInv

LEMMA BeginWalk ==
    ASSUME NEW t \in Threads, WalkInv(t), LinksRight, TraverseBegin(t)
    PROVE  WalkInv(t)'
<1>1. /\ pc \in [Threads -> {"idle", "tested", "set", "loop", "called", "clear"}]
      /\ at \in [Threads -> Paths \cup {Root}]
      /\ current \in [Paths \cup {Root} -> 0 .. Alphabet]
      /\ handed[t] = << >> /\ ~failed[t] /\ should_not_be_modified
      /\ \A q \in Paths \cup {Root} : current[q] = 0
      /\ key[t] \in Seq(Byte)
  BY DEF WalkInv, WalkTypes, TraverseBegin
<1>2. /\ pc' = [pc EXCEPT ![t] = "loop"] /\ at' = [at EXCEPT ![t] = Root]
      /\ current' = [current EXCEPT ![Root] = 0]
      /\ UNCHANGED <<treeVars, should_not_be_modified, key, failed, handed, crashed>>
  BY DEF TraverseBegin
<1>3. Alphabet \in Nat \ {0}
  BY KeyAssumption
<1>4. /\ pc'[t] = "loop" /\ at'[t] = Root /\ \A q \in Paths \cup {Root} : current'[q] = 0
      /\ pc' \in [Threads -> {"idle", "tested", "set", "loop", "called", "clear"}]
      /\ at' \in [Threads -> Paths \cup {Root}]
      /\ current' \in [Paths \cup {Root} -> 0 .. Alphabet]
  BY <1>1, <1>2, <1>3
<1>5. WalkTypes(t)'
  BY <1>2, <1>4 DEF WalkInv, WalkTypes
<1>6. CountersRight(current', Root)
  BY <1>4 DEF CountersRight, Root
<1>7. KeyRight(key'[t], Root, 0)
  <2>1. key'[t] \in Seq(Byte) /\ Len(key'[t]) \in Nat
    BY <1>1, <1>2
  <2> DEFINE n == (Len(Root) - 1) \div 2
  <2>2. n = -1
    <3>1. Len(Root) = 0
      BY DEF Root
    <3>2. (0 - 1) \div 2 = -1
      <4>1. 0 \in Nat
        OBVIOUS
      <4>2. PICK h \in Nat : \/ 0 = 2 * h /\ (0 - 1) \div 2 = h - 1
                             \/ 0 = 2 * h + 1
        BY <4>1, Halves
      <4>3. h = 0
        BY <4>2
      <4> QED
        BY <4>2, <4>3
    <3> HIDE DEF Root
    <3> QED
      BY <3>1, <3>2
  <2>3. BytesRight(key'[t], Root, n)
    <3> HIDE DEF n
    <3> QED
      BY <2>1, <2>2 DEF BytesRight
  <2> QED
    BY <2>3 DEF KeyRight
<1>8. Once(handed'[t]) /\ Members(handed'[t]) = {}
  BY <1>1, <1>2 DEF Once, Members
<1>9. WithData(Done(Root, 0)) = {}
  BY DoneAtStart DEF WithData
<1>10. OnTheWay(t)'
  BY <1>2, <1>4, <1>6, <1>7, <1>8, <1>9, OnTheWayNext
<1> QED
  BY <1>1, <1>2, <1>4, <1>5, <1>10 DEF WalkInv

LEMMA DownWalk ==
    ASSUME NEW t \in Threads, WalkInv(t), LinksRight, TraverseDown(t)
    PROVE  WalkInv(t)'
<1>1. PICK p \in nodes \cup {Root}, c \in Nat : p = at[t] /\ c = current[p] /\ c \in Nibbles
  <2>1. /\ at[t] \in nodes \cup {Root} /\ current[at[t]] < Alphabet
        /\ current[at[t]] \in 0 .. Alphabet /\ Alphabet \in Nat
    BY KeyAssumption DEF WalkInv, WalkTypes, OnTheWay, TraverseDown
  <2> QED
    BY <2>1 DEF Nibbles
<1> DEFINE r == Append(p, c)
           w == WithNibble(key[t], p)
           to == IF r \in nodes THEN r ELSE p
           done == WithData(Done(p, c))
<1>2. /\ pc[t] = "loop" /\ pc' = pc
      /\ key' = [key EXCEPT ![t] = w]
      /\ at' = [at EXCEPT ![t] = to]
      /\ current' = [current EXCEPT ![p] = c + 1]
      /\ UNCHANGED <<treeVars, should_not_be_modified, failed, handed, crashed>>
  BY <1>1 DEF TraverseDown
<1>3. /\ p \in Seq(Nibbles) /\ p \in Paths \cup {Root} /\ c \in 0 .. Alphabet /\ c + 1 \in 0 .. Alphabet
      /\ Alphabet \in Nat \ {0} /\ c + 1 > 0
  <2>1. Alphabet \in Nat \ {0} /\ c \in 0 .. Alphabet - 1
    BY <1>1, KeyAssumption DEF Nibbles
  <2>2. c \in 0 .. Alphabet /\ c + 1 \in 0 .. Alphabet /\ c + 1 > 0
    BY <2>1
  <2>3. p \in Paths \cup {Root}
    BY DEF LinksRight
  <2>4. p \in Seq(Nibbles)
    <3>1. CASE p = Root
      BY <3>1 DEF Root
    <3>2. CASE p \in Paths
      BY <3>2, PathIs
    <3> QED
      BY <2>3, <3>1, <3>2
  <2> QED
    BY <2>1, <2>2, <2>3, <2>4
<1>4. /\ WalkTypes(t) /\ should_not_be_modified
      /\ CountersRight(current, p) /\ KeyRight(key[t], p, c) /\ Once(handed[t])
      /\ Members(handed[t]) \subseteq done
      /\ ~failed[t] => Members(handed[t]) = done
  BY <1>1, <1>2 DEF WalkInv, OnTheWay
<1>5. key[t] \in Seq(Byte) /\ DOMAIN key = Threads /\ DOMAIN at = Threads /\ DOMAIN current = Paths \cup {Root}
  BY <1>4 DEF WalkTypes
<1>6. /\ w \in Seq(Byte) /\ BytesRight(w, p, Len(p) \div 2)
      /\ Len(p) % 2 = 1 => /\ (Len(p) + 1) \div 2 <= Len(w)
                           /\ w[(Len(p) + 1) \div 2] = [lo |-> p[Len(p)], hi |-> {}]
  BY <1>3, <1>4, <1>5, NibbleIs
<1> HIDE DEF w
<1>7. to \in nodes \cup {Root} /\ to \in Paths \cup {Root}
  BY <1>3 DEF LinksRight
<1>8. /\ key'[t] = w /\ at'[t] = to /\ handed'[t] = handed[t] /\ failed'[t] = failed[t] /\ pc'[t] = "loop"
      /\ \A q \in Paths \cup {Root} : current'[q] = IF q = p THEN c + 1 ELSE current[q]
  BY <1>2, <1>3, <1>5
<1>9. WalkTypes(t)'
  <2>1. key' \in [Threads -> Seq(Byte)]
    BY <1>2, <1>4, <1>6 DEF WalkTypes
  <2>2. at' \in [Threads -> Paths \cup {Root}]
    BY <1>2, <1>4, <1>7 DEF WalkTypes
  <2>3. current' \in [Paths \cup {Root} -> 0 .. Alphabet]
    BY <1>2, <1>3, <1>4 DEF WalkTypes
  <2> QED
    BY <1>2, <1>4, <2>1, <2>2, <2>3 DEF WalkTypes
<1>10. /\ \A m \in 0 .. Len(p) - 1 : /\ Prefix(p, m) # p /\ Prefix(p, m) \in Paths \cup {Root}
                                     /\ current'[Prefix(p, m)] = p[m + 1] + 1
       /\ Len(p) \in Nat /\ Prefix(p, Len(p)) = p
  <2> SUFFICES ASSUME NEW m \in 0 .. Len(p) - 1
               PROVE  /\ Prefix(p, m) # p /\ Prefix(p, m) \in Paths \cup {Root}
                      /\ current'[Prefix(p, m)] = p[m + 1] + 1
    BY <1>3, WholePrefix
  <2>1. Len(p) \in Nat /\ m \in 0 .. Len(p) /\ m # Len(p)
    BY <1>3
  <2>2. Prefix(p, m) # p
    BY <1>3, <2>1, PrefixIs
  <2>3. Prefix(p, m) \in Paths \cup {Root}
    <3>1. CASE m = 0
      BY <1>3, <3>1, WholePrefix
    <3>2. CASE m # 0
      <4>1. p # Root /\ m \in 1 .. Len(p)
        BY <2>1, <3>2 DEF Root
      <4> QED
        BY <1>3, <4>1, PathIs
    <3> QED
      BY <3>1, <3>2
  <2> QED
    BY <1>4, <1>8, <2>2, <2>3 DEF CountersRight
<1>11. CASE r \notin nodes
  <2>1. CountersRight(current', p)
    BY <1>4, <1>8, <1>10 DEF CountersRight
  <2>2. KeyRight(w, p, c + 1)
    BY <1>3, <1>6 DEF KeyRight
  <2>3. Done(p, c + 1) = Done(p, c)
    BY <1>1, <1>3, <1>11, DonePast
  <2>4. at'[t] = p /\ current'[p] = c + 1
    BY <1>3, <1>8, <1>11
  <2> HIDE DEF r, to
  <2>5. OnTheWay(t)'
    <3>1. /\ KeyRight(key'[t], p, c + 1) /\ Once(handed'[t])
          /\ Members(handed'[t]) \subseteq WithData(Done(p, c + 1))
          /\ ~failed'[t] => Members(handed'[t]) = WithData(Done(p, c + 1))
      BY <1>4, <1>8, <2>2, <2>3
    <3>2. UNCHANGED treeVars /\ pc'[t] = "loop" /\ pc'[t] # "called"
      BY <1>2, <1>8
    <3> QED
      BY <2>1, <2>4, <3>1, <3>2, OnTheWayNext
  <2> QED
    BY <1>2, <1>4, <1>8, <1>9, <2>5 DEF WalkInv
<1>12. CASE r \in nodes
  <2>1. /\ r \in Seq(Nibbles) /\ Len(r) = Len(p) + 1 /\ r[Len(p) + 1] = c
        /\ \A n \in 0 .. Len(p) : Prefix(r, n) = Prefix(p, n)
        /\ \A i \in 1 .. Len(p) : r[i] = p[i]
    BY <1>1, <1>3, ChildIs
  <2>2. at'[t] = r
    BY <1>8, <1>12
  <2>3. KeyRight(w, r, 0)
    BY <1>1, <1>3, <1>6, KeyDown
  <2>4. Done(r, 0) = Done(p, c)
    BY <1>1, <1>3, DoneDown
  <2> HIDE DEF r, to
  <2>5. r \in Paths /\ r # p
    BY <1>10, <1>12, <2>1 DEF LinksRight
  <2>6. current[r] = 0
    <3>1. \A m \in 0 .. Len(p) : r # Prefix(p, m)
      <4> SUFFICES ASSUME NEW m \in 0 .. Len(p), r = Prefix(p, m) PROVE FALSE
        OBVIOUS
      <4>1. Len(r) = m
        BY <1>3, PrefixIs
      <4> QED
        BY <1>10, <2>1, <4>1
    <3> QED
      BY <1>4, <2>5, <3>1 DEF CountersRight
  <2>7. current'[r] = 0
    BY <1>8, <2>5, <2>6
  <2>8. CountersRight(current', r)
    <3>1. ASSUME NEW m \in 0 .. Len(r) - 1 PROVE current'[Prefix(r, m)] = r[m + 1] + 1
      <4>1. m \in 0 .. Len(p) /\ (m = Len(p) \/ (m \in 0 .. Len(p) - 1 /\ m + 1 \in 1 .. Len(p)))
        BY <1>10, <2>1
      <4>2. CASE m = Len(p)
        BY <1>3, <1>8, <1>10, <2>1, <4>1, <4>2
      <4>3. CASE m \in 0 .. Len(p) - 1 /\ m + 1 \in 1 .. Len(p)
        BY <1>10, <2>1, <4>1, <4>3
      <4> QED
        BY <4>1, <4>2, <4>3
    <3>2. ASSUME NEW q \in Paths \cup {Root}, current'[q] # 0 PROVE \E m \in 0 .. Len(r) : q = Prefix(r, m)
      <4>1. PICK m \in 0 .. Len(p) : q = Prefix(p, m)
        <5>1. CASE q = p
          BY <1>10, <5>1
        <5>2. CASE q # p
          BY <1>4, <1>8, <3>2, <5>2 DEF CountersRight
        <5> QED
          BY <5>1, <5>2
      <4>2. m \in 0 .. Len(r)
        BY <1>10, <2>1
      <4> QED
        BY <2>1, <4>1, <4>2
    <3> QED
      BY <3>1, <3>2 DEF CountersRight
  <2>9. OnTheWay(t)'
    <3>1. /\ KeyRight(key'[t], r, 0) /\ Once(handed'[t])
          /\ Members(handed'[t]) \subseteq WithData(Done(r, 0))
          /\ ~failed'[t] => Members(handed'[t]) = WithData(Done(r, 0))
      BY <1>4, <1>8, <2>3, <2>4
    <3>2. UNCHANGED treeVars /\ pc'[t] = "loop" /\ pc'[t] # "called"
      BY <1>2, <1>8
    <3> QED
      BY <1>12, <2>2, <2>7, <2>8, <3>1, <3>2, OnTheWayNext
  <2> QED
    BY <1>2, <1>4, <1>8, <1>9, <2>9 DEF WalkInv
<1> QED
  BY <1>11, <1>12

LEMMA AppendOnce ==
    ASSUME NEW S, NEW list \in Seq(S), NEW e \in S, Once(list), e \notin Members(list)
    PROVE  /\ Append(list, e) \in Seq(S)
           /\ Once(Append(list, e)) /\ Members(Append(list, e)) = Members(list) \cup {e}
<1> DEFINE l == Append(list, e)
           n == Len(list)
<1>1. /\ l \in Seq(S) /\ Len(l) = n + 1 /\ l[n + 1] = e /\ \A i \in 1 .. n : l[i] = list[i]
      /\ DOMAIN l = 1 .. n + 1 /\ DOMAIN list = 1 .. n /\ n \in Nat
  OBVIOUS
<1> HIDE DEF l, n
<1>2. \A i : i \in 1 .. n + 1 <=> i \in 1 .. n \/ i = n + 1
  BY <1>1
<1>3. Members(l) = Members(list) \cup {e}
  BY <1>1, <1>2 DEF Members
<1>4. ASSUME NEW i \in 1 .. n + 1, NEW j \in 1 .. n + 1, l[i] = l[j] PROVE i = j
  <2>1. \A k \in 1 .. n : list[k] # e
    BY <1>1 DEF Members
  <2>2. CASE i \in 1 .. n /\ j \in 1 .. n
    BY <1>1, <1>4, <2>2 DEF Once
  <2> QED
    BY <1>1, <1>2, <1>4, <2>1, <2>2
<1> QED
  BY <1>1, <1>3, <1>4 DEF l, Once

LEMMA CallWalk ==
    ASSUME NEW t \in Threads, WalkInv(t), TreeInv, TraverseCall(t)
    PROVE  WalkInv(t)'
<1>1. PICK p \in nodes \cup {Root}, list \in Seq(Paths) : p = at[t] /\ list = handed[t]
  BY DEF WalkInv, WalkTypes, OnTheWay, TraverseCall
<1>2. /\ pc[t] = "loop" /\ pc' = [pc EXCEPT ![t] = "called"]
      /\ handed' = [handed EXCEPT ![t] = Append(list, p)]
      /\ user_data[p] # NULL /\ ~failed[t] /\ current[p] >= Alphabet
      /\ UNCHANGED <<treeVars, current, should_not_be_modified, at, key, failed, crashed>>
  BY <1>1 DEF TraverseCall
<1>3. /\ WalkTypes(t) /\ should_not_be_modified
      /\ CountersRight(current, p) /\ KeyRight(key[t], p, current[p])
      /\ Once(list) /\ Members(list) = WithData(Done(p, current[p]))
  BY <1>1, <1>2 DEF WalkInv, OnTheWay
<1>4. /\ p \in nodes /\ p \in Paths /\ p \in Seq(Nibbles) /\ LinksRight
      /\ current[p] = Alphabet
  <2>1. p # Root
    BY <1>2 DEF TreeInv, DataRight
  <2>2. p \in nodes /\ p \in Paths /\ LinksRight
    BY <2>1 DEF TreeInv, LinksRight
  <2>3. current[p] \in 0 .. Alphabet /\ Alphabet \in Nat
    BY <1>3, <2>2, KeyAssumption DEF WalkTypes
  <2> QED
    BY <1>2, <2>2, <2>3, PathIs
<1>5. /\ Append(list, p) \in Seq(Paths) /\ Once(Append(list, p))
      /\ Members(Append(list, p)) = WithData(Done(p, Alphabet)) \cup {p}
  <2>1. p \notin Members(list)
    BY <1>3, <1>4, NotDone DEF WithData
  <2> QED
    BY <1>3, <1>4, <2>1, AppendOnce
<1>6. WalkTypes(t)'
  <2>1. /\ handed' \in [Threads -> Seq(Paths)]
        /\ pc' \in [Threads -> {"idle", "tested", "set", "loop", "called", "clear"}]
    BY <1>2, <1>3, <1>5 DEF WalkTypes
  <2> QED
    BY <1>2, <1>3, <2>1 DEF WalkTypes
<1>7. handed'[t] = Append(list, p) /\ pc'[t] = "called"
  BY <1>2, <1>3 DEF WalkTypes
<1>8. OnTheWay(t)'
  <2>1. /\ at'[t] = p /\ current'[p] = Alphabet /\ CountersRight(current', p)
        /\ KeyRight(key'[t], p, Alphabet) /\ UNCHANGED treeVars /\ pc'[t] # "loop"
    BY <1>1, <1>2, <1>3, <1>4, <1>7
  <2>2. Once(handed'[t]) /\ Members(handed'[t]) = WithData(Done(p, Alphabet)) \cup {p}
    BY <1>5, <1>7
  <2> QED
    BY <1>2, <1>4, <1>7, <2>1, <2>2, OnTheWayNext
<1> QED
  BY <1>2, <1>3, <1>6, <1>7, <1>8 DEF WalkInv

LEMMA UpWalk ==
    ASSUME NEW t \in Threads, WalkInv(t), TreeInv, TraverseUp(t) \/ TraverseReturned(t)
    PROVE  WalkInv(t)'
<1>1. PICK p \in nodes \cup {Root} : p = at[t]
  BY DEF WalkInv, OnTheWay, TraverseUp, TraverseReturned
<1> DEFINE u == Parent(p)
           v == p[Len(p)]
           all == WithData(Done(p, Alphabet) \cup {p})
<1>2. /\ pc[t] \in {"loop", "called"}
      /\ pc' = [pc EXCEPT ![t] = IF p = Root THEN "clear" ELSE "loop"]
      /\ at' = [at EXCEPT ![t] = IF p = Root THEN p ELSE u]
      /\ current' = [current EXCEPT ![p] = 0]
      /\ UNCHANGED <<treeVars, should_not_be_modified, key, handed, crashed>>
  BY <1>1 DEF TraverseUp, TraverseReturned, Up
<1>3. /\ WalkTypes(t) /\ should_not_be_modified
      /\ CountersRight(current, p) /\ KeyRight(key[t], p, current[p]) /\ Once(handed[t])
      /\ LinksRight /\ user_data[Root] = NULL
  BY <1>1, <1>2 DEF WalkInv, OnTheWay, TreeInv, DataRight
<1>4. /\ p \in Paths \cup {Root} /\ p \in Seq(Nibbles)
      /\ Alphabet \in Nat \ {0} /\ Alphabet > 0 /\ current[p] = Alphabet
  <2>1. p \in Paths \cup {Root} /\ Alphabet \in Nat \ {0} /\ Alphabet > 0
    BY <1>3, KeyAssumption DEF LinksRight
  <2>2. p \in Seq(Nibbles)
    <3>1. CASE p = Root
      BY <3>1 DEF Root
    <3>2. CASE p \in Paths
      BY <3>2, PathIs
    <3> QED
      BY <2>1, <3>1, <3>2
  <2>3. current[p] \in 0 .. Alphabet
    BY <1>3, <2>1 DEF WalkTypes
  <2>4. current[p] >= Alphabet \/ current[p] = Alphabet
    BY <1>1 DEF WalkInv, OnTheWay, TraverseUp, TraverseReturned
  <2> QED
    BY <2>1, <2>2, <2>3, <2>4
<1>5. /\ failed' \in [Threads -> BOOLEAN]
      /\ Members(handed[t]) \subseteq all
      /\ ~failed'[t] => Members(handed[t]) = all
  <2>1. failed \in [Threads -> BOOLEAN]
    BY <1>3 DEF WalkTypes
  <2>2. CASE TraverseUp(t)
    <3>1. failed' = failed /\ pc[t] = "loop" /\ (user_data[p] = NULL \/ failed[t])
      BY <1>1, <2>2 DEF TraverseUp
    <3>2. /\ Members(handed[t]) \subseteq WithData(Done(p, Alphabet))
          /\ ~failed[t] => Members(handed[t]) = WithData(Done(p, Alphabet))
      BY <1>1, <1>4, <3>1 DEF WalkInv, OnTheWay
    <3>3. /\ WithData(Done(p, Alphabet)) \subseteq all
          /\ user_data[p] = NULL => all = WithData(Done(p, Alphabet))
      BY DEF WithData
    <3> HIDE DEF all
    <3>4. Members(handed[t]) \subseteq all
      BY <3>2, <3>3
    <3>5. ~failed[t] => Members(handed[t]) = all
      BY <3>1, <3>2, <3>3
    <3> QED
      BY <2>1, <3>1, <3>4, <3>5
  <2>3. CASE TraverseReturned(t)
    <3>1. pc[t] = "called" /\ \E f \in BOOLEAN : failed' = [failed EXCEPT ![t] = f]
      BY <2>3 DEF TraverseReturned
    <3>2. Members(handed[t]) = WithData(Done(p, Alphabet)) \cup {p} /\ user_data[p] # NULL
      BY <1>1, <1>4, <3>1 DEF WalkInv, OnTheWay
    <3>3. Members(handed[t]) = all
      BY <3>2 DEF WithData
    <3>4. failed' \in [Threads -> BOOLEAN]
      BY <2>1, <3>1
    <3> QED
      BY <3>3, <3>4
  <2> QED
    BY <2>2, <2>3
<1>6. /\ DOMAIN pc = Threads /\ DOMAIN at = Threads /\ DOMAIN current = Paths \cup {Root}
      /\ key[t] \in Seq(Byte)
  BY <1>3 DEF WalkTypes
<1>7. /\ pc'[t] = IF p = Root THEN "clear" ELSE "loop"
      /\ at'[t] = IF p = Root THEN p ELSE u
      /\ \A q \in Paths \cup {Root} : current'[q] = IF q = p THEN 0 ELSE current[q]
      /\ handed'[t] = handed[t] /\ key'[t] = key[t] /\ should_not_be_modified'
  BY <1>2, <1>3, <1>6
<1>8. WalkTypes(t)'
  <2>1. pc' \in [Threads -> {"idle", "tested", "set", "loop", "called", "clear"}]
    BY <1>2, <1>3 DEF WalkTypes
  <2>2. p # Root => u \in Paths \cup {Root}
    BY <1>4, PathIs
  <2>3. at' \in [Threads -> Paths \cup {Root}]
    <3> DEFINE to == IF p = Root THEN p ELSE u
    <3>1. to \in Paths \cup {Root}
      BY <1>4, <2>2
    <3>2. at' = [at EXCEPT ![t] = to]
      BY <1>2
    <3> HIDE DEF to
    <3> QED
      BY <1>3, <3>1, <3>2 DEF WalkTypes
  <2>4. current' \in [Paths \cup {Root} -> 0 .. Alphabet]
    <3>1. 0 \in 0 .. Alphabet
      BY <1>4
    <3> QED
      BY <1>2, <1>3, <3>1 DEF WalkTypes
  <2> QED
    BY <1>2, <1>3, <1>5, <2>1, <2>3, <2>4 DEF WalkTypes
<1>9. CASE p = Root
  <2>1. pc'[t] = "clear"
    BY <1>7, <1>9
  <2>2. ASSUME NEW q \in Paths \cup {Root} PROVE current'[q] = 0
    <3>1. current[q] = 0 \/ \E m \in 0 .. Len(Root) : q = Prefix(Root, m)
      BY <1>3, <1>9 DEF CountersRight
    <3>2. ASSUME NEW m \in 0 .. Len(Root), q = Prefix(Root, m) PROVE q = Root
      <4>1. Root \in Seq(Nibbles) /\ m = 0
        BY DEF Root
      <4> QED
        BY <3>2, <4>1, WholePrefix
    <3> QED
      BY <1>7, <1>9, <3>1, <3>2
  <2>3. all = WithData(nodes)
    <3>1. Done(p, Alphabet) = nodes
      BY <1>3, <1>9, DoneAtEnd
    <3> QED
      BY <1>3, <1>9, <3>1 DEF WithData
  <2>4. ~failed'[t] => Members(handed[t])' = WithData(nodes)'
    <3>1. nodes' = nodes /\ user_data' = user_data
      BY <1>2 DEF treeVars
    <3>2. Members(handed[t])' = Members(handed[t]) /\ WithData(nodes)' = WithData(nodes)
      BY <1>7, <3>1 DEF Members, WithData
    <3> QED
      BY <1>5, <2>3, <3>2
  <2> QED
    BY <1>7, <1>8, <2>1, <2>2, <2>4 DEF WalkInv
<1>10. CASE p # Root
  <2>1. /\ Len(p) \in Nat \ {0} /\ u \in Seq(Nibbles) /\ Len(u) = Len(p) - 1 /\ v \in Nibbles
        /\ p \in nodes /\ u \in nodes \cup {Root} /\ u \in Paths \cup {Root}
    <3>1. Len(p) \in Nat \ {0} /\ u \in Seq(Nibbles) /\ Len(u) = Len(p) - 1 /\ v \in Nibbles
      BY <1>4, <1>10, ParentIs
    <3>2. p \in nodes
      BY <1>10
    <3>3. u \in nodes \cup {Root}
      <4>1. Len(p) > 1 => u \in nodes
        BY <1>3, <3>2 DEF LinksRight
      <4>2. Len(u) = 0 => u = Root
        BY <3>1 DEF Root
      <4> QED
        BY <3>1, <4>1, <4>2
    <3> QED
      BY <1>3, <3>1, <3>2, <3>3 DEF LinksRight
  <2>2. \A m \in 0 .. Len(u) : /\ m \in 0 .. Len(p) - 1 /\ Prefix(u, m) = Prefix(p, m)
                               /\ Prefix(p, m) # p /\ Prefix(p, m) \in Paths \cup {Root}
    <3> SUFFICES ASSUME NEW m \in 0 .. Len(u)
                 PROVE  /\ m \in 0 .. Len(p) - 1 /\ Prefix(u, m) = Prefix(p, m)
                        /\ Prefix(p, m) # p /\ Prefix(p, m) \in Paths \cup {Root}
      OBVIOUS
    <3>1. /\ m \in 0 .. Len(p) - 1 /\ m \in 0 .. Len(p) /\ m # Len(p) /\ Len(p) - 1 \in 0 .. Len(p)
          /\ m = 0 \/ m \in 1 .. Len(p)
      BY <2>1
    <3>2. Prefix(u, m) = Prefix(p, m)
      BY <1>4, <2>1, <3>1, PrefixOfPrefix DEF Parent
    <3>3. Prefix(p, m) # p
      BY <1>4, <3>1, PrefixIs
    <3>4. m = 0 => Prefix(p, m) = Root
      BY <1>4, WholePrefix
    <3>5. m \in 1 .. Len(p) => Prefix(p, m) \in Paths
      BY <1>4, <1>10, PathIs
    <3> QED
      BY <3>1, <3>2, <3>3, <3>4, <3>5
  <2>3. \A i \in 1 .. Len(u) : u[i] = p[i]
    <3> DEFINE m == Len(p) - 1
    <3>1. m \in 0 .. Len(p) /\ Len(u) = m /\ p \in Seq(Nibbles)
      BY <1>4, <2>1
    <3>2. u = Prefix(p, m)
      BY DEF Parent
    <3> HIDE DEF m, u
    <3>3. \A i \in 1 .. m : Prefix(p, m)[i] = p[i]
      BY <3>1, PrefixIs
    <3> QED
      BY <3>1, <3>2, <3>3
  <2>4. current'[u] = v + 1 /\ v + 1 > 0
    <3>1. Len(p) - 1 \in 0 .. Len(p) - 1 /\ Len(p) - 1 \in 0 .. Len(u) /\ Len(p) - 1 + 1 = Len(p)
      BY <2>1
    <3>2. current[Prefix(p, Len(p) - 1)] = v + 1
      BY <1>3, <3>1 DEF CountersRight
    <3>3. u # p
      BY <2>2, <3>1 DEF Parent
    <3>4. v \in Nat
      BY <1>4, <2>1 DEF Nibbles
    <3> QED
      BY <1>7, <2>1, <3>2, <3>3, <3>4 DEF Parent
  <2>5. CountersRight(current', u)
    <3>1. ASSUME NEW m \in 0 .. Len(u) - 1 PROVE current'[Prefix(u, m)] = u[m + 1] + 1
      <4>1. m \in 0 .. Len(u) /\ m + 1 \in 1 .. Len(u)
        BY <2>1
      <4>2. current[Prefix(p, m)] = p[m + 1] + 1
        BY <1>3, <2>2, <4>1 DEF CountersRight
      <4> QED
        BY <1>7, <2>2, <2>3, <4>1, <4>2
    <3>2. ASSUME NEW q \in Paths \cup {Root}, current'[q] # 0 PROVE \E m \in 0 .. Len(u) : q = Prefix(u, m)
      <4>1. q # p /\ current[q] # 0
        BY <1>7, <3>2
      <4>2. PICK m \in 0 .. Len(p) : q = Prefix(p, m)
        BY <1>3, <4>1 DEF CountersRight
      <4>3. m # Len(p)
        BY <1>4, <4>1, <4>2, WholePrefix
      <4>4. m \in 0 .. Len(u)
        BY <2>1, <4>3
      <4> QED
        BY <2>2, <4>2, <4>4
    <3> QED
      BY <3>1, <3>2 DEF CountersRight
  <2>6. KeyRight(key'[t], u, v + 1)
    <3>1. BytesRight(key[t], p, Len(p) \div 2)
      BY <1>3, <1>4 DEF KeyRight
    <3>2. BytesRight(key[t], u, Len(u) \div 2)
      BY <1>4, <1>6, <1>10, <3>1, KeyUp
    <3> QED
      BY <1>7, <2>4, <3>2 DEF KeyRight
  <2>7. Done(u, v + 1) = Done(p, Alphabet) \cup {p}
    BY <1>3, <2>1, DoneUp
  <2>8. at'[t] = u /\ pc'[t] = "loop"
    BY <1>7, <1>10
  <2>9. /\ Members(handed'[t]) \subseteq WithData(Done(u, v + 1))
        /\ ~failed'[t] => Members(handed'[t]) = WithData(Done(u, v + 1))
        /\ Once(handed'[t])
    BY <1>3, <1>5, <1>7, <2>7
  <2> HIDE DEF u, v, all
  <2>10. OnTheWay(t)'
    BY <1>2, <2>1, <2>4, <2>5, <2>6, <2>8, <2>9, OnTheWayNext
  <2> QED
    BY <1>7, <1>8, <2>8, <2>10 DEF WalkInv
<1> QED
  BY <1>9, <1>10
\* A tree that one thread at a time traverses.
LEMMA NextWalk ==
    ASSUME OneTraverser, NEW t \in Threads, TreeInv, WalkInv(t), [Next]_vars
    PROVE  WalkInv(t)'
<1>1. CASE UNCHANGED vars
  <2>1. /\ UNCHANGED <<treeVars, current, should_not_be_modified, travVars>> /\ crashed' \in BOOLEAN
    BY <1>1 DEF vars, WalkInv, WalkTypes
  <2> QED
    BY <2>1, WalkStays
<1>2. CASE \E d \in Data : Operate(d)
  BY <1>2, OperateWalk
<1>3. ASSUME NEW s \in Threads, Traverse(s) PROVE WalkInv(t)'
  <2>1. s = t
    BY DEF OneTraverser
  <2>2. Traverse(t) /\ LinksRight
    BY <1>3, <2>1 DEF TreeInv
  <2> QED
    BY <2>2, AroundWalk, BeginWalk, DownWalk, CallWalk, UpWalk DEF Traverse
<1> QED
  BY <1>1, <1>2, <1>3 DEF Next

LEMMA InitWalk == ASSUME Init, NEW t \in Threads PROVE WalkInv(t)
<1>1. 0 \in 0 .. Alphabet
  BY KeyAssumption
<1>2. << >> \in Seq(Byte) /\ << >> \in Seq(Paths)
  OBVIOUS
<1> QED
  BY <1>1, <1>2, KeyAssumption DEF Init, WalkInv, WalkTypes

WalksRight == \A t \in Threads : WalkInv(t)

-----------------------------------------------------------------------------
(***************************************************************************)
(* What the invariants say of the counts and of the traversal              *)
(***************************************************************************)
LEMMA CountsFollow == OneTraverser /\ TreeInv /\ WalksRight => CountsMatchLinks
<1> SUFFICES ASSUME OneTraverser, TreeInv, WalksRight PROVE CountsMatchLinks
  OBVIOUS
<1>1. PICK t \in Threads : Threads = {t} /\ WalkInv(t)
  BY DEF OneTraverser, WalksRight
<1>2. LinksRight /\ DataRight /\ WalkTypes(t)
  BY <1>1 DEF TreeInv, WalkInv
<1>3. \A p \in Paths \cup {Root} :
          /\ n_children[p] = Cardinality({q \in nodes : Parent(q) = p})
          /\ n_children[p] \in 0 .. Alphabet
  <2> SUFFICES ASSUME NEW p \in Paths \cup {Root}
               PROVE  /\ n_children[p] = Cardinality({q \in nodes : Parent(q) = p})
                      /\ n_children[p] \in 0 .. Alphabet
    OBVIOUS
  <2>1. n_children[p] = Cardinality(Children(nodes, p)) /\ nodes \subseteq Paths
    BY <1>2 DEF LinksRight
  <2>2. Cardinality(Children(nodes, p)) \in 0 .. Alphabet
    BY <2>1, ChildrenFit
  <2>3. Children(nodes, p) = {q \in nodes : Parent(q) = p}
    BY DEF Children
  <2> QED
    BY <2>1, <2>2, <2>3
<1>4. TypeOK
  <2>1. node_count \in Nat
    BY <1>2, FS_CardinalityType DEF LinksRight
  <2>2. at[t] \in nodes \cup {Root} \/ pc[t] \notin {"loop", "called"}
    BY <1>1 DEF WalkInv, OnTheWay
  <2>3. \A p \in Paths \cup {Root} : current[p] \in 0 .. Alphabet
    BY <1>2 DEF WalkTypes
  <2> QED
    BY <1>1, <1>2, <1>3, <2>1, <2>2, <2>3 DEF TypeOK, LinksRight, DataRight, WalkTypes
<1>5. ASSUME NEW p \in Paths \ nodes PROVE n_children[p] = 0 /\ user_data[p] = NULL
  <2>1. \A q \in nodes : Parent(q) # p
    <3> SUFFICES ASSUME NEW q \in nodes, Parent(q) = p PROVE FALSE
      OBVIOUS
    <3>1. q \in Seq(Nibbles) /\ q # Root /\ Len(p) \in Nat \ {0}
      BY <1>2, PathIs DEF LinksRight
    <3>2. Len(q) \in Nat /\ Len(p) = Len(q) - 1
      BY <3>1, ParentIs
    <3>3. Len(q) > 1
      BY <3>1, <3>2
    <3> QED
      BY <1>2, <3>3 DEF LinksRight
  <2>2. {q \in nodes : Parent(q) = p} = {}
    BY <2>1
  <2> QED
    BY <1>2, <1>3, <2>2, FS_EmptySet DEF DataRight
<1>6. ASSUME NEW p \in nodes, user_data[p] # NULL PROVE Len(p) % 2 = 0
  <2>1. p \in Paths /\ user_data[p] \in Data /\ Key[user_data[p]] = p
    BY <1>2, <1>6 DEF LinksRight, DataRight
  <2> QED
    BY <2>1, KeyIs
<1>7. \A p \in nodes \cup {Root} : n_children[p] = Cardinality({q \in nodes : Parent(q) = p})
  BY <1>2, <1>3 DEF LinksRight
<1> QED
  BY <1>2, <1>4, <1>5, <1>6, <1>7 DEF CountsMatchLinks, LinksRight

LEMMA HandsFollow == TreeInv /\ WalksRight => HandsOutAll
<1> SUFFICES ASSUME TreeInv, WalksRight, NEW t \in Threads
             PROVE  /\ pc[t] = "called" =>
                        /\ Len(handed[t]) = Cardinality({handed[t][i] : i \in DOMAIN handed[t]})
                        /\ \A i \in 1..(Len(at[t]) \div 2) :
                              key[t][i] = [lo |-> at[t][2 * i - 1], hi |-> {at[t][2 * i]} \ {0}]
                    /\ pc[t] = "clear" /\ ~failed[t] =>
                        {handed[t][i] : i \in DOMAIN handed[t]} = {p \in nodes : user_data[p] # NULL}
  BY DEF HandsOutAll
<1>1. WalkInv(t)
  BY DEF WalksRight
<1>2. ASSUME pc[t] = "called"
      PROVE  Len(handed[t]) = Cardinality({handed[t][i] : i \in DOMAIN handed[t]})
  <2>1. handed[t] \in Seq(Paths) /\ Once(handed[t])
    BY <1>1, <1>2 DEF WalkInv, WalkTypes, OnTheWay
  <2> DEFINE n == Len(handed[t])
             M == {handed[t][i] : i \in DOMAIN handed[t]}
             f == [i \in 1 .. n |-> handed[t][i]]
  <2>2. n \in Nat /\ DOMAIN handed[t] = 1 .. n
    BY <2>1
  <2>3. f \in Bijection(1 .. n, M)
    <3>1. f \in [1 .. n -> M]
      BY <2>2
    <3>2. \A i, j \in 1 .. n : f[i] = f[j] => i = j
      BY <2>1, <2>2 DEF Once
    <3>3. \A x \in M : \E i \in 1 .. n : f[i] = x
      BY <2>2
    <3> HIDE DEF f, n, M
    <3> QED
      BY <3>1, <3>2, <3>3, Fun_IsBij
  <2>4. IsFiniteSet(1 .. n) /\ Cardinality(1 .. n) = n
    <3> HIDE DEF n
    <3>1. IsFiniteSet(1 .. n) /\ Cardinality(1 .. n) = IF 1 > n THEN 0 ELSE n - 1 + 1
      BY <2>2, FS_Interval
    <3> QED
      BY <2>2, <3>1
  <2> HIDE DEF n, M, f
  <2>5. Cardinality(M) = n
    <3>1. ExistsBijection(1 .. n, M)
      BY <2>3 DEF ExistsBijection
    <3> QED
      BY <2>4, <3>1, FS_Bijection
  <2> QED
    BY <2>5 DEF n, M
<1>3. ASSUME pc[t] = "called", NEW i \in 1..(Len(at[t]) \div 2)
      PROVE  key[t][i] = [lo |-> at[t][2 * i - 1], hi |-> {at[t][2 * i]} \ {0}]
  <2>1. KeyRight(key[t], at[t], Alphabet) /\ Alphabet > 0
    BY <1>1, <1>3, KeyAssumption DEF WalkInv, OnTheWay
  <2> QED
    BY <2>1 DEF KeyRight, BytesRight
<1>4. ASSUME pc[t] = "clear", ~failed[t]
      PROVE  {handed[t][i] : i \in DOMAIN handed[t]} = {p \in nodes : user_data[p] # NULL}
  BY <1>1, <1>4 DEF WalkInv, Members, WithData
<1> QED
  BY <1>2, <1>3, <1>4

LEMMA NextWalks == OneTraverser /\ TreeInv /\ WalksRight /\ [Next]_vars => WalksRight'
<1> SUFFICES ASSUME OneTraverser, TreeInv, WalksRight, [Next]_vars, NEW t \in Threads
             PROVE  WalkInv(t)'
  BY DEF WalksRight
<1>1. WalkInv(t)
  BY DEF WalksRight
<1> QED
  BY <1>1, NextWalk

LEMMA InitWalks == Init => WalksRight
BY InitWalk DEF WalksRight

\* The counts that removal relies on are those of the links, at every step of
\* any calls and of a traversal (radix_tree_object.c:196).
THEOREM CountsAreRight == OneTraverser => (Spec => []CountsMatchLinks)
<1> SUFFICES ASSUME OneTraverser PROVE Spec => []CountsMatchLinks
  OBVIOUS
<1>1. TreeInv /\ WalksRight /\ [Next]_vars => WalksRight'
  BY NextWalks
<1>2. TreeInv /\ WalksRight => CountsMatchLinks
  BY CountsFollow
<1> QED
  BY <1>1, <1>2, InitTree, NextTree, InitWalks, PTL DEF Spec

\* A traversal gives the user function every key that has data, once, with its
\* own bytes, whatever the tree is (radix_tree_object.c:327).
THEOREM EveryKeyIsHandedOut == OneTraverser => (Spec => []HandsOutAll)
<1> SUFFICES ASSUME OneTraverser PROVE Spec => []HandsOutAll
  OBVIOUS
<1>1. TreeInv /\ WalksRight /\ [Next]_vars => WalksRight'
  BY NextWalks
<1>2. TreeInv /\ WalksRight => HandsOutAll
  BY HandsFollow
<1> QED
  BY <1>1, <1>2, InitTree, NextTree, InitWalks, PTL DEF Spec
=============================================================================
