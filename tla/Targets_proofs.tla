--------------------------- MODULE Targets_proofs ---------------------------
(* Theorems about freeze_options, about Targets, and about Selection, which *)
(* decides the calls of Targets.                                            *)
EXTENDS Selection, Options, WellFoundedInduction, FiniteSetTheorems, TLAPS

\* A set of numbers has a least one.
LEMMA LeastOf ==
    ASSUME NEW S \in SUBSET Nat, S # {}
    PROVE  \E m \in S : \A n \in S : m <= n
<1> DEFINE R == {ss \in Nat \X Nat : ss[1] < ss[2]}
<1>1. IsWellFoundedOn(R, Nat)
  BY NatLessThanWellFounded DEF OpToRel
<1>2. \A m, n \in Nat : n < m => <<n, m>> \in R
  OBVIOUS
<1> HIDE DEF R
<1>3. PICK m \in S : \A n \in S : ~(<<n, m>> \in R)
  BY <1>1, WFMin
<1>4. \A n \in S : ~(n < m)
  BY <1>2, <1>3
<1> QED BY <1>4

\* s is the enumeration of the set K in order.
Enumerates(s, K) ==
    /\ s \in [1..Cardinality(K) -> K]
    /\ \A i, j \in 1..Cardinality(K) : i < j => s[i] < s[j]

\* Finitely many keys can be sorted.
LEMMA CanSort ==
    ASSUME NEW keys \in SUBSET Nat, IsFiniteSet(keys)
    PROVE  \E s : Enumerates(s, keys)
<1> DEFINE Bad(K) == IsFiniteSet(K) /\ ~\E s : Enumerates(s, K)
           Sizes == {n \in Nat : \E K \in SUBSET Nat : Bad(K) /\ Cardinality(K) = n}
<1> SUFFICES ASSUME Bad(keys) PROVE FALSE
  OBVIOUS
<1>1. Cardinality(keys) \in Sizes
  BY FS_CardinalityType
<1>2. PICK n \in Sizes : \A m \in Sizes : n <= m
  BY <1>1, LeastOf
<1>3. PICK K \in SUBSET Nat : Bad(K) /\ Cardinality(K) = n
  BY <1>2
<1>4. K # {}
  <2> SUFFICES ASSUME K = {} PROVE FALSE
    OBVIOUS
  <2>1. n = 0
    BY <1>3, FS_EmptySet
  <2> DEFINE s == [i \in 1..0 |-> 0]
  <2>2. Enumerates(s, K)
    BY <1>3, <2>1 DEF Enumerates
  <2> QED BY <1>3, <2>2
<1>5. PICK k \in K : \A l \in K : k <= l
  BY <1>3, <1>4, LeastOf
<1>6. IsFiniteSet(K \ {k}) /\ Cardinality(K \ {k}) = n - 1
  BY <1>3, FS_RemoveElement
<1>7. n \in Nat /\ n - 1 \in Nat
  BY <1>6, FS_CardinalityType
<1>8. PICK s : Enumerates(s, K \ {k})
  BY <1>2, <1>3, <1>6, <1>7
<1> DEFINE t == [i \in 1..n |-> IF i = 1 THEN k ELSE s[i - 1]]
<1>9. \A i \in 1..n : i # 1 => i - 1 \in 1..(n - 1) /\ s[i - 1] \in K \ {k}
  <2>1. s \in [1..(n - 1) -> K \ {k}]
    BY <1>6, <1>8 DEF Enumerates
  <2>2. ASSUME NEW i \in 1..n, i # 1 PROVE i - 1 \in 1..(n - 1)
    BY <1>7, <2>2
  <2> QED BY <2>1, <2>2
<1>10. t \in [1..n -> K]
  BY <1>9
<1>11. ASSUME NEW i \in 1..n, NEW j \in 1..n, i < j
       PROVE  t[i] < t[j]
  <2>1. s[j - 1] \in K \ {k} /\ j # 1
    BY <1>7, <1>9, <1>11
  <2>2. CASE i = 1
    <3>1. t[i] = k /\ t[j] = s[j - 1]
      BY <2>1, <2>2
    <3>2. s[j - 1] \in K /\ s[j - 1] # k /\ K \subseteq Nat
      BY <2>1
    <3>3. k <= s[j - 1] /\ k \in Nat /\ s[j - 1] \in Nat
      BY <1>5, <3>2
    <3> HIDE DEF t
    <3> QED BY <3>1, <3>2, <3>3
  <2>3. CASE i # 1
    <3>1. i - 1 \in 1..(n - 1) /\ j - 1 \in 1..(n - 1) /\ i - 1 < j - 1
      BY <1>7, <1>9, <1>11, <2>1, <2>3
    <3>2. s[i - 1] < s[j - 1]
      BY <1>6, <1>8, <3>1 DEF Enumerates
    <3> QED BY <2>1, <2>3, <3>2
  <2> QED BY <2>2, <2>3
<1> HIDE DEF t
<1>12. Enumerates(t, K)
  BY <1>3, <1>10, <1>11 DEF Enumerates
<1> QED BY <1>3, <1>12

\* The sorted keys of a mapping are its keys.
LEMMA SortedKeysAre ==
    ASSUME NEW f, IsFiniteSet(DOMAIN f), DOMAIN f \in SUBSET Nat
    PROVE  /\ SortedKeys(f) \in [1..Cardinality(DOMAIN f) -> DOMAIN f]
           /\ Cardinality(DOMAIN f) \in Nat
           /\ \A k \in DOMAIN f : \E i \in 1..Cardinality(DOMAIN f) : SortedKeys(f)[i] = k
<1> DEFINE K == DOMAIN f
           n == Cardinality(K)
           s == SortedKeys(f)
<1>1. \E t : Enumerates(t, K)
  BY CanSort
<1>2. Enumerates(s, K)
  BY <1>1 DEF SortedKeys, Enumerates
<1>3. n \in Nat /\ IsFiniteSet(1..n) /\ Cardinality(1..n) = n
  BY FS_CardinalityType, FS_Interval
<1>4. s \in Injection(1..n, K)
  <2> SUFFICES ASSUME NEW i \in 1..n, NEW j \in 1..n, s[i] = s[j] PROVE i = j
    BY <1>2 DEF Enumerates, Injection, IsInjective
  <2>1. s[i] \in Nat /\ s[j] \in Nat
    BY <1>2 DEF Enumerates
  <2> QED BY <1>2, <1>3, <2>1 DEF Enumerates
<1>5. s \in Surjection(1..n, K)
  BY <1>3, <1>4, FS_Injection
<1> QED BY <1>2, <1>3, <1>5 DEF Enumerates, Surjection


\* The items of a mapping m, frozen.
ItemsOf(f, m) ==
    LET keys == SortedKeys(m)
    IN  [i \in DOMAIN keys |-> Pair(<<Atom(keys[i]), f[m[keys[i]]]>>)]

\* What Frozen is of, given what it is of everything inside.
FrozenOf(f, v) ==
    IF v.type = "unhashable" \/ \E x \in Inside(v) : f[x].type = "unhashable"
    THEN Unhashable
    ELSE CASE v.type = "dict" -> Pair(ItemsOf(f, v.value))
           [] v.type \in Sequence -> Pair([i \in DOMAIN v.value |-> f[v.value[i]]])
           [] v.type = "set" -> PySet({f[x] : x \in v.value})
           [] OTHER -> Atom(IF v.value = PyTrue THEN PyOne ELSE v.value)

\* The sorted keys of a mapping lead to all that is in it.
LEMMA KeysLeadInside ==
    ASSUME NEW v \in PyValues, v.type = "dict"
    PROVE  /\ DOMAIN SortedKeys(v.value) = 1..Cardinality(DOMAIN v.value)
           /\ Cardinality(DOMAIN v.value) \in Nat
           /\ \A i \in DOMAIN SortedKeys(v.value) :
                 /\ SortedKeys(v.value)[i] \in DOMAIN v.value
                 /\ SortedKeys(v.value)[i] \in PyStrings
                 /\ v.value[SortedKeys(v.value)[i]] \in Inside(v)
           /\ \A k \in DOMAIN v.value : \E i \in DOMAIN SortedKeys(v.value) : SortedKeys(v.value)[i] = k
<1>1. IsFiniteSet(DOMAIN v.value) /\ DOMAIN v.value \subseteq PyStrings
  BY OptionsAssumption DEF Atom, List, Pair, PySet, Dict, Unhashable
<1>2. DOMAIN v.value \in SUBSET Nat
  BY <1>1 DEF PyStrings
<1> QED BY <1>1, <1>2, SortedKeysAre DEF Inside

LEMMA FrozenLooksInside ==
    ASSUME NEW v \in PyValues, NEW f, NEW g, \A x \in Inside(v) : f[x] = g[x]
    PROVE  FrozenOf(f, v) = FrozenOf(g, v)
<1>1. CASE v.type = "dict"
  <2> DEFINE keys == SortedKeys(v.value)
  <2>1. \A i \in DOMAIN keys : f[v.value[keys[i]]] = g[v.value[keys[i]]]
    BY <1>1, KeysLeadInside
  <2>2. ItemsOf(f, v.value) = ItemsOf(g, v.value)
    BY <2>1 DEF ItemsOf
  <2>3. ASSUME NEW h
        PROVE  FrozenOf(h, v) = IF \E x \in Inside(v) : h[x].type = "unhashable"
                                THEN Unhashable ELSE Pair(ItemsOf(h, v.value))
    BY <1>1 DEF FrozenOf, Sequence
  <2> QED BY <2>2, <2>3
<1>2. CASE v.type \in Sequence
  <2>1. \A i \in DOMAIN v.value : v.value[i] \in Inside(v)
    BY <1>2 DEF Inside, Sequence
  <2> QED BY <1>2, <2>1 DEF FrozenOf, Sequence
<1>3. CASE v.type = "set"
  <2>1. Inside(v) = v.value
    BY <1>3 DEF Inside, Sequence
  <2>2. {f[x] : x \in v.value} = {g[x] : x \in v.value}
    BY <2>1
  <2> QED BY <1>3, <2>1, <2>2 DEF FrozenOf, Sequence
<1>4. CASE v.type \notin {"dict", "set"} \cup Sequence
  BY <1>4 DEF FrozenOf
<1> QED BY <1>1, <1>2, <1>3, <1>4

\* Frozen is of each value what it should be of what is inside.
LEMMA FrozenIs == \A v \in PyValues : Frozen[v] = FrozenOf(Frozen, v)
<1> DEFINE Upto(n) == {v \in PyValues : Depth[v] <= n}
           Freezes(f, n) == f = [v \in Upto(n) |-> FrozenOf(f, v)]
           Bad == {n \in Nat : ~\E f : Freezes(f, n)}
<1>1. Bad = {}
  <2> SUFFICES ASSUME Bad # {} PROVE FALSE
    OBVIOUS
  <2>1. PICK n \in Bad : \A m \in Bad : n <= m
    BY LeastOf
  <2>2. PICK g : n # 0 => Freezes(g, n - 1)
    <3>1. CASE n = 0
      BY <3>1
    <3>2. CASE n # 0
      <4>1. n - 1 \in Nat /\ n - 1 \notin Bad
        BY <2>1, <3>2
      <4> QED BY <4>1
    <3> QED BY <3>1, <3>2
  <2> DEFINE f == [v \in Upto(n) |-> FrozenOf(g, v)]
  <2>3. ASSUME NEW v \in Upto(n) PROVE FrozenOf(f, v) = FrozenOf(g, v)
    <3>1. ASSUME NEW x \in Inside(v) PROVE f[x] = g[x]
      <4>1. x \in PyValues /\ Depth[x] \in Nat /\ Depth[v] \in Nat /\ Depth[x] < Depth[v]
        BY <3>1, OptionsAssumption
      <4>2. n # 0 /\ x \in Upto(n - 1) /\ x \in Upto(n)
        BY <2>1, <4>1
      <4>3. g[x] = FrozenOf(g, x)
        BY <2>2, <4>2
      <4> QED BY <4>2, <4>3
    <3> HIDE DEF f
    <3> QED BY <3>1, FrozenLooksInside
  <2>4. Freezes(f, n)
    BY <2>3
  <2> QED BY <2>1, <2>4
<1>2. PICK n \in Nat : \A v \in PyValues : Depth[v] <= n
  BY OptionsAssumption
<1>3. PICK f : Freezes(f, n)
  BY <1>1
<1>4. f = [v \in PyValues |-> FrozenOf(f, v)]
  <2>1. Upto(n) = PyValues
    BY <1>2
  <2> QED BY <1>3, <2>1
<1>5. Frozen = [v \in PyValues |-> FrozenOf(Frozen, v)]
  BY <1>4 DEF Frozen, FrozenOf, ItemsOf
<1> QED BY <1>5

\* What AlikeAs is of two values, given what it is of what is inside them.
EachAlike(f, a, b) ==
    /\ DOMAIN a.value = DOMAIN b.value
    /\ \A i \in DOMAIN a.value : f[<<a.value[i], b.value[i]>>]

ListsItems(f, s, d) ==
    LET keys == SortedKeys(d.value) IN
    /\ s.type \in Sequence /\ d.type = "dict" /\ DOMAIN s.value = DOMAIN keys
    /\ \A i \in DOMAIN keys :
          LET item == s.value[i] IN
          /\ item.type \in Sequence /\ Len(item.value) = 2
          /\ item.value[1] = Atom(keys[i])
          /\ f[<<item.value[2], d.value[keys[i]]>>]

SameSet(f, a, b) ==
    /\ a.type = "set" /\ b.type = "set"
    /\ \A x \in a.value : \E y \in b.value : f[<<x, y>>]
    /\ \A y \in b.value : \E x \in a.value : f[<<x, y>>]

AlikeOf(f, c) ==
    LET a == c[1]
        b == c[2]
    IN  \/ a.type = "dict" /\ b.type = "dict" /\ EachAlike(f, a, b)
        \/ a.type \in Sequence /\ b.type \in Sequence /\ EachAlike(f, a, b)
        \/ ListsItems(f, a, b) \/ ListsItems(f, b, a)
        \/ SameSet(f, a, b)
        \/ a.type = "atom" /\ b.type = "atom" /\ PyEqual(a.value, b.value)

Height(c) == Depth[c[1]] + Depth[c[2]]
PyPairs == PyValues \X PyValues

\* What is inside is nested less deeply.
LEMMA InsideIsLower ==
    ASSUME NEW v \in PyValues
    PROVE  /\ Depth[v] \in Nat
           /\ \A x \in Inside(v) : x \in PyValues /\ Depth[x] \in Nat /\ Depth[x] < Depth[v]
           /\ v.type = "dict" \/ v.type \in Sequence =>
                 \A i \in DOMAIN v.value : v.value[i] \in Inside(v)
           /\ v.type \in Sequence => v.value \in Seq(PyValues)
           /\ v.type = "set" => Inside(v) = v.value
BY OptionsAssumption DEF Inside, Sequence, Atom, List, Pair, PySet, Dict, Unhashable

LEMMA AlikeLooksInside ==
    ASSUME NEW c \in PyPairs, NEW f, NEW g,
           \A d \in PyPairs : Height(d) < Height(c) => f[d] = g[d]
    PROVE  AlikeOf(f, c) <=> AlikeOf(g, c)
<1> DEFINE a == c[1]
           b == c[2]
<1>1. a \in PyValues /\ b \in PyValues /\ c = <<a, b>>
  BY DEF PyPairs
<1> HIDE DEF a, b
<1>2. ASSUME NEW x \in PyValues, NEW y \in PyValues,
             Depth[x] + Depth[y] < Depth[a] + Depth[b]
      PROVE  f[<<x, y>>] = g[<<x, y>>]
  BY <1>1, <1>2 DEF PyPairs, Height
<1>3. ASSUME NEW x \in Inside(a), NEW y \in Inside(b)
      PROVE  f[<<x, y>>] = g[<<x, y>>]
  <2>1. /\ x \in PyValues /\ y \in PyValues
        /\ Depth[x] \in Nat /\ Depth[a] \in Nat /\ Depth[x] < Depth[a]
        /\ Depth[y] \in Nat /\ Depth[b] \in Nat /\ Depth[y] < Depth[b]
    BY <1>1, InsideIsLower
  <2>2. Depth[x] + Depth[y] < Depth[a] + Depth[b]
    BY <2>1
  <2> QED BY <1>2, <2>1, <2>2
<1>4. ASSUME a.type \in {"dict"} \cup Sequence, b.type \in {"dict"} \cup Sequence
      PROVE  EachAlike(f, a, b) <=> EachAlike(g, a, b)
  <2>1. /\ \A i \in DOMAIN a.value : a.value[i] \in Inside(a)
        /\ \A i \in DOMAIN b.value : b.value[i] \in Inside(b)
    BY <1>1, <1>4, InsideIsLower
  <2>2. ASSUME DOMAIN a.value = DOMAIN b.value, NEW i \in DOMAIN a.value
        PROVE  f[<<a.value[i], b.value[i]>>] = g[<<a.value[i], b.value[i]>>]
    BY <1>3, <2>1, <2>2
  <2> QED BY <2>2 DEF EachAlike
<1>5. SameSet(f, a, b) <=> SameSet(g, a, b)
  <2> SUFFICES ASSUME a.type = "set", b.type = "set"
               PROVE  SameSet(f, a, b) <=> SameSet(g, a, b)
    BY DEF SameSet
  <2>1. a.value = Inside(a) /\ b.value = Inside(b)
    BY DEF Inside, Sequence
  <2>2. \A x \in a.value, y \in b.value : f[<<x, y>>] = g[<<x, y>>]
    BY <1>3, <2>1
  <2> QED BY <2>2 DEF SameSet
<1>6. ASSUME NEW s \in PyValues, NEW d \in PyValues, {s, d} = {a, b}
      PROVE  ListsItems(f, s, d) <=> ListsItems(g, s, d)
  <2> SUFFICES ASSUME s.type \in Sequence, d.type = "dict",
                      DOMAIN s.value = DOMAIN SortedKeys(d.value),
                      NEW i \in DOMAIN s.value,
                      s.value[i].type \in Sequence, Len(s.value[i].value) = 2
               PROVE  f[<<s.value[i].value[2], d.value[SortedKeys(d.value)[i]]>>]
                    = g[<<s.value[i].value[2], d.value[SortedKeys(d.value)[i]]>>]
    BY DEF ListsItems
  <2> DEFINE item == s.value[i]
             x == item.value[2]
             y == d.value[SortedKeys(d.value)[i]]
  <2>1. item \in PyValues /\ Depth[item] < Depth[s] /\ Depth[item] \in Nat /\ Depth[s] \in Nat
    BY InsideIsLower
  <2>2. 2 \in DOMAIN item.value
    BY <2>1, InsideIsLower
  <2>3. x \in PyValues /\ Depth[x] \in Nat /\ Depth[x] < Depth[item]
    BY <2>1, <2>2, InsideIsLower
  <2>4. y \in PyValues /\ Depth[y] \in Nat /\ Depth[y] < Depth[d] /\ Depth[d] \in Nat
    BY KeysLeadInside, InsideIsLower
  <2>5. Depth[s] + Depth[d] = Depth[a] + Depth[b]
    <3>1. (s = a /\ d = b) \/ (s = b /\ d = a) \/ (s = d /\ a = b /\ s = a)
      BY <1>6
    <3>2. Depth[a] \in Nat /\ Depth[b] \in Nat
      BY <1>1, InsideIsLower
    <3> QED BY <3>1, <3>2
  <2> HIDE DEF x, y, item
  <2>6. Depth[x] + Depth[y] < Depth[a] + Depth[b]
    BY <2>1, <2>3, <2>4, <2>5
  <2>7. f[<<x, y>>] = g[<<x, y>>]
    BY <1>2, <2>3, <2>4, <2>6
  <2> QED BY <2>7 DEF x, y, item
<1> QED BY <1>1, <1>4, <1>5, <1>6 DEF AlikeOf, a, b

\* AlikeAs is of each pair what it should be of the pairs inside.
LEMMA AlikeIs == \A c \in PyPairs : AlikeAs[c] = AlikeOf(AlikeAs, c)
<1> DEFINE Upto(n) == {c \in PyPairs : Height(c) <= n}
           Compares(f, n) == f = [c \in Upto(n) |-> AlikeOf(f, c)]
           Bad == {n \in Nat : ~\E f : Compares(f, n)}
<1>0. \A c \in PyPairs : Height(c) \in Nat
  BY InsideIsLower DEF Height, PyPairs
<1>1. Bad = {}
  <2> SUFFICES ASSUME Bad # {} PROVE FALSE
    OBVIOUS
  <2>1. PICK n \in Bad : \A m \in Bad : n <= m
    BY LeastOf
  <2>2. PICK g : n # 0 => Compares(g, n - 1)
    <3>1. CASE n = 0
      BY <3>1
    <3>2. CASE n # 0
      <4>1. n \in Nat
        BY <2>1
      <4>2. n - 1 \in Nat /\ ~(n <= n - 1)
        BY <3>2, <4>1
      <4>3. n - 1 \notin Bad
        <5> HIDE DEF Bad
        <5> QED BY <2>1, <4>2
      <4> QED BY <4>2, <4>3
    <3> QED BY <3>1, <3>2
  <2> DEFINE f == [c \in Upto(n) |-> AlikeOf(g, c)]
  <2>3. ASSUME NEW c \in Upto(n) PROVE AlikeOf(f, c) = AlikeOf(g, c)
    <3>1. ASSUME NEW d \in PyPairs, Height(d) < Height(c) PROVE f[d] = g[d]
      <4>1. n # 0 /\ d \in Upto(n - 1) /\ d \in Upto(n)
        BY <1>0, <2>1, <3>1
      <4>2. g[d] = AlikeOf(g, d)
        BY <2>2, <4>1
      <4> QED BY <4>1, <4>2
    <3> HIDE DEF f
    <3>2. AlikeOf(f, c) <=> AlikeOf(g, c)
      BY <3>1, AlikeLooksInside
    <3>3. AlikeOf(f, c) \in BOOLEAN /\ AlikeOf(g, c) \in BOOLEAN
      BY DEF AlikeOf
    <3> QED BY <3>2, <3>3
  <2>4. Compares(f, n)
    BY <2>3
  <2> QED BY <2>1, <2>4
<1>2. PICK n \in Nat : \A v \in PyValues : Depth[v] <= n
  BY OptionsAssumption
<1>3. PICK f : Compares(f, n + n)
  <2>1. n + n \in Nat
    OBVIOUS
  <2>2. n + n \notin Bad
    <3> HIDE DEF Bad
    <3> QED BY <1>1
  <2> QED BY <2>1, <2>2
<1>4. f = [c \in PyPairs |-> AlikeOf(f, c)]
  <2>1. Upto(n + n) = PyPairs
    <3> SUFFICES ASSUME NEW c \in PyPairs PROVE Height(c) <= n + n
      OBVIOUS
    <3>1. Depth[c[1]] \in Nat /\ Depth[c[2]] \in Nat /\ Depth[c[1]] <= n /\ Depth[c[2]] <= n
      BY <1>2, InsideIsLower DEF PyPairs
    <3> QED BY <3>1 DEF Height
  <2> QED BY <1>3, <2>1
<1>5. AlikeAs = [c \in PyPairs |-> AlikeOf(AlikeAs, c)]
  BY <1>4 DEF AlikeAs, AlikeOf, EachAlike, ListsItems, SameSet, PyPairs
<1> QED BY <1>5

\* What freezes is a mapping, a sequence, a set or an atom, and so does all in it.
LEMMA FrozenForms ==
    ASSUME NEW v \in PyValues, CanFreeze(v)
    PROVE  /\ \A x \in Inside(v) : CanFreeze(x)
           /\ v.type = "dict" => Frozen[v] = Pair(ItemsOf(Frozen, v.value))
           /\ v.type \in Sequence =>
                 Frozen[v] = Pair([i \in DOMAIN v.value |-> Frozen[v.value[i]]])
           /\ v.type = "set" => Frozen[v] = PySet({Frozen[x] : x \in v.value})
           /\ v.type = "atom" => /\ v = Atom(v.value) /\ v.value \in Nat
                                 /\ Frozen[v] = Atom(IF v.value = PyTrue THEN PyOne ELSE v.value)
           /\ v.type \in {"dict", "set", "atom"} \cup Sequence
<1>1. Frozen[v] = FrozenOf(Frozen, v)
  BY FrozenIs
<1>2. Unhashable.type = "unhashable"
  BY DEF Unhashable
<1>3. ~(v.type = "unhashable" \/ \E x \in Inside(v) : Frozen[x].type = "unhashable")
  BY <1>1, <1>2 DEF CanFreeze, FrozenOf
<1>4. v.type \in {"dict", "set", "atom"} \cup Sequence
  BY <1>3, OptionsAssumption DEF Atom, List, Pair, PySet, Dict, Unhashable, Sequence
<1>5. v.type = "atom" => v = Atom(v.value) /\ v.value \in Nat
  BY OptionsAssumption DEF Atom, List, Pair, PySet, Dict, Unhashable
<1>6. CASE v.type = "dict"
  BY <1>1, <1>3, <1>4, <1>6 DEF FrozenOf, Sequence, CanFreeze
<1>7. CASE v.type \in Sequence
  BY <1>1, <1>3, <1>4, <1>7 DEF FrozenOf, Sequence, CanFreeze
<1>8. CASE v.type = "set"
  BY <1>1, <1>3, <1>4, <1>8 DEF FrozenOf, Sequence, CanFreeze
<1>9. CASE v.type = "atom"
  BY <1>1, <1>3, <1>4, <1>5, <1>9 DEF FrozenOf, Sequence, CanFreeze
<1> QED BY <1>4, <1>6, <1>7, <1>8, <1>9

\* A frozen mapping, key by key.
LEMMA FrozenItems ==
    ASSUME NEW v \in PyValues, v.type = "dict"
    PROVE  /\ DOMAIN ItemsOf(Frozen, v.value) = DOMAIN SortedKeys(v.value)
           /\ \A i \in DOMAIN SortedKeys(v.value) :
                 ItemsOf(Frozen, v.value)[i]
                 = Pair(<<Atom(SortedKeys(v.value)[i]),
                          Frozen[v.value[SortedKeys(v.value)[i]]]>>)
BY DEF ItemsOf

LEMMA PairsApart ==
    ASSUME NEW s, NEW t
    PROVE  /\ Pair(s) = Pair(t) => s = t
           /\ PySet(s) = PySet(t) => s = t
           /\ Atom(s) = Atom(t) => s = t
           /\ Pair(s) # PySet(t) /\ Pair(s) # Atom(t) /\ PySet(s) # Atom(t)
BY DEF Pair, PySet, Atom

\* What freezes to a key and something is a sequence of that key and one value.
LEMMA OnlyPairsFreezeToPairs ==
    ASSUME NEW item \in PyValues, CanFreeze(item),
           NEW k \in PyStrings, NEW z, Frozen[item] = Pair(<<Atom(k), z>>)
    PROVE  /\ item.type \in Sequence /\ Len(item.value) = 2
           /\ item.value[1] = Atom(k)
           /\ item.value[2] \in Inside(item) /\ Frozen[item.value[2]] = z
<1>1. item.type \in {"dict"} \cup Sequence
  <2>1. item.type # "set"
    <3>1. item.type = "set" => Frozen[item] = PySet({Frozen[x] : x \in item.value})
      BY FrozenForms
    <3> QED BY <3>1, PairsApart
  <2>2. item.type # "atom"
    <3>1. item.type = "atom" =>
              Frozen[item] = Atom(IF item.value = PyTrue THEN PyOne ELSE item.value)
      BY FrozenForms
    <3> QED BY <3>1, PairsApart
  <2>3. item.type \in {"dict", "set", "atom"} \cup Sequence
    BY FrozenForms
  <2> QED BY <2>1, <2>2, <2>3
<1>2. item.type # "dict"
  <2> SUFFICES ASSUME item.type = "dict" PROVE FALSE
    OBVIOUS
  <2>1. Frozen[item] = Pair(ItemsOf(Frozen, item.value))
    BY FrozenForms
  <2>2. ItemsOf(Frozen, item.value) = <<Atom(k), z>>
    BY <2>1, PairsApart
  <2>3. 1 \in DOMAIN SortedKeys(item.value)
    BY <2>2, FrozenItems
  <2>4. \E s : ItemsOf(Frozen, item.value)[1] = Pair(s)
    BY <2>3, FrozenItems
  <2>5. ItemsOf(Frozen, item.value)[1] = Atom(k)
    BY <2>2
  <2> QED BY <2>4, <2>5, PairsApart
<1> DEFINE f == [i \in DOMAIN item.value |-> Frozen[item.value[i]]]
<1>3. f = <<Atom(k), z>>
  <2>1. Frozen[item] = Pair(f)
    BY <1>1, <1>2, FrozenForms
  <2> HIDE DEF f
  <2> QED BY <2>1, PairsApart
<1>4. item.value \in Seq(PyValues)
  BY <1>1, <1>2, InsideIsLower
<1>5. DOMAIN item.value = 1..2
  BY <1>3
<1>6. Len(item.value) = 2
  BY <1>4, <1>5
<1>7. Frozen[item.value[1]] = Atom(k) /\ Frozen[item.value[2]] = z
  BY <1>3, <1>5
<1>8. item.value[1] \in Inside(item) /\ item.value[2] \in Inside(item)
  BY <1>1, <1>2, <1>5, InsideIsLower
<1>9. item.value[1] = Atom(k)
  <2> DEFINE x == item.value[1]
  <2>1. x \in PyValues /\ CanFreeze(x)
    BY <1>8, InsideIsLower, FrozenForms
  <2>2. Frozen[x] = Atom(k)
    BY <1>7
  <2> HIDE DEF x
  <2>3. x.type = "atom"
    <3>1. x.type \in {"dict"} \cup Sequence => \E s : Frozen[x] = Pair(s)
      BY <2>1, FrozenForms
    <3>2. x.type = "set" => \E s : Frozen[x] = PySet(s)
      BY <2>1, FrozenForms
    <3>3. x.type \in {"dict", "set", "atom"} \cup Sequence
      BY <2>1, FrozenForms
    <3> QED BY <2>2, <3>1, <3>2, <3>3, PairsApart
  <2>4. /\ x = Atom(x.value)
        /\ Frozen[x] = Atom(IF x.value = PyTrue THEN PyOne ELSE x.value)
    BY <2>1, <2>3, FrozenForms
  <2>5. k = IF x.value = PyTrue THEN PyOne ELSE x.value
    BY <2>2, <2>4, PairsApart
  <2>6. x.value = k
    BY <2>5 DEF PyStrings
  <2>7. x = Atom(k)
    BY <2>4, <2>6
  <2> QED BY <2>7 DEF x
<1> QED BY <1>1, <1>2, <1>6, <1>7, <1>8, <1>9

\* What freezes is of one kind with what it freezes like, but for a mapping.
LEMMA FrozenKinds ==
    ASSUME NEW v \in PyValues, NEW w \in PyValues, CanFreeze(v), Frozen[v] = Frozen[w]
    PROVE  /\ CanFreeze(w)
           /\ \/ v.type \in {"dict"} \cup Sequence /\ w.type \in {"dict"} \cup Sequence
              \/ v.type = "set" /\ w.type = "set"
              \/ v.type = "atom" /\ w.type = "atom"
<1>1. CanFreeze(w)
  BY DEF CanFreeze
<1>2. ASSUME NEW x \in PyValues, CanFreeze(x)
      PROVE  /\ x.type \in {"dict"} \cup Sequence => \E s : Frozen[x] = Pair(s)
             /\ x.type = "set" => \E s : Frozen[x] = PySet(s)
             /\ x.type = "atom" => \E s : Frozen[x] = Atom(s)
             /\ x.type \in {"dict", "set", "atom"} \cup Sequence
  <2>1. x.type = "dict" => Frozen[x] = Pair(ItemsOf(Frozen, x.value))
    BY <1>2, FrozenForms
  <2>2. x.type \in Sequence => \E s : Frozen[x] = Pair(s)
    BY <1>2, FrozenForms
  <2>3. x.type = "set" => \E s : Frozen[x] = PySet(s)
    BY <1>2, FrozenForms
  <2>4. x.type = "atom" => \E s : Frozen[x] = Atom(s)
    BY <1>2, FrozenForms
  <2>5. x.type \in {"dict", "set", "atom"} \cup Sequence
    BY <1>2, FrozenForms
  <2> QED BY <2>1, <2>2, <2>3, <2>4, <2>5
<1> QED BY <1>1, <1>2, PairsApart

\* A mapping frozen as a sequence is: the sequence is of its items.
LEMMA FrozenAsItems ==
    ASSUME NEW s \in PyValues, NEW d \in PyValues,
           s.type \in Sequence, d.type = "dict", CanFreeze(s), Frozen[s] = Frozen[d]
    PROVE  LET keys == SortedKeys(d.value)
           IN  /\ DOMAIN s.value = DOMAIN keys
               /\ \A i \in DOMAIN keys :
                     LET item == s.value[i] IN
                     /\ item \in Inside(s) /\ d.value[keys[i]] \in Inside(d)
                     /\ item.type \in Sequence /\ Len(item.value) = 2
                     /\ item.value[1] = Atom(keys[i])
                     /\ item.value[2] \in Inside(item)
                     /\ Frozen[item.value[2]] = Frozen[d.value[keys[i]]]
<1> DEFINE keys == SortedKeys(d.value)
           f == [i \in DOMAIN s.value |-> Frozen[s.value[i]]]
<1>1. CanFreeze(d)
  BY DEF CanFreeze
<1>2. f = ItemsOf(Frozen, d.value)
  <2>1. Frozen[s] = Pair(f)
    BY FrozenForms
  <2>2. Frozen[d] = Pair(ItemsOf(Frozen, d.value))
    BY <1>1, FrozenForms
  <2> HIDE DEF f
  <2> QED BY <2>1, <2>2, PairsApart
<1>3. DOMAIN s.value = DOMAIN keys
  BY <1>2, FrozenItems
<1>4. ASSUME NEW i \in DOMAIN keys
      PROVE  LET item == s.value[i] IN
             /\ item \in Inside(s) /\ d.value[keys[i]] \in Inside(d)
             /\ item.type \in Sequence /\ Len(item.value) = 2
             /\ item.value[1] = Atom(keys[i])
             /\ item.value[2] \in Inside(item)
             /\ Frozen[item.value[2]] = Frozen[d.value[keys[i]]]
  <2> DEFINE item == s.value[i]
  <2>1. Frozen[item] = ItemsOf(Frozen, d.value)[i]
    BY <1>2, <1>3
  <2>2. Frozen[item] = Pair(<<Atom(keys[i]), Frozen[d.value[keys[i]]]>>)
    BY <2>1, FrozenItems
  <2>3. item \in Inside(s)
    BY <1>3, InsideIsLower
  <2>4. item \in PyValues /\ CanFreeze(item)
    BY <2>3, InsideIsLower, FrozenForms
  <2>5. keys[i] \in PyStrings /\ d.value[keys[i]] \in Inside(d)
    BY KeysLeadInside
  <2> HIDE DEF item, keys
  <2>6. /\ item.type \in Sequence /\ Len(item.value) = 2
        /\ item.value[1] = Atom(keys[i])
        /\ item.value[2] \in Inside(item)
        /\ Frozen[item.value[2]] = Frozen[d.value[keys[i]]]
    BY <2>2, <2>4, <2>5, OnlyPairsFreezeToPairs
  <2> QED BY <2>3, <2>5, <2>6 DEF item
<1> QED BY <1>3, <1>4

\* Two mappings frozen alike have the same keys, and under each what freezes alike.
LEMMA FrozenAsKeys ==
    ASSUME NEW v \in PyValues, NEW w \in PyValues,
           v.type = "dict", w.type = "dict", CanFreeze(v), Frozen[v] = Frozen[w]
    PROVE  /\ DOMAIN v.value = DOMAIN w.value
           /\ \A k \in DOMAIN v.value : Frozen[v.value[k]] = Frozen[w.value[k]]
<1> DEFINE kv == SortedKeys(v.value)
           kw == SortedKeys(w.value)
<1>1. CanFreeze(w)
  BY DEF CanFreeze
<1>2. ItemsOf(Frozen, v.value) = ItemsOf(Frozen, w.value)
  <2>1. Frozen[v] = Pair(ItemsOf(Frozen, v.value)) /\ Frozen[w] = Pair(ItemsOf(Frozen, w.value))
    BY <1>1, FrozenForms
  <2> QED BY <2>1, PairsApart
<1>3. DOMAIN kv = DOMAIN kw
  BY <1>2, FrozenItems
<1>4. ASSUME NEW i \in DOMAIN kv
      PROVE  kv[i] = kw[i] /\ Frozen[v.value[kv[i]]] = Frozen[w.value[kw[i]]]
  <2>1. Pair(<<Atom(kv[i]), Frozen[v.value[kv[i]]]>>)
        = Pair(<<Atom(kw[i]), Frozen[w.value[kw[i]]]>>)
    BY <1>2, <1>3, FrozenItems
  <2>2. <<Atom(kv[i]), Frozen[v.value[kv[i]]]>> = <<Atom(kw[i]), Frozen[w.value[kw[i]]]>>
    BY <2>1, PairsApart
  <2>3. Atom(kv[i]) = Atom(kw[i]) /\ Frozen[v.value[kv[i]]] = Frozen[w.value[kw[i]]]
    BY <2>2
  <2> QED BY <2>3, PairsApart
<1>5. /\ \A i \in DOMAIN kv : kv[i] \in DOMAIN v.value
      /\ \A k \in DOMAIN v.value : \E i \in DOMAIN kv : kv[i] = k
      /\ \A i \in DOMAIN kw : kw[i] \in DOMAIN w.value
      /\ \A k \in DOMAIN w.value : \E i \in DOMAIN kw : kw[i] = k
  BY KeysLeadInside
<1> HIDE DEF kv, kw
<1>6. ASSUME NEW k \in DOMAIN v.value
      PROVE  k \in DOMAIN w.value /\ Frozen[v.value[k]] = Frozen[w.value[k]]
  <2>1. PICK i \in DOMAIN kv : kv[i] = k
    BY <1>5
  <2>2. kw[i] = k /\ kw[i] \in DOMAIN w.value
    BY <1>3, <1>4, <1>5, <2>1
  <2> QED BY <1>4, <2>1, <2>2
<1>7. ASSUME NEW k \in DOMAIN w.value
      PROVE  k \in DOMAIN v.value
  <2>1. PICK i \in DOMAIN kw : kw[i] = k
    BY <1>5
  <2>2. i \in DOMAIN kv /\ kv[i] = k
    BY <1>3, <1>4, <2>1
  <2> QED BY <1>5, <2>2
<1> QED BY <1>6, <1>7

\* What a counterexample of least height would have to be.
LEMMA FrozenAlikeStep ==
    ASSUME NEW v \in PyValues, NEW w \in PyValues, CanFreeze(v), Frozen[v] = Frozen[w],
           \A x, y \in PyValues :
               /\ Depth[x] + Depth[y] < Depth[v] + Depth[w]
               /\ CanFreeze(x) /\ Frozen[x] = Frozen[y]
               => AlikeAs[<<x, y>>]
    PROVE  AlikeOf(AlikeAs, <<v, w>>)
<1>1. CanFreeze(w)
  BY DEF CanFreeze
<1>2. ASSUME NEW x \in Inside(v), NEW y \in Inside(w), Frozen[x] = Frozen[y]
      PROVE  AlikeAs[<<x, y>>]
  <2>1. /\ x \in PyValues /\ y \in PyValues
        /\ Depth[x] \in Nat /\ Depth[v] \in Nat /\ Depth[x] < Depth[v]
        /\ Depth[y] \in Nat /\ Depth[w] \in Nat /\ Depth[y] < Depth[w]
    BY InsideIsLower
  <2>2. Depth[x] + Depth[y] < Depth[v] + Depth[w]
    BY <2>1
  <2>3. CanFreeze(x)
    BY FrozenForms
  <2> QED BY <1>2, <2>1, <2>2, <2>3
<1>3. ASSUME NEW s \in PyValues, NEW d \in PyValues, s.type \in Sequence, d.type = "dict",
             CanFreeze(s), Frozen[s] = Frozen[d], Depth[s] + Depth[d] = Depth[v] + Depth[w]
      PROVE  ListsItems(AlikeAs, s, d)
  <2> DEFINE keys == SortedKeys(d.value)
  <2>1. /\ DOMAIN s.value = DOMAIN keys
        /\ \A i \in DOMAIN keys :
              /\ s.value[i] \in Inside(s) /\ d.value[keys[i]] \in Inside(d)
              /\ s.value[i].type \in Sequence /\ Len(s.value[i].value) = 2
              /\ s.value[i].value[1] = Atom(keys[i])
              /\ s.value[i].value[2] \in Inside(s.value[i])
              /\ Frozen[s.value[i].value[2]] = Frozen[d.value[keys[i]]]
    BY <1>3, FrozenAsItems
  <2>2. ASSUME NEW i \in DOMAIN keys
        PROVE  AlikeAs[<<s.value[i].value[2], d.value[keys[i]]>>]
    <3> DEFINE item == s.value[i]
               x == item.value[2]
               y == d.value[keys[i]]
    <3>1. /\ item \in Inside(s) /\ x \in Inside(item) /\ y \in Inside(d)
          /\ Frozen[x] = Frozen[y]
      BY <2>1
    <3> HIDE DEF item, x, y, keys
    <3>2. /\ item \in PyValues /\ Depth[item] \in Nat /\ Depth[item] < Depth[s]
          /\ y \in PyValues /\ Depth[y] \in Nat /\ Depth[y] < Depth[d]
          /\ Depth[s] \in Nat /\ Depth[d] \in Nat
      BY <3>1, InsideIsLower
    <3>3. x \in PyValues /\ Depth[x] \in Nat /\ Depth[x] < Depth[item]
      BY <3>1, <3>2, InsideIsLower
    <3>4. Depth[x] + Depth[y] < Depth[v] + Depth[w]
      BY <1>3, <3>2, <3>3
    <3>5. CanFreeze(item)
      BY <1>3, <3>1, FrozenForms
    <3>6. CanFreeze(x)
      BY <3>1, <3>2, <3>5, FrozenForms
    <3>7. AlikeAs[<<x, y>>]
      BY <3>1, <3>2, <3>3, <3>4, <3>6
    <3> QED BY <3>7 DEF item, x, y
  <2> QED BY <1>3, <2>1, <2>2 DEF ListsItems
<1>4. CASE v.type = "dict" /\ w.type = "dict"
  <2>1. /\ DOMAIN v.value = DOMAIN w.value
        /\ \A k \in DOMAIN v.value : Frozen[v.value[k]] = Frozen[w.value[k]]
    BY <1>4, FrozenAsKeys
  <2>2. \A k \in DOMAIN v.value : v.value[k] \in Inside(v) /\ w.value[k] \in Inside(w)
    BY <1>4, <2>1, InsideIsLower
  <2>3. EachAlike(AlikeAs, v, w)
    BY <1>2, <2>1, <2>2 DEF EachAlike
  <2> QED BY <1>4, <2>3 DEF AlikeOf
<1>5. CASE v.type \in Sequence /\ w.type \in Sequence
  <2> DEFINE f == [i \in DOMAIN v.value |-> Frozen[v.value[i]]]
             g == [i \in DOMAIN w.value |-> Frozen[w.value[i]]]
  <2>1. Frozen[v] = Pair(f) /\ Frozen[w] = Pair(g)
    BY <1>1, <1>5, FrozenForms
  <2>2. f = g
    <3> HIDE DEF f, g
    <3> QED BY <2>1, PairsApart
  <2>3. DOMAIN v.value = DOMAIN w.value
    BY <2>2
  <2>4. \A i \in DOMAIN v.value : Frozen[v.value[i]] = Frozen[w.value[i]]
    <3> SUFFICES ASSUME NEW i \in DOMAIN v.value PROVE f[i] = g[i]
      BY <2>3
    <3> HIDE DEF f, g
    <3> QED BY <2>2
  <2>5. \A i \in DOMAIN v.value : v.value[i] \in Inside(v) /\ w.value[i] \in Inside(w)
    BY <1>5, <2>3, InsideIsLower
  <2>6. EachAlike(AlikeAs, v, w)
    BY <1>2, <2>3, <2>4, <2>5 DEF EachAlike
  <2> QED BY <1>5, <2>6 DEF AlikeOf
<1>6. CASE v.type = "set" /\ w.type = "set"
  <2> DEFINE S == {Frozen[x] : x \in v.value}
             T == {Frozen[y] : y \in w.value}
  <2>1. Frozen[v] = PySet(S) /\ Frozen[w] = PySet(T)
    BY <1>1, <1>6, FrozenForms
  <2>2. S = T
    <3> HIDE DEF S, T
    <3> QED BY <2>1, PairsApart
  <2>3. /\ \A x \in v.value : \E y \in w.value : Frozen[x] = Frozen[y]
        /\ \A y \in w.value : \E x \in v.value : Frozen[x] = Frozen[y]
    BY <2>2
  <2>4. v.value = Inside(v) /\ w.value = Inside(w)
    BY <1>6, InsideIsLower
  <2> HIDE DEF S, T
  <2>5. SameSet(AlikeAs, v, w)
    BY <1>2, <1>6, <2>3, <2>4 DEF SameSet
  <2> QED BY <2>5 DEF AlikeOf
<1>7. CASE v.type = "atom" /\ w.type = "atom"
  <2>1. /\ Frozen[v] = Atom(IF v.value = PyTrue THEN PyOne ELSE v.value)
        /\ Frozen[w] = Atom(IF w.value = PyTrue THEN PyOne ELSE w.value)
    BY <1>1, <1>7, FrozenForms
  <2>2. (IF v.value = PyTrue THEN PyOne ELSE v.value)
        = (IF w.value = PyTrue THEN PyOne ELSE w.value)
    BY <2>1, PairsApart
  <2>3. PyEqual(v.value, w.value)
    BY <2>2 DEF PyEqual
  <2> QED BY <1>7, <2>3 DEF AlikeOf
<1>8. CASE v.type \in Sequence /\ w.type = "dict"
  <2>1. ListsItems(AlikeAs, v, w)
    BY <1>3, <1>8
  <2> QED BY <2>1 DEF AlikeOf
<1>9. CASE v.type = "dict" /\ w.type \in Sequence
  <2>1. Depth[w] + Depth[v] = Depth[v] + Depth[w]
    BY InsideIsLower
  <2>2. ListsItems(AlikeAs, w, v)
    BY <1>1, <1>3, <1>9, <2>1
  <2> QED BY <2>2 DEF AlikeOf
<1> QED BY <1>4, <1>5, <1>6, <1>7, <1>8, <1>9, FrozenKinds

\* freeze_options gives two values one form only if they are alike: a mapping and
\* the sequence of its items, a list and a tuple, 1 and True, at any depth.
THEOREM OnlyAlikeFreezeAlike ==
    \A v, w \in PyValues :
        CanFreeze(v) /\ FreezeOptions(v) = FreezeOptions(w) => AlikeAs[<<v, w>>]
<1> DEFINE Apart(c) == /\ CanFreeze(c[1]) /\ Frozen[c[1]] = Frozen[c[2]]
                       /\ ~AlikeAs[c]
           Heights == {n \in Nat : \E c \in PyPairs : Apart(c) /\ Height(c) = n}
<1>1. \A c \in PyPairs : Height(c) \in Nat
  BY InsideIsLower DEF Height, PyPairs
<1>2. Heights = {}
  <2> SUFFICES ASSUME Heights # {} PROVE FALSE
    OBVIOUS
  <2>1. PICK n \in Heights : \A m \in Heights : n <= m
    BY LeastOf
  <2>2. PICK c \in PyPairs : Apart(c) /\ Height(c) = n
    BY <2>1
  <2>3. PICK v \in PyValues, w \in PyValues : c = <<v, w>>
    BY DEF PyPairs
  <2>4. ASSUME NEW x \in PyValues, NEW y \in PyValues,
               Depth[x] + Depth[y] < Depth[v] + Depth[w],
               CanFreeze(x), Frozen[x] = Frozen[y], ~AlikeAs[<<x, y>>]
        PROVE  FALSE
    <3>1. <<x, y>> \in PyPairs /\ Apart(<<x, y>>) /\ Height(<<x, y>>) < n
      BY <2>2, <2>3, <2>4 DEF PyPairs, Height
    <3>2. Height(<<x, y>>) \in Heights
      BY <1>1, <3>1
    <3>3. Height(<<x, y>>) \in Nat /\ n \in Nat /\ n <= Height(<<x, y>>)
      BY <2>1, <3>2
    <3> QED BY <3>1, <3>3
  <2>5. AlikeOf(AlikeAs, <<v, w>>)
    BY <2>2, <2>3, <2>4, FrozenAlikeStep
  <2> QED BY <2>2, <2>3, <2>5, AlikeIs
<1> SUFFICES ASSUME NEW v \in PyValues, NEW w \in PyValues,
                    CanFreeze(v), Frozen[v] = Frozen[w], ~AlikeAs[<<v, w>>]
             PROVE  FALSE
  BY DEF FreezeOptions
<1>3. <<v, w>> \in PyPairs /\ Apart(<<v, w>>)
  BY DEF PyPairs
<1>4. Height(<<v, w>>) \in Heights
  BY <1>1, <1>3
<1> QED BY <1>2, <1>4

----------------------------------------------------------------------------

\* Pushing an element that a stack does not have.
LEMMA Push ==
    ASSUME NEW S, NEW s \in Seq(S), NEW b \in S
    PROVE  /\ Append(s, b) \in Seq(S)
           /\ ToSet(Append(s, b)) = ToSet(s) \cup {b}
           /\ IsInjective(s) /\ b \notin ToSet(s) => IsInjective(Append(s, b))
<1>1. /\ Append(s, b) \in Seq(S)
      /\ DOMAIN Append(s, b) = 1..(Len(s) + 1)
      /\ Append(s, b)[Len(s) + 1] = b
      /\ \A i \in 1..Len(s) : Append(s, b)[i] = s[i]
      /\ DOMAIN s = 1..Len(s) /\ Len(s) \in Nat
  OBVIOUS
<1>2. ToSet(Append(s, b)) = ToSet(s) \cup {b}
  <2>1. \A i \in DOMAIN Append(s, b) : i \in DOMAIN s \/ i = Len(s) + 1
    BY <1>1
  <2>2. ToSet(Append(s, b)) \subseteq ToSet(s) \cup {b}
    BY <1>1, <2>1 DEF ToSet
  <2>3. ToSet(s) \cup {b} \subseteq ToSet(Append(s, b))
    BY <1>1 DEF ToSet
  <2> QED BY <2>2, <2>3
<1>3. IsInjective(s) /\ b \notin ToSet(s) => IsInjective(Append(s, b))
  BY <1>1 DEF IsInjective, ToSet
<1> QED BY <1>1, <1>2, <1>3

\* Popping the last element of a stack without repetitions.
LEMMA Pop ==
    ASSUME NEW S, NEW s \in Seq(S), s # <<>>
    PROVE  /\ Front(s) \in Seq(S)
           /\ Last(s) \in S
           /\ ToSet(s) = ToSet(Front(s)) \cup {Last(s)}
           /\ IsInjective(s) => IsInjective(Front(s)) /\ Last(s) \notin ToSet(Front(s))
<1>1. /\ Len(s) \in Nat \ {0} /\ DOMAIN s = 1..Len(s)
      /\ Front(s) \in Seq(S)
      /\ DOMAIN Front(s) = 1..(Len(s) - 1)
      /\ \A i \in 1..(Len(s) - 1) : Front(s)[i] = s[i]
      /\ Last(s) = s[Len(s)]
  BY DEF Front, Last
<1>2. \A i \in DOMAIN s : i \in DOMAIN Front(s) \/ i = Len(s)
  BY <1>1
<1>3. ToSet(s) = ToSet(Front(s)) \cup {Last(s)}
  <2>1. ToSet(s) \subseteq ToSet(Front(s)) \cup {Last(s)}
    BY <1>1, <1>2 DEF ToSet
  <2>2. ToSet(Front(s)) \cup {Last(s)} \subseteq ToSet(s)
    BY <1>1 DEF ToSet
  <2> QED BY <2>1, <2>2
<1>4. IsInjective(s) => IsInjective(Front(s)) /\ Last(s) \notin ToSet(Front(s))
  BY <1>1 DEF IsInjective, ToSet
<1> QED BY <1>1, <1>3, <1>4

----------------------------------------------------------------------------

\* The managed objects among the cached backends.
InUse == {cache[c] : c \in Cells} \cap Managed

\* The entered backends are those in use; each is on the stack or has been
\* exited, and nothing is exited before the session is unconfigured.
Books ==
    /\ entered = InUse
    /\ entered = ToSet(stack) \cup ToSet(exits)
    /\ IsInjective(stack) /\ IsInjective(exits)
    /\ ToSet(stack) \cap ToSet(exits) = {}
    /\ pc = "running" => exits = <<>>
    /\ pc = "closed" => stack = <<>>

\* A cached backend was built by something.
Built == \A u \in Uris, o \in Opts : cache[<<u, o>>] # None => builder[<<u, o>>] # None

Inv == TypeOK /\ OneSource /\ BoundMeansBuilt /\ Built /\ Books

\* A looked-up source is a source.
LEMMA SourceType ==
    ASSUME TypeOK, NEW s \in Schemes
    PROVE  Source(s) \in Sources
<1>1. CASE s # "file" /\ overrides[s] = None /\ Installed[s] # {}
  <2>1. \E f \in Installed[s] : TRUE
    BY <1>1
  <2>2. (CHOOSE f \in Installed[s] : TRUE) \in Installed[s]
    BY <2>1
  <2> QED BY <1>1, <2>2, TargetsAssumption DEF Source, Sources
<1>2. CASE ~(s # "file" /\ overrides[s] = None /\ Installed[s] # {})
  BY <1>2 DEF Source, Sources, TypeOK
<1> QED BY <1>1, <1>2

LEMMA EmptyStack == ToSet(<<>>) = {} /\ IsInjective(<<>>)
BY DEF ToSet, IsInjective

LEMMA InitInv == Init => Inv
BY EmptyStack, TargetsAssumption
DEF Init, Inv, TypeOK, OneSource, BoundMeansBuilt, Built, Books, InUse, Cells

LEMMA BuildInv ==
    ASSUME Inv, NEW u \in Uris, NEW o \in Opts, NEW b \in Objects, Build(u, o, b)
    PROVE  Inv'
<1> DEFINE c == <<u, o>>
           src == Source(SchemeOf[u])
<1>0. TypeOK /\ OneSource /\ BoundMeansBuilt /\ Built /\ Books BY DEF Inv
<1>1. c \in Cells /\ b # None
  BY TargetsAssumption DEF Cells
<1>2. src \in Sources /\ src # None
  BY <1>0, SourceType, TargetsAssumption DEF Sources
<1>3. /\ cache' = [cache EXCEPT ![c] = b] /\ cache[c] = None
      /\ sources' = [sources EXCEPT ![u] = src] /\ sources[u] \in {None, src}
      /\ builder' = [builder EXCEPT ![c] = src]
      /\ loaded' \in {loaded, loaded \cup {SchemeOf[u]}}
      /\ UNCHANGED <<overrides, exits, pc>> /\ pc = "running"
      /\ MaybeEnter(b)
  BY DEF Build, SameSource, LookUp
<1>7. SchemeOf[u] \in Schemes
  BY TargetsAssumption
<1>4. TypeOK' /\ Books'
  <2>1. InUse' = InUse \cup ({b} \cap Managed)
    <3>1. \A d \in Cells : cache'[d] = IF d = c THEN b ELSE cache[d]
      BY <1>0, <1>1, <1>3 DEF TypeOK
    <3>2. cache[c] \notin Managed
      BY <1>3, TargetsAssumption
    <3> HIDE DEF c
    <3> QED BY <1>1, <3>1, <3>2 DEF InUse
  <2>2. CASE b \in Managed \ entered
    <3>1. entered' = entered \cup {b} /\ stack' = Append(stack, b)
      BY <1>3, <2>2 DEF MaybeEnter
    <3>2. b \notin ToSet(stack)
      BY <1>0, <2>2 DEF Books
    <3>3. /\ stack' \in Seq(Managed) /\ ToSet(stack') = ToSet(stack) \cup {b}
          /\ IsInjective(stack')
      BY <1>0, <2>2, <3>1, <3>2, Push DEF TypeOK, Books
    <3>4. TypeOK'
      BY <1>0, <1>1, <1>2, <1>3, <1>7, <2>2, <3>1, <3>3 DEF TypeOK
    <3>5. Books'
      BY <1>0, <1>3, <2>1, <2>2, <3>1, <3>3 DEF Books
    <3> QED BY <3>4, <3>5
  <2>3. CASE ~(b \in Managed \ entered)
    <3>1. entered' = entered /\ stack' = stack
      BY <1>3, <2>3 DEF MaybeEnter
    <3>2. TypeOK'
      BY <1>0, <1>1, <1>2, <1>3, <1>7, <3>1 DEF TypeOK
    <3>3. Books'
      BY <1>0, <1>3, <2>1, <2>3, <3>1 DEF Books
    <3> QED BY <3>2, <3>3
  <2> QED BY <2>2, <2>3
<1>5. OneSource'
  <2> SUFFICES ASSUME NEW v \in Uris, NEW q \in Opts, cache'[<<v, q>>] # None
               PROVE  builder'[<<v, q>>] = sources'[v]
    BY DEF OneSource
  <2>1. <<v, q>> \in Cells
    BY DEF Cells
  <2>2. CASE <<v, q>> = c
    BY <1>0, <1>1, <1>3, <2>2 DEF TypeOK
  <2>3. CASE <<v, q>> # c
    <3>1. cache[<<v, q>>] # None /\ builder'[<<v, q>>] = builder[<<v, q>>]
      BY <1>0, <1>1, <1>3, <2>1, <2>3 DEF TypeOK
    <3>2. builder[<<v, q>>] = sources[v]
      BY <1>0, <3>1 DEF OneSource
    <3>3. CASE v = u
      <4>1. builder[<<v, q>>] # None
        BY <1>0, <3>1 DEF Built
      <4> QED BY <1>0, <1>3, <3>1, <3>2, <3>3, <4>1 DEF TypeOK
    <3>4. CASE v # u
      BY <1>0, <1>3, <3>1, <3>2, <3>4 DEF TypeOK
    <3> QED BY <3>3, <3>4
  <2> QED BY <2>2, <2>3
<1>6. BoundMeansBuilt'
  BY <1>0, <1>1, <1>3 DEF TypeOK, BoundMeansBuilt, Cells
<1>8. Built'
  BY <1>0, <1>1, <1>2, <1>3 DEF TypeOK, Built, Cells
<1> QED BY <1>4, <1>5, <1>6, <1>8 DEF Inv

LEMMA ExitInv == ASSUME Inv, Exit PROVE Inv'
<1>0. TypeOK /\ OneSource /\ BoundMeansBuilt /\ Built /\ Books BY DEF Inv
<1>1. /\ exits' = Append(exits, Last(stack)) /\ stack' = Front(stack)
      /\ stack # <<>> /\ pc = "closing"
      /\ UNCHANGED <<overrides, loaded, cache, sources, entered, builder, pc>>
  BY DEF Exit
<1>2. /\ stack' \in Seq(Managed) /\ Last(stack) \in Managed
      /\ ToSet(stack) = ToSet(stack') \cup {Last(stack)}
      /\ IsInjective(stack') /\ Last(stack) \notin ToSet(stack')
  BY <1>0, <1>1, Pop DEF TypeOK, Books
<1>3. Last(stack) \notin ToSet(exits)
  BY <1>0, <1>2 DEF Books
<1>4. /\ exits' \in Seq(Managed) /\ ToSet(exits') = ToSet(exits) \cup {Last(stack)}
      /\ IsInjective(exits')
  BY <1>0, <1>1, <1>2, <1>3, Push DEF TypeOK, Books
<1>5. TypeOK'
  BY <1>0, <1>1, <1>2, <1>4 DEF TypeOK
<1>6. Books'
  BY <1>0, <1>1, <1>2, <1>4 DEF Books, InUse
<1> QED BY <1>0, <1>1, <1>5, <1>6 DEF Inv, OneSource, BoundMeansBuilt, Built

\* What a step that leaves the session's backends alone keeps.
LEMMA SameSession ==
    ASSUME Inv, UNCHANGED session, UNCHANGED exits,
           overrides' \in [Schemes -> Factories \cup {None}], loaded' \subseteq Schemes,
           \/ pc' = pc
           \/ pc = "running" /\ pc' = "closing"
           \/ stack = <<>> /\ pc # "running" /\ pc' = "closed"
    PROVE  Inv'
<1>1. UNCHANGED <<cache, sources, entered, stack, builder, exits>>
  BY DEF session
<1>2. TypeOK'
  BY <1>1 DEF Inv, TypeOK
<1>3. OneSource' /\ BoundMeansBuilt' /\ Built'
  BY <1>1 DEF Inv, OneSource, BoundMeansBuilt, Built
<1>4. InUse' = InUse
  BY <1>1 DEF InUse
<1>5. Books'
  BY <1>1, <1>4 DEF Inv, Books
<1> QED BY <1>2, <1>3, <1>5 DEF Inv

LEMMA NextInv == ASSUME Inv, [Next]_vars PROVE Inv'
<1>0. TypeOK BY DEF Inv
<1>1. ASSUME NEW s \in Schemes, NEW f \in Factories, Override(s, f) PROVE Inv'
  BY <1>0, <1>1, SameSession DEF Override, TypeOK
<1>2. ASSUME NEW s \in Schemes, Unset(s) PROVE Inv'
  BY <1>0, <1>2, SameSession DEF Unset, TypeOK
<1>3. ASSUME NEW u \in Uris, LookUp(u), UNCHANGED <<overrides, session, exits, pc>>
      PROVE  Inv'
  <2>1. loaded' \subseteq Schemes
    BY <1>0, <1>3, TargetsAssumption DEF LookUp, TypeOK
  <2> QED BY <1>0, <1>3, <2>1, SameSession DEF TypeOK
<1>4. ASSUME NEW u \in Uris, Changed(u) PROVE Inv'
  BY <1>3, <1>4 DEF Changed
<1>5. ASSUME NEW u \in Uris, NEW o \in Opts, Cached(u, o) \/ BuildRaises(u, o) PROVE Inv'
  BY <1>3, <1>5 DEF Cached, BuildRaises
<1>6. CASE Unconfigure
  BY <1>0, <1>6, SameSession DEF Unconfigure, TypeOK
<1>7. CASE Closed
  BY <1>0, <1>7, SameSession DEF Closed, TypeOK
<1>8. CASE UNCHANGED vars
  BY <1>0, <1>8, SameSession DEF vars, TypeOK
<1> QED BY <1>1, <1>2, <1>4, <1>5, <1>6, <1>7, <1>8, BuildInv, ExitInv DEF Next

\* The invariant of a session's backends.
LEMMA Invariant == Spec => []Inv
<1>1. Init => Inv BY InitInv
<1>2. Inv /\ [Next]_vars => Inv' BY NextInv
<1> QED BY <1>1, <1>2, PTL DEF Spec

\* Every reachable state is typed.
THEOREM TypeCorrect == Spec => []TypeOK
<1>1. Inv => TypeOK BY DEF Inv
<1> QED BY <1>1, Invariant, PTL

\* Whatever overrides tests set, the backends of a URI have one source.
THEOREM OneSourceHolds == Spec => []OneSource
<1>1. Inv => OneSource BY DEF Inv
<1> QED BY <1>1, Invariant, PTL

\* A failed resolution leaves a URI as it was.
THEOREM BoundMeansBuiltHolds == Spec => []BoundMeansBuilt
<1>1. Inv => BoundMeansBuilt BY DEF Inv
<1> QED BY <1>1, Invariant, PTL

\* While tests run, each context manager in use is entered exactly once.
THEOREM EnteredOnceHolds == Spec => []EnteredOnce
<1>1. Inv => EnteredOnce BY EmptyStack DEF Inv, Books, EnteredOnce, InUse
<1> QED BY <1>1, Invariant, PTL

\* Once the session is unconfigured, each has been exited exactly once.
THEOREM ExitedOnceHolds == Spec => []ExitedOnce
<1>1. Inv => ExitedOnce BY EmptyStack DEF Inv, Books, ExitedOnce
<1> QED BY <1>1, Invariant, PTL

----------------------------------------------------------------------------
(* Selection: what a test selects is a URI and options, so its resolution  *)
(* is one of Targets'.                                                     *)

LEMMA MarkTypes ==
    ASSUME NEW t \in Tests, RecorderFound(t)
    PROVE  MarkTarget(t) \in RawUris \cup {None} /\ MarkProfile(t) \in Profiles \cup {None}
<1>1. Suite[t].marks \in Seq(Marks)
  BY SelectionAssumption DEF SelectionAssumption
<1>2. Suite[t].marks # <<>> => Suite[t].marks[1] \in Marks
  BY <1>1
<1> QED BY <1>2 DEF MarkTarget, MarkProfile, Marks

LEMMA ProfileTypes ==
    ASSUME NEW t \in Tests, NEW n, ~ProfileRefused(t, n)
    PROVE  /\ Profile(t, n).uri \in RawUris
           /\ Profile(t, n).options \in Options
           /\ Profile(t, n).shape \in {"string", "mapping"}
<1>1. IsTable(Static) /\ IsTable(Suite[t].profiles)
  BY SelectionAssumption DEF SelectionAssumption
<1>2. Profile(t, n) \in ProfileValues
  BY <1>1 DEF ProfileRefused, Profile, IsTable
<1> QED BY <1>2 DEF ProfileRefused, ProfileValues

LEMMA SchemeOptionsTypes ==
    ASSUME NEW t \in Tests, NEW r \in RawUris
    PROVE  SchemeOptions(t, r) \in Options
<1>1. Suite[t].dir \in Dirs /\ Suite[t].storage \in [Schemes -> Options]
  BY SelectionAssumption DEF SelectionAssumption
<1>2. Canonical[<<r, Suite[t].dir>>] \in Uris
  BY <1>1, SelectionAssumption DEF SelectionAssumption
<1> QED BY <1>1, <1>2, TargetsAssumption DEF SchemeOptions, TargetsAssumption

LEMMA SelectedTypes ==
    ASSUME NEW t \in Tests, ini \in Inis, ~Refused(t)
    PROVE  Selected(t).uri \in RawUris /\ Selected(t).options \in Options
<1>1. RecorderFound(t) /\ (ProfileName(t) # None => ~ProfileRefused(t, ProfileName(t)))
  BY DEF Refused
<1>2. MarkTarget(t) \in RawUris \cup {None}
  BY <1>1, MarkTypes
<1>3. /\ ini.target \in RawUris \cup {None} /\ Default \in RawUris /\ Empty \in Options
  BY SelectionAssumption DEF SelectionAssumption
<1>4. CASE ProfileName(t) # None
  BY <1>1, <1>3, <1>4, ProfileTypes DEF Selected
<1>5. CASE ProfileName(t) = None
  <2>1. Selected(t).uri \in RawUris /\ Selected(t).options = SchemeOptions(t, Selected(t).uri)
    BY <1>2, <1>3, <1>5 DEF Selected
  <2> QED BY <2>1, SchemeOptionsTypes
<1> QED BY <1>4, <1>5

LEMMA CellTypes ==
    ASSUME NEW t \in Tests, ini \in Inis, ~Refused(t)
    PROVE  /\ Cell(t, Selected(t)) \in Cells
           /\ Cell(t, Selected(t))[1] \in Uris /\ Cell(t, Selected(t))[2] \in Opts
           /\ Cell(t, Selected(t)) = <<Cell(t, Selected(t))[1], Cell(t, Selected(t))[2]>>
           /\ Cell(t, Selected(t))[1] \notin Exposed
<1>1. Selected(t).uri \in RawUris /\ Selected(t).options \in Options
  BY SelectedTypes
<1>2. Suite[t].dir \in Dirs
  BY SelectionAssumption DEF SelectionAssumption
<1>3. Canonical[<<Selected(t).uri, Suite[t].dir>>] \in Uris
  BY <1>1, <1>2, SelectionAssumption DEF SelectionAssumption
<1>4. Freeze[Selected(t).options] \in Opts \cup {None}
  BY <1>1, SelectionAssumption DEF SelectionAssumption
<1>5. Freeze[Selected(t).options] # None /\ ~HasCredentials(Selected(t).uri)
  BY DEF Refused
<1>6. Canonical[<<Selected(t).uri, Suite[t].dir>>] \notin Exposed
  BY <1>1, <1>2, <1>5, SelectionAssumption DEF SelectionAssumption, HasCredentials
<1> QED BY <1>3, <1>4, <1>5, <1>6 DEF Cell, Cells

LEMMA SelectionStepMaps ==
    ASSUME ini \in Inis, [SelectionNext]_<<vars, selection>>
    PROVE  [Next]_vars
<1>1. ASSUME NEW t \in Tests, Resolve(t)
      PROVE  Next
  <2> DEFINE c == Cell(t, Selected(t))
  <2>1. c[1] \in Uris /\ c[2] \in Opts
    BY <1>1, CellTypes DEF Resolve
  <2>2. \/ Changed(c[1]) \/ BuildRaises(c[1], c[2]) \/ Cached(c[1], c[2])
        \/ \E b \in Objects : Build(c[1], c[2], b)
    BY <1>1 DEF Resolve
  <2> HIDE DEF c
  <2> QED BY <2>1, <2>2 DEF Next
<1>2. ASSUME NEW t \in Tests, FixtureRaises(t)
      PROVE  UNCHANGED vars
  BY <1>2 DEF FixtureRaises
<1>3. CASE \E s \in Schemes, f \in Factories : Override(s, f) \/ Unset(s)
  BY <1>3 DEF Next
<1>4. CASE Unconfigure \/ Exit \/ Closed
  BY <1>4 DEF Next
<1>5. CASE UNCHANGED <<vars, selection>>
  BY <1>5
<1> QED BY <1>1, <1>2, <1>3, <1>4, <1>5 DEF SelectionNext

LEMMA IniStays ==
    ASSUME [SelectionNext]_<<vars, selection>>
    PROVE  UNCHANGED ini
BY DEF SelectionNext, selection, FixtureRaises, Resolve

LEMMA IniTyped == SelectionSpec => [](ini \in Inis)
<1>1. SelectionInit => ini \in Inis BY DEF SelectionInit
<1>2. ini \in Inis /\ [SelectionNext]_<<vars, selection>> => (ini \in Inis)' BY IniStays
<1> QED BY <1>1, <1>2, PTL DEF SelectionSpec

\* The fixture asks for backends as Targets allows, whatever tests select.
THEOREM SelectionImplementsTargets == SelectionSpec => Spec
<1>1. SelectionInit => Init BY DEF SelectionInit
<1>2. ini \in Inis /\ [SelectionNext]_<<vars, selection>> => [Next]_vars BY SelectionStepMaps
<1> QED BY <1>1, <1>2, IniTyped, PTL DEF SelectionSpec, Spec

\* A cell in use is not exposed, and its backend was built with options that
\* freeze to it; the last test was given the cell of what it selects.
SelectionInv ==
    /\ SelectionTypeOK
    /\ \A c \in Cells : cache[c] # None =>
          /\ c[1] \notin Exposed
          /\ made[c] \in Options /\ Freeze[made[c]] = c[2]
    /\ given # None =>
          /\ ~Refused(given.test) /\ Configured
          /\ given.cell = Cell(given.test, Selected(given.test))
          /\ cache[given.cell] # None

LEMMA SelectionInitInv == SelectionInit => SelectionInv
<1> SUFFICES ASSUME SelectionInit PROVE SelectionInv
  OBVIOUS
<1>1. SelectionTypeOK
  BY DEF SelectionInit, SelectionTypeOK
<1>2. \A c \in Cells : cache[c] = None
  BY DEF SelectionInit, Init
<1> QED BY <1>1, <1>2 DEF SelectionInit, SelectionInv

\* What a test selects depends on the ini file and on nothing that changes.
LEMMA SelectionStays ==
    ASSUME UNCHANGED ini
    PROVE  /\ Configured' = Configured
           /\ \A t : Refused(t)' = Refused(t)
           /\ \A t : Selected(t)' = Selected(t)
           /\ \A t, s : Cell(t, s)' = Cell(t, s)
<1>1. Configured' = Configured
  BY DEF Configured, HasCredentials
<1>2. \A t : ProfileName(t)' = ProfileName(t)
  BY DEF ProfileName, MarkTarget, MarkProfile
<1>3. \A t : Selected(t)' = Selected(t)
  BY <1>2 DEF Selected, Profile, MarkTarget, SchemeOptions
<1>4. \A t : Refused(t)' = Refused(t)
  BY <1>2, <1>3 DEF Refused, RecorderFound, MarkAmbiguous, ProfilesClash, ProfileRefused,
     Profile, HasCredentials
<1> QED
  BY <1>1, <1>3, <1>4 DEF Cell

\* A step that builds nothing, and gives no test a backend.
LEMMA NothingGiven ==
    ASSUME SelectionInv, UNCHANGED <<cache, ini, given, made>>
    PROVE  SelectionInv'
<1>1. SelectionTypeOK'
  BY DEF SelectionInv, SelectionTypeOK
<1>2. given' = given /\ cache' = cache /\ made' = made
  OBVIOUS
<1> QED BY <1>1, <1>2, SelectionStays DEF SelectionInv

LEMMA ResolveInv ==
    ASSUME SelectionInv, cache \in [Cells -> Objects \cup {None}],
           NEW t \in Tests, Resolve(t)
    PROVE  SelectionInv'
<1> DEFINE target == Selected(t)
           c == Cell(t, target)
<1>1. ini \in Inis /\ ~Refused(t) /\ Configured /\ UNCHANGED ini
  BY DEF Resolve, SelectionInv, SelectionTypeOK
<1>2. /\ c \in Cells /\ c[1] \in Uris /\ c[2] \in Opts /\ c = <<c[1], c[2]>>
      /\ c[1] \notin Exposed
  BY <1>1, CellTypes
<1>3. target.options \in Options /\ Freeze[target.options] = c[2]
  BY <1>1, SelectedTypes DEF Cell
<1>4. None \notin Objects
  BY TargetsAssumption DEF TargetsAssumption
<1>5. SelectionTypeOK /\ made \in [Cells -> Options \cup {None}]
  BY DEF SelectionInv, SelectionTypeOK
<1>6. given' = [test |-> t, cell |-> c] =>
          given' # None /\ given'.test = t /\ given'.cell = c
  <2>1. [test |-> t, cell |-> c] \in [test : Tests, cell : Cells]
    BY <1>2
  <2>2. None \notin [test : Tests, cell : Cells]
    BY SelectionAssumption DEF SelectionAssumption
  <2> QED BY <2>1, <2>2
<1> HIDE DEF c, target
<1>7. CASE (Changed(c[1]) \/ BuildRaises(c[1], c[2])) /\ UNCHANGED <<given, made>>
  <2>1. UNCHANGED cache
    BY <1>7 DEF Changed, BuildRaises, session
  <2> QED BY <1>1, <1>7, <2>1, NothingGiven
<1>8. CASE Cached(c[1], c[2]) /\ GivenTo(t, c) /\ UNCHANGED made
  <2>1. UNCHANGED cache /\ cache[c] # None
    BY <1>2, <1>8 DEF Cached, session
  <2>2. given' # None /\ given'.test = t /\ given'.cell = c
    BY <1>6, <1>8 DEF GivenTo
  <2>3. SelectionTypeOK'
    BY <1>1, <1>2, <1>5, <1>8 DEF SelectionTypeOK, GivenTo
  <2>4. /\ ~Refused(t)' /\ Configured' /\ c = Cell(t, Selected(t))'
    BY <1>1, SelectionStays DEF c, target
  <2> QED BY <1>8, <2>1, <2>2, <2>3, <2>4 DEF SelectionInv
<1>9. CASE /\ \E b \in Objects : Build(c[1], c[2], b)
           /\ GivenTo(t, c)
           /\ made' = [made EXCEPT ![c] = target.options]
  <2>1. PICK b \in Objects : cache' = [cache EXCEPT ![c] = b]
    BY <1>2, <1>9 DEF Build
  <2>2. given' # None /\ given'.test = t /\ given'.cell = c
    BY <1>6, <1>9 DEF GivenTo
  <2>3. SelectionTypeOK'
    BY <1>1, <1>2, <1>3, <1>5, <1>9 DEF SelectionTypeOK, GivenTo
  <2>4. /\ ~Refused(t)' /\ Configured' /\ c = Cell(t, Selected(t))'
    BY <1>1, SelectionStays DEF c, target
  <2>5. cache'[c] # None
    BY <1>2, <1>4, <2>1
  <2>6. ASSUME NEW d \in Cells, cache'[d] # None
        PROVE  /\ d[1] \notin Exposed
               /\ made'[d] \in Options /\ Freeze[made'[d]] = d[2]
    <3>1. CASE d = c
      BY <1>2, <1>3, <1>5, <1>9, <3>1
    <3>2. CASE d # c
      BY <1>5, <1>9, <2>1, <2>6, <3>2 DEF SelectionInv
    <3> QED BY <3>1, <3>2
  <2> QED BY <2>2, <2>3, <2>4, <2>5, <2>6 DEF SelectionInv
<1> QED BY <1>7, <1>8, <1>9 DEF Resolve, c, target

LEMMA SelectionNextInv ==
    ASSUME SelectionInv, TypeOK, [SelectionNext]_<<vars, selection>>
    PROVE  SelectionInv'
<1>1. ASSUME NEW t \in Tests, FixtureRaises(t)
      PROVE  SelectionInv'
  BY <1>1, NothingGiven DEF FixtureRaises, vars, session, selection
<1>2. ASSUME NEW t \in Tests, Resolve(t)
      PROVE  SelectionInv'
  BY <1>2, ResolveInv DEF TypeOK
<1>3. CASE (\E s \in Schemes, f \in Factories : Override(s, f) \/ Unset(s))
           /\ UNCHANGED selection
  BY <1>3, NothingGiven DEF Override, Unset, session, selection
<1>4. CASE (Unconfigure \/ Exit \/ Closed) /\ UNCHANGED selection
  BY <1>4, NothingGiven DEF Unconfigure, Exit, Closed, session, selection
<1>5. CASE UNCHANGED <<vars, selection>>
  BY <1>5, NothingGiven DEF vars, session, selection
<1> QED BY <1>1, <1>2, <1>3, <1>4, <1>5 DEF SelectionNext

LEMMA SelectionInvariant == SelectionSpec => []SelectionInv
<1>1. SelectionInit => SelectionInv BY SelectionInitInv
<1>2. SelectionInv /\ TypeOK /\ [SelectionNext]_<<vars, selection>> => SelectionInv'
  BY SelectionNextInv
<1> QED BY <1>1, <1>2, SelectionImplementsTargets, TypeCorrect, PTL DEF SelectionSpec

\* Every reachable state of the selection is typed.
THEOREM SelectionTypeCorrect == SelectionSpec => []SelectionTypeOK
<1>1. SelectionInv => SelectionTypeOK BY DEF SelectionInv
<1> QED BY <1>1, SelectionInvariant, PTL

\* No backend is built for a URI that shows a secret, wherever it comes from.
THEOREM SecretsStayOutHolds == SelectionSpec => []SecretsStayOut
<1>1. SelectionInv => SecretsStayOut
  <2> SUFFICES ASSUME SelectionInv PROVE SecretsStayOut
    OBVIOUS
  <2>1. \A u \in Exposed, o \in Opts : <<u, o>> \in Cells
    BY SelectionAssumption DEF SelectionAssumption, Cells
  <2>2. given # None => given.cell \in Cells
    BY DEF SelectionInv, SelectionTypeOK
  <2> QED BY <2>1, <2>2 DEF SelectionInv, SecretsStayOut
<1> QED BY <1>1, SelectionInvariant, PTL

\* Freeze names the form that freeze_options gives each set of options, and Alike
\* holds at least the options that are alike as values.
FreezeIsFreezeOptions ==
    \E value \in [Options -> PyValues] : \A o, q \in Options :
        /\ Freeze[o] # None => CanFreeze(value[o])
        /\ Freeze[o] # None /\ Freeze[o] = Freeze[q] =>
               FreezeOptions(value[o]) = FreezeOptions(value[q])
        /\ AlikeAs[<<value[q], value[o]>>] => o \in Alike[q]

\* Options that have one cell, for one URI, are alike.
LEMMA FreezeKeepsApart ==
    ASSUME FreezeIsFreezeOptions, NEW o \in Options, NEW q \in Options,
           Freeze[o] = Freeze[q], Freeze[o] # None
    PROVE  o \in Alike[q]
<1>1. PICK value \in [Options -> PyValues] : \A p, r \in Options :
        /\ Freeze[p] # None => CanFreeze(value[p])
        /\ Freeze[p] # None /\ Freeze[p] = Freeze[r] =>
               FreezeOptions(value[p]) = FreezeOptions(value[r])
        /\ AlikeAs[<<value[r], value[p]>>] => p \in Alike[r]
  BY DEF FreezeIsFreezeOptions
<1>2. /\ value[o] \in PyValues /\ value[q] \in PyValues /\ CanFreeze(value[q])
      /\ FreezeOptions(value[q]) = FreezeOptions(value[o])
  BY <1>1
<1>3. AlikeAs[<<value[q], value[o]>>]
  BY <1>2, OnlyAlikeFreezeAlike
<1> QED BY <1>1, <1>3

\* The first source that names a target is the one _select_target takes.
LEMMA SelectedIsWanted ==
    ASSUME ini \in Inis, NEW t \in Tests, ~Refused(t), Configured
    PROVE  Selected(t) = Wanted(t)
<1> DEFINE First(n) == Offers(t)[n] # None /\ \A m \in 1..(n - 1) : Offers(t)[m] = None
           i == FirstOffer(t)
<1>1. /\ Offers(t)[1] = MarkTarget(t) /\ Offers(t)[2] = MarkProfile(t)
      /\ Offers(t)[3] = ini.profile /\ Offers(t)[4] = ini.target /\ Offers(t)[5] = Default
  BY DEF Offers, MarkTarget, MarkProfile
<1>2. Default # None
  BY SelectionAssumption DEF SelectionAssumption
<1>3. \E n \in 1..5 : First(n)
  <2>1. CASE Offers(t)[1] # None
    BY <2>1
  <2>2. CASE Offers(t)[1] = None /\ Offers(t)[2] # None
    BY <2>2
  <2>3. CASE Offers(t)[1] = None /\ Offers(t)[2] = None /\ Offers(t)[3] # None
    <3>1. \A m \in 1..(3 - 1) : m = 1 \/ m = 2
      OBVIOUS
    <3> QED BY <2>3, <3>1
  <2>4. CASE /\ Offers(t)[1] = None /\ Offers(t)[2] = None /\ Offers(t)[3] = None
             /\ Offers(t)[4] # None
    <3>1. \A m \in 1..(4 - 1) : m = 1 \/ m = 2 \/ m = 3
      OBVIOUS
    <3> QED BY <2>4, <3>1
  <2>5. CASE /\ Offers(t)[1] = None /\ Offers(t)[2] = None /\ Offers(t)[3] = None
             /\ Offers(t)[4] = None
    <3>1. \A m \in 1..(5 - 1) : m = 1 \/ m = 2 \/ m = 3 \/ m = 4
      OBVIOUS
    <3> QED BY <1>1, <1>2, <2>5, <3>1
  <2> QED BY <2>1, <2>2, <2>3, <2>4, <2>5
<1>4. i \in 1..5 /\ First(i)
  BY <1>3 DEF FirstOffer
<1> HIDE DEF i
<1>5. /\ i = 1 => MarkTarget(t) # None
      /\ i = 2 => MarkTarget(t) = None /\ MarkProfile(t) # None
      /\ i = 3 => MarkTarget(t) = None /\ MarkProfile(t) = None /\ ini.profile # None
      /\ i = 4 => /\ MarkTarget(t) = None /\ MarkProfile(t) = None /\ ini.profile = None
                  /\ ini.target # None
      /\ i = 5 => /\ MarkTarget(t) = None /\ MarkProfile(t) = None /\ ini.profile = None
                  /\ ini.target = None
  BY <1>1, <1>4
<1>6. /\ i = 1 \/ i = 2 \/ i = 3 \/ i = 4 \/ i = 5
      /\ i \in {2, 3} <=> ProfileName(t) # None
      /\ i \in {2, 3} => Offers(t)[i] = ProfileName(t)
      /\ i \notin {2, 3} => Offers(t)[i] =
             (IF MarkTarget(t) # None THEN MarkTarget(t)
              ELSE IF ini.target # None THEN ini.target ELSE Default)
  BY <1>1, <1>4, <1>5 DEF ProfileName
<1>7. i \in {2, 3} => Profile(t, ProfileName(t)).shape \in {"string", "mapping"}
  BY <1>6, ProfileTypes DEF Refused
<1>8. CASE i \in {2, 3}
  BY <1>6, <1>7, <1>8 DEF Selected, Wanted, Profile, i
<1>9. CASE i \notin {2, 3}
  BY <1>6, <1>9 DEF Selected, Wanted, SchemeOptions, i
<1> QED BY <1>8, <1>9

\* A test is given a backend of its own target, whatever other tests have had
\* built, with options that differ from its own in nothing but what freeze_options
\* leaves out.
THEOREM SharedWithAlikeHolds ==
    ASSUME FreezeIsFreezeOptions
    PROVE  SelectionSpec => []SharedWithAlike
<1>1. SelectionInv => SharedWithAlike
  <2> SUFFICES ASSUME SelectionInv, given # None PROVE SharedWithAlike
    BY DEF SharedWithAlike
  <2> DEFINE t == given.test
             s == Selected(t)
  <2>1. /\ t \in Tests /\ given.cell \in Cells /\ ini \in Inis
        /\ ~Refused(t) /\ Configured /\ cache[given.cell] # None
        /\ given.cell = Cell(t, s)
    BY DEF SelectionInv, SelectionTypeOK
  <2>2. given.cell = <<Canonical[<<s.uri, Suite[t].dir>>], Freeze[s.options]>>
    BY <2>1 DEF Cell
  <2>3. made[given.cell] \in Options /\ Freeze[made[given.cell]] = Freeze[s.options]
    BY <2>1, <2>2 DEF SelectionInv
  <2>4. s.options \in Options /\ Freeze[s.options] # None
    BY <2>1, SelectedTypes DEF Refused
  <2>5. made[given.cell] \in Alike[s.options]
    BY <2>3, <2>4, FreezeKeepsApart
  <2> QED BY <2>1, <2>2, <2>5, SelectedIsWanted DEF SharedWithAlike
<1> QED BY <1>1, SelectionInvariant, PTL

============================================================================
