---------------------------- MODULE Names_proofs ----------------------------
(***************************************************************************)
(* Names fit and use their room, for every length of module path, group    *)
(* name, key and recorder name, and every choice of the limits; and what   *)
(* the keys are made of.                                                   *)
(***************************************************************************)
EXTENDS Names, WellFoundedInduction, SequenceTheorems, TLAPS

USE DEF Greatest, Least

\* The lengths a name is made of are natural numbers.
LEMMA Lengths ==
    ASSUME NEW s \in Snapshots
    PROVE  /\ ModuleBytes[s] \in Nat /\ RecorderLen[s] \in Nat
           /\ HashLength \in Nat /\ NameMaxBytes \in Nat
           /\ LabelMin \in Nat /\ LabelMin >= 1
           /\ WholeGroup(s) \in Nat /\ WholeKey(s) \in Nat
<1>1. /\ GroupLen[s] \in Nat /\ KeyLen[s] \in Nat
      /\ LabelGroupMax \in Nat /\ LabelKeyMax \in Nat
  BY NamesAssumption
<1>2. WholeGroup(s) \in Nat /\ WholeKey(s) \in Nat
  BY <1>1 DEF WholeGroup, WholeKey, Slice
<1> QED BY <1>2, NamesAssumption

\* Half of a space is within it.
LEMMA Half ==
    ASSUME NEW n \in Nat
    PROVE  n \div 2 \in Nat /\ n \div 2 <= n
  OBVIOUS

\* The two parts of a label share a space: together they never need more, and
\* they either fill it or are whole.
LEMMA Shared ==
    ASSUME NEW s \in Snapshots, NEW space \in Nat
    PROVE  /\ GroupPart(s, space) \in Nat /\ KeyPart(s, space) \in Nat
           /\ GroupPart(s, space) + KeyPart(s, space) <= space
           /\ \/ GroupPart(s, space) + KeyPart(s, space) = space
              \/ GroupPart(s, space) = WholeGroup(s) /\ KeyPart(s, space) = WholeKey(s)
<1> DEFINE group == WholeGroup(s)
           key == WholeKey(s)
           forGroup == Greatest(space - key, space \div 2)
<1>1. group \in Nat /\ key \in Nat
  BY Lengths
<1>2. space \div 2 \in Nat /\ space \div 2 <= space
  BY Half
<1>3. forGroup \in Nat /\ forGroup <= space /\ space - forGroup <= key
  BY <1>1, <1>2
<1>4. GroupPart(s, space) = Slice(group, forGroup)
  BY DEF GroupPart
<1>5. KeyPart(s, space) = Slice(key, space - GroupPart(s, space))
  BY DEF KeyPart
<1> HIDE DEF group, key, forGroup
<1>6. /\ GroupPart(s, space) \in Nat
      /\ GroupPart(s, space) <= forGroup
      /\ GroupPart(s, space) = forGroup \/ GroupPart(s, space) = group
  BY <1>1, <1>3, <1>4 DEF Slice
<1>7. space - GroupPart(s, space) \in Nat
  BY <1>3, <1>6
<1>8. /\ KeyPart(s, space) \in Nat
      /\ KeyPart(s, space) <= space - GroupPart(s, space)
      /\ KeyPart(s, space) = space - GroupPart(s, space) \/ KeyPart(s, space) = key
  BY <1>1, <1>5, <1>7 DEF Slice
<1>9. CASE GroupPart(s, space) = group
  BY <1>6, <1>7, <1>8, <1>9 DEF group, key
<1>10. CASE GroupPart(s, space) = forGroup
  \* Then the key gets no more than it has.
  <2>1. KeyPart(s, space) = space - GroupPart(s, space)
    BY <1>1, <1>3, <1>5, <1>7, <1>10 DEF Slice
  <2> QED BY <2>1, <1>6, <1>7, <1>8
<1> QED BY <1>6, <1>9, <1>10

\* A file name is as much shorter than NameMaxBytes as its label is than the
\* space for its two parts.
LEMMA LengthOfName ==
    ASSUME NEW s \in Snapshots, Nameable(s)
    PROVE  /\ LabelRoom(s) - 1 \in Nat
           /\ FlatLength(s) = NameMaxBytes - (LabelRoom(s) - 1)
                + (GroupPart(s, LabelRoom(s) - 1) + KeyPart(s, LabelRoom(s) - 1))
<1> DEFINE space == LabelRoom(s) - 1
           group == GroupPart(s, space)
           key == KeyPart(s, space)
<1>1. space \in Nat
  BY Lengths DEF Nameable, LabelRoom
<1>2. group \in Nat /\ key \in Nat
  BY <1>1, Shared
<1>3. FlatLength(s) =
        ModuleBytes[s] + 1 + (group + 1 + key) + 1 + HashLength + 1 + RecorderLen[s]
  BY DEF FlatLength
<1>4. space = NameMaxBytes - (ModuleBytes[s] + 1 + HashLength + 2) - RecorderLen[s] - 1
  BY DEF LabelRoom
<1> HIDE DEF space, group, key
<1>5. FlatLength(s) = NameMaxBytes - space + (group + key)
  BY <1>1, <1>2, <1>3, <1>4, Lengths
<1> QED BY <1>1, <1>5 DEF space, group, key

\* A file name that is not refused as too long fits, with its module path,
\* hash and recorder name, in NameMaxBytes.
THEOREM NameableFits ==
    ASSUME NEW s \in Snapshots, Nameable(s)
    PROVE  FlatLength(s) <= NameMaxBytes
<1> DEFINE space == LabelRoom(s) - 1
<1>1. /\ space \in Nat
      /\ FlatLength(s) = NameMaxBytes - space + (GroupPart(s, space) + KeyPart(s, space))
  BY LengthOfName
<1> HIDE DEF space
<1>2. NameMaxBytes \in Nat
  BY Lengths
<1> QED
  BY <1>1, <1>2, Shared DEF space

\* Its label is cut only for want of room: unless it is whole, the name is
\* exactly as long as a name may be.
THEOREM NameableIsFull ==
    ASSUME NEW s \in Snapshots, Nameable(s)
    PROVE  \/ FlatLength(s) = NameMaxBytes
           \/ /\ GroupPart(s, LabelRoom(s) - 1) = WholeGroup(s)
              /\ KeyPart(s, LabelRoom(s) - 1) = WholeKey(s)
<1> DEFINE space == LabelRoom(s) - 1
<1>1. /\ space \in Nat
      /\ FlatLength(s) = NameMaxBytes - space + (GroupPart(s, space) + KeyPart(s, space))
  BY LengthOfName
<1> HIDE DEF space
<1>2. NameMaxBytes \in Nat
  BY Lengths
<1> QED
  BY <1>1, <1>2, Shared DEF space

----------------------------------------------------------------------------
(* Recursive functions.                                                    *)

\* A set of natural numbers has a least element.  The library's theorems of
\* induction take an operator, which no prover here can instantiate; that a
\* well-founded order has minimal elements is stated for sets.
LEMMA LeastOf ==
    ASSUME NEW S \in SUBSET Nat, S # {}
    PROVE  \E m \in S : \A n \in S : m <= n
<1> DEFINE R == {ss \in Nat \X Nat : ss[1] < ss[2]}
<1>1. IsWellFoundedOn(R, Nat)
  BY NatLessThanWellFounded DEF OpToRel
<1>2. \A m, n \in Nat : n < m => <<n, m>> \in R
  OBVIOUS
<1> HIDE DEF R
<1>3. PICK m \in S : \A n \in S : ~(<<n, m>> \in R)
  BY <1>1, WFMin
<1>4. \A n \in S : ~(n < m)
  BY <1>2, <1>3
<1> QED BY <1>4

\* Counting up from m reaches n.
LEMMA Climb ==
    ASSUME NEW m \in Nat, NEW n \in Nat, NEW T \in SUBSET (m..n), m \in T,
           \A i \in T : i < n => i + 1 \in T
    PROVE  T = m..n
<1> SUFFICES ASSUME (m..n) \ T # {} PROVE FALSE
  OBVIOUS
<1>1. (m..n) \ T \in SUBSET Nat
  OBVIOUS
<1>2. PICK i \in (m..n) \ T : \A j \in (m..n) \ T : i <= j
  BY <1>1, LeastOf
<1>3. i - 1 \in m..n /\ i - 1 < n
  BY <1>2
<1> QED BY <1>2, <1>3

\* What a recursive function on m..n satisfies.
Recurses(f, m, n, s0, step) ==
    f = [i \in m..n |-> IF i = m THEN s0 ELSE step[<<i, f[i - 1]>>]]

\* There is such a function, whatever it starts from and whatever its step.
LEMMA Recursion ==
    ASSUME NEW S, NEW m \in Nat, NEW n \in Nat, m <= n, NEW s0 \in S,
           NEW step \in [(m..n) \X S -> S]
    PROVE  \E f \in [m..n -> S] : Recurses(f, m, n, s0, step)
<1> DEFINE Computes(f, k) ==
               /\ f \in [m..k -> S] /\ f[m] = s0
               /\ \A i \in (m + 1)..k : f[i] = step[<<i, f[i - 1]>>]
           T == {k \in m..n : \E f \in [m..k -> S] : Computes(f, k)}
<1>1. m \in T
  <2> DEFINE f == [i \in m..m |-> s0]
  <2>1. f \in [m..m -> S] /\ f[m] = s0
    OBVIOUS
  <2>2. (m + 1)..m = {}
    OBVIOUS
  <2>3. Computes(f, m)
    BY <2>1, <2>2
  <2>4. m \in m..n
    OBVIOUS
  <2> QED BY <2>1, <2>3, <2>4
<1>2. ASSUME NEW k \in T, k < n PROVE k + 1 \in T
  <2>1. PICK f \in [m..k -> S] : Computes(f, k)
    BY <1>2
  <2> DEFINE g == [i \in m..(k + 1) |-> IF i = k + 1 THEN step[<<i, f[k]>>] ELSE f[i]]
  <2>2. k \in m..n /\ k + 1 \in m..n /\ f[k] \in S
    BY <1>2, <2>1
  <2>3. g \in [m..(k + 1) -> S]
    <3>1. step[<<k + 1, f[k]>>] \in S
      BY <2>2
    <3>2. ASSUME NEW i \in m..(k + 1) PROVE g[i] \in S
      <4>1. CASE i = k + 1
        BY <3>1, <4>1
      <4>2. CASE i # k + 1
        <5>1. i \in m..k
          BY <2>2, <4>2
        <5> QED BY <2>1, <4>2, <5>1
      <4> QED BY <4>1, <4>2
    <3> QED BY <3>2
  <2>4. g[m] = s0
    BY <2>1, <2>2
  <2>5. ASSUME NEW i \in (m + 1)..(k + 1) PROVE g[i] = step[<<i, g[i - 1]>>]
    <3>1. i \in m..(k + 1) /\ i - 1 \in m..k /\ i - 1 \in m..(k + 1) /\ i - 1 # k + 1
      BY <2>2
    <3>2. g[i - 1] = f[i - 1]
      BY <3>1
    <3>3. CASE i = k + 1
      BY <2>2, <3>1, <3>2, <3>3
    <3>4. CASE i # k + 1
      <4>1. i \in (m + 1)..k
        BY <2>2, <3>4
      <4> QED BY <2>1, <3>1, <3>2, <3>4, <4>1
    <3> QED BY <3>3, <3>4
  <2>6. Computes(g, k + 1)
    BY <2>3, <2>4, <2>5
  <2> QED BY <2>2, <2>3, <2>6
<1>3. T = m..n
  <2> HIDE DEF T
  <2>1. T \in SUBSET (m..n)
    BY DEF T
  <2> QED BY <1>1, <1>2, <2>1, Climb
<1>4. PICK f \in [m..n -> S] : Computes(f, n)
  BY <1>3
<1>5. ASSUME NEW i \in m..n
      PROVE f[i] = IF i = m THEN s0 ELSE step[<<i, f[i - 1]>>]
  <2>1. i # m => i \in (m + 1)..n
    OBVIOUS
  <2> QED BY <1>4, <2>1
<1> QED BY <1>5 DEF Recurses

----------------------------------------------------------------------------
(* Sequences: prefixes and what follows them.                              *)

\* The first n elements.
LEMMA FirstAt ==
    ASSUME NEW S, NEW s \in Seq(S), NEW n \in 0..Len(s)
    PROVE  /\ SubSeq(s, 1, n) \in Seq(S)
           /\ Len(SubSeq(s, 1, n)) = n
           /\ \A i \in 1..n : SubSeq(s, 1, n)[i] = s[i]
<1>1. Len(s) \in Nat /\ n \in Nat /\ \A i \in 1..n : i \in 1..Len(s)
  OBVIOUS
<1>2. \A i \in 1..n : s[i] \in S
  BY <1>1
<1>3. SubSeq(s, 1, n) = [i \in 1..n |-> s[i]]
  BY <1>1
<1> QED BY <1>1, <1>2, <1>3

\* All but the last.
LEMMA FrontAt ==
    ASSUME NEW S, NEW s \in Seq(S), s # <<>>
    PROVE  /\ Front(s) \in Seq(S)
           /\ Len(Front(s)) = Len(s) - 1
           /\ \A i \in 1..Len(s) - 1 : Front(s)[i] = s[i]
<1>1. Len(s) - 1 \in 0..Len(s)
  OBVIOUS
<1> QED BY <1>1, FirstAt DEF Front

\* What comes before and what is between, position by position.
LEMMA PrefixAt ==
    ASSUME NEW S, NEW b \in Seq(S), NEW p \in Seq(S)
    PROVE  /\ IsPrefix(b, p) <=> (Len(b) <= Len(p) /\ \A i \in 1..Len(b) : p[i] = b[i])
           /\ IsStrictPrefix(b, p) <=> (Len(b) < Len(p) /\ \A i \in 1..Len(b) : p[i] = b[i])
<1>1. IsPrefix(b, p) <=> (Len(b) <= Len(p) /\ \A i \in 1..Len(b) : p[i] = b[i])
  <2>1. ASSUME Len(b) <= Len(p)
        PROVE  SubSeq(b, 1, Len(b)) = SubSeq(p, 1, Len(b)) <=> \A i \in 1..Len(b) : p[i] = b[i]
    <3>1. /\ SubSeq(b, 1, Len(b)) = [i \in 1..Len(b) |-> b[i]]
          /\ SubSeq(p, 1, Len(b)) = [i \in 1..Len(b) |-> p[i]]
      BY <2>1
    <3> QED BY <3>1
  <2> QED BY <2>1 DEF IsPrefix
<1>2. ASSUME IsPrefix(b, p), Len(b) = Len(p) PROVE b = p
  <2>1. \A i \in 1..Len(b) : b[i] = p[i]
    BY <1>1, <1>2
  <2> QED BY <1>2, <2>1
<1> QED BY <1>1, <1>2 DEF IsStrictPrefix

\* A path below another is that path and a suffix.
LEMMA BelowIsConcat ==
    ASSUME NEW S, NEW b \in Seq(S), NEW p \in Seq(S), IsStrictPrefix(b, p)
    PROVE  /\ SubSeq(p, Len(b) + 1, Len(p)) \in Seq(S) \ {<<>>}
           /\ b \o SubSeq(p, Len(b) + 1, Len(p)) = p
<1> DEFINE k == SubSeq(p, Len(b) + 1, Len(p))
<1>1. Len(b) < Len(p) /\ \A i \in 1..Len(b) : p[i] = b[i]
  BY PrefixAt
<1>2. k \in Seq(S) /\ Len(k) = Len(p) - Len(b) /\ \A i \in 1..Len(k) : k[i] = p[Len(b) + i]
  BY <1>1
<1>3. b \o k \in Seq(S) /\ Len(b \o k) = Len(p)
  BY <1>2
<1>4. ASSUME NEW i \in 1..Len(p) PROVE (b \o k)[i] = p[i]
  <2>1. CASE i \in 1..Len(b)
    BY <1>1, <1>2, <2>1
  <2>2. CASE i \notin 1..Len(b)
    <3>1. i - Len(b) \in 1..Len(k) /\ Len(b) + (i - Len(b)) = i
      BY <1>1, <1>2, <2>2
    <3>2. (b \o k)[i] = k[i - Len(b)]
      BY <1>2, <1>3, <2>2, <3>1
    <3>3. k[i - Len(b)] = p[Len(b) + (i - Len(b))]
      BY <1>2, <3>1
    <3> QED BY <3>1, <3>2, <3>3
  <2> QED BY <2>1, <2>2
<1>5. b \o k = p
  <2> DEFINE q == b \o k
  <2>1. q \in Seq(S) /\ Len(q) = Len(p) /\ \A i \in 1..Len(q) : q[i] = p[i]
    BY <1>3, <1>4
  <2> HIDE DEF q
  <2>2. q = p
    BY <2>1, SeqEqual
  <2> QED BY <2>2 DEF q
<1>6. k # <<>>
  <2> HIDE DEF k
  <2>1. Len(k) > 0
    BY <1>1, <1>2
  <2> QED BY <2>1
<1> QED BY <1>2, <1>5, <1>6

\* And the other way around.
LEMMA ConcatIsBelow ==
    ASSUME NEW S, NEW b \in Seq(S), NEW k \in Seq(S), k # <<>>
    PROVE  /\ b \o k \in Seq(S)
           /\ IsStrictPrefix(b, b \o k)
           /\ Last(b \o k) = Last(k)
           /\ SubSeq(b \o k, Len(b) + 1, Len(b \o k)) = k
<1> DEFINE p == b \o k
<1>1. p \in Seq(S) /\ Len(p) = Len(b) + Len(k) /\ Len(k) > 0
  OBVIOUS
<1>2. \A i \in 1..Len(b) : p[i] = b[i]
  OBVIOUS
<1>3. \A i \in 1..Len(k) : p[Len(b) + i] = k[i]
  OBVIOUS
<1>4. IsStrictPrefix(b, p)
  <2> HIDE DEF p
  <2>1. Len(b) < Len(p)
    BY <1>1
  <2> QED BY <1>1, <1>2, <2>1, PrefixAt
<1>5. SubSeq(p, Len(b) + 1, Len(p)) = k
  <2> DEFINE q == SubSeq(p, Len(b) + 1, Len(p))
  <2> HIDE DEF p
  <2>1. q \in Seq(S) /\ Len(q) = Len(k)
    BY <1>1
  <2>2. ASSUME NEW i \in 1..Len(k) PROVE q[i] = k[i]
    <3>1. q[i] = p[(Len(b) + 1) + i - 1]
      BY <1>1
    <3>2. (Len(b) + 1) + i - 1 = Len(b) + i
      OBVIOUS
    <3> QED BY <1>3, <3>1, <3>2
  <2> HIDE DEF q
  <2>3. q = k
    BY <2>1, <2>2
  <2> QED BY <2>3 DEF q
<1>6. Last(p) = Last(k)
  <2> HIDE DEF p
  <2>1. p[Len(b) + Len(k)] = k[Len(k)] /\ Len(p) = Len(b) + Len(k)
    BY <1>1, <1>3
  <2> QED BY <2>1 DEF Last
<1> QED BY <1>1, <1>4, <1>5, <1>6

\* Of two ways to begin one path, one begins the other.
LEMMA PrefixesNest ==
    ASSUME NEW S, NEW b \in Seq(S), NEW c \in Seq(S), NEW p \in Seq(S),
           IsStrictPrefix(b, p), IsStrictPrefix(c, p)
    PROVE  IsPrefix(b, c) \/ IsPrefix(c, b)
BY PrefixAt

----------------------------------------------------------------------------
(* The keys.                                                               *)

\* A path joined by dots is a segment.
LEMMA DottedType ==
    ASSUME NEW m \in Paths \ {<<>>}
    PROVE  Dotted(m) \in Segments
<1> DEFINE N == Len(m)
           step == [c \in (1..N) \X Segments |-> c[2] \o m[c[1]]]
           Joins(f) == f = [i \in 1..N |-> IF i = 1 THEN m[i] ELSE f[i - 1] \o m[i]]
<1>1. N \in Nat /\ 1 \in Nat /\ 1 <= N /\ \A i \in 1..N : m[i] \in Segments
  BY DEF Paths
<1>2. ASSUME NEW a \in Segments, NEW b \in Segments PROVE a \o b \in Segments
  BY DEF Segments
<1>3. step \in [(1..N) \X Segments -> Segments]
  BY <1>1, <1>2
<1>4. PICK f \in [1..N -> Segments] : Recurses(f, 1, N, m[1], step)
  <2> HIDE DEF N, step
  <2>1. m[1] \in Segments
    BY <1>1
  <2> QED BY <1>1, <1>3, <2>1, Recursion
<1>5. ASSUME NEW i \in 1..N
      PROVE  f[i] = IF i = 1 THEN m[i] ELSE f[i - 1] \o m[i]
  <2>1. f[i] = IF i = 1 THEN m[1] ELSE step[<<i, f[i - 1]>>]
    BY <1>4 DEF Recurses
  <2>2. ASSUME i # 1 PROVE <<i, f[i - 1]>> \in (1..N) \X Segments
    <3>1. i - 1 \in 1..N
      BY <1>1, <2>2
    <3> QED BY <3>1
  <2> QED BY <2>1, <2>2
<1>6. Joins(f)
  <2>1. f = [i \in 1..N |-> f[i]]
    OBVIOUS
  <2> QED BY <1>5, <2>1
<1> DEFINE w == CHOOSE g : Joins(g)
<1>7. Joins(w)
  <2> HIDE DEF Joins
  <2> QED BY <1>6
<1>8. Dotted(m) = w[N]
  BY <1>1 DEF Dotted, FlattenSeq
<1>9. w[1] = m[1] /\ \A i \in 2..N : w[i] = w[i - 1] \o m[i]
  <2> HIDE DEF w, N
  <2>1. ASSUME NEW i \in 1..N PROVE w[i] = IF i = 1 THEN m[i] ELSE w[i - 1] \o m[i]
    BY <1>7
  <2>2. 1 \in 1..N /\ \A i \in 2..N : i \in 1..N /\ i # 1
    BY <1>1
  <2> QED BY <2>1, <2>2
<1> DEFINE T == {i \in 1..N : w[i] \in Segments}
<1>10. 1 \in T
  <2> HIDE DEF w, N
  <2> QED BY <1>1, <1>9
<1>11. ASSUME NEW i \in T, i < N PROVE i + 1 \in T
  <2> HIDE DEF w
  <2>1. i + 1 \in 2..N /\ i + 1 \in 1..N /\ (i + 1) - 1 = i /\ w[i] \in Segments
    BY <1>1, <1>11
  <2>2. w[i + 1] = w[i] \o m[i + 1]
    BY <1>9, <2>1
  <2> QED BY <1>1, <1>2, <2>1, <2>2
<1>12. T = 1..N
  <2>1. T \in SUBSET (1..N)
    OBVIOUS
  <2> HIDE DEF T, N
  <2> QED BY <1>1, <1>10, <1>11, <2>1, Climb
<1> HIDE DEF w, N
<1> QED BY <1>1, <1>8, <1>12

\* A name ends with its tail.
LEMMA NameType ==
    ASSUME NEW s \in Snapshots
    PROVE  Name(s) \in Segments /\ Last(Name(s)) = TailOf[s]
<1>1. ClassOf[s] \in Seq(Words) /\ TailOf[s] \in Words
  BY NamesAssumption
<1>2. Len(Append(ClassOf[s], TailOf[s])) = Len(ClassOf[s]) + 1
  BY <1>1
<1> QED BY <1>1, <1>2 DEF Name, Segments, Last

\* The file name of a snapshot: longer than its name, with the same tail.
LEMMA FileNameType ==
    ASSUME NEW s \in Snapshots
    PROVE  /\ FlatKey(s) \in Paths /\ Len(FlatKey(s)) = 1
           /\ FlatKey(s)[1] \in Segments
           /\ Last(FlatKey(s)[1]) = TailOf[s]
           /\ Len(FlatKey(s)[1]) > Len(Name(s))
           /\ IsStrictPrefix(Dotted(ModuleOf[s]), FlatKey(s)[1])
<1> DEFINE d == Dotted(ModuleOf[s])
           n == Name(s)
<1>1. d \in Seq(Words) /\ d # <<>>
  BY NamesAssumption, DottedType DEF Segments
<1>2. n \in Seq(Words) /\ n # <<>> /\ Last(n) = TailOf[s]
  BY NameType DEF Segments
<1>3. FlatKey(s) = <<d \o n>>
  BY DEF FlatKey
<1> HIDE DEF d, n
<1>4. d \o n \in Seq(Words) /\ IsStrictPrefix(d, d \o n) /\ Last(d \o n) = Last(n)
  BY <1>1, <1>2, ConcatIsBelow
<1>5. Len(d \o n) > Len(n) /\ Len(d \o n) > 0
  BY <1>1, <1>2
<1>6. d \o n \in Segments
  BY <1>4, <1>5 DEF Segments
<1> QED BY <1>2, <1>3, <1>4, <1>5, <1>6 DEF Paths, d, n

\* The key of a snapshot on a remote: its module's path, then its name.
LEMMA RemoteKeyType ==
    ASSUME NEW s \in Snapshots
    PROVE  /\ RemoteKey(s) \in Paths
           /\ Len(RemoteKey(s)) = Len(ModuleOf[s]) + 1
           /\ Last(RemoteKey(s)) = Name(s)
           /\ \A i \in 1..Len(ModuleOf[s]) : RemoteKey(s)[i] = ModuleOf[s][i]
           /\ IsStrictPrefix(ModuleOf[s], RemoteKey(s))
<1> DEFINE m == ModuleOf[s]
           k == Append(m, Name(s))
<1>1. m \in Seq(Segments) /\ Name(s) \in Segments /\ RemoteKey(s) = k
  BY NamesAssumption, NameType DEF Paths, RemoteKey
<1>2. /\ k \in Seq(Segments) /\ Len(k) = Len(m) + 1 /\ k[Len(m) + 1] = Name(s)
      /\ \A i \in 1..Len(m) : k[i] = m[i]
  BY <1>1
<1>3. Len(m) \in Nat
  BY <1>1
<1> HIDE DEF m, k
<1>4. IsStrictPrefix(m, k)
  BY <1>1, <1>2, <1>3, PrefixAt
<1>5. Last(k) = Name(s)
  BY <1>2 DEF Last
<1> QED BY <1>1, <1>2, <1>4, <1>5 DEF Paths, m, k

\* Every key of a snapshot begins with the prefix its module owns, and goes on.
THEOREM ModuleOwnsKey ==
    ASSUME NEW s \in Snapshots, NEW file \in BOOLEAN
    PROVE  Owns(ModuleOf[s], file, StorageKey(s, file))
<1>1. Head(FlatKey(s)) = FlatKey(s)[1]
  BY FileNameType DEF Paths
<1> QED
  BY <1>1, FileNameType, RemoteKeyType DEF Owns, OwnedPrefix, StorageKey

=============================================================================
