--------------------------- MODULE Stores_proofs ---------------------------
(***************************************************************************)
(* The views of a medium agree on what it holds, for every number of       *)
(* views, media, snapshots and keys, wherever the views are.  The proofs   *)
(* need what normpath makes of a path of any length.                       *)
(***************************************************************************)
EXTENDS Stores, Names_proofs

----------------------------------------------------------------------------
(* posixpath.normpath.                                                     *)

\* Each part of a path leads to a path.
LEMMA WalkType ==
    ASSUME NEW done \in Paths, NEW seg \in Segments
    PROVE  Walk(done, seg) \in Paths
BY DEF Paths, Walk, Front

\* So does its root.
LEMMA RootedType ==
    ASSUME NEW path \in Paths PROVE Rooted(path) \in Paths
BY StoresAssumption DEF Paths, Rooted

\* normpath goes through a path one part after the other.
LEMMA NormPathSteps ==
    ASSUME NEW path \in Paths
    PROVE  \E w \in [0..Len(path) -> Paths] :
              /\ w[0] = Rooted(path)
              /\ \A n \in 1..Len(path) : w[n] = Walk(w[n - 1], path[n])
              /\ NormPath(path) = w[Len(path)]
<1> DEFINE N == Len(path)
           step == [c \in (0..N) \X Paths |->
                       IF c[1] = 0 THEN <<>> ELSE Walk(c[2], path[c[1]])]
           Steps(w) == w = [n \in 0..N |-> IF n = 0 THEN Rooted(path)
                                            ELSE Walk(w[n - 1], path[n])]
<1>1. N \in Nat /\ 0 <= N /\ Rooted(path) \in Paths /\ \A n \in 1..N : path[n] \in Segments
  BY RootedType DEF Paths
<1>2. step \in [(0..N) \X Paths -> Paths]
  <2>1. ASSUME NEW c \in (0..N) \X Paths
        PROVE  (IF c[1] = 0 THEN <<>> ELSE Walk(c[2], path[c[1]])) \in Paths
    <3>1. CASE c[1] = 0
      BY <3>1 DEF Paths
    <3>2. CASE c[1] # 0
      <4>1. c[1] \in 1..N /\ c[2] \in Paths
        BY <1>1, <3>2
      <4> QED BY <1>1, <3>2, <4>1, WalkType
    <3> QED BY <3>1, <3>2
  <2> QED BY <2>1
<1>3. PICK f \in [0..N -> Paths] :
          f = [i \in 0..N |-> IF i = 0 THEN Rooted(path) ELSE step[<<i, f[i - 1]>>]]
  <2> DEFINE root == Rooted(path)
  <2> HIDE DEF step, Steps, N, root
  <2>1. root \in Paths /\ 0 \in Nat
    BY <1>1 DEF root
  <2>2. \E f \in [0..N -> Paths] : Recurses(f, 0, N, root, step)
    BY <1>1, <1>2, <2>1, Recursion
  <2> QED BY <2>2 DEF root, Recurses
<1>4. ASSUME NEW i \in 0..N
      PROVE  f[i] = IF i = 0 THEN Rooted(path) ELSE Walk(f[i - 1], path[i])
  <2>1. CASE i = 0
    BY <1>3, <2>1
  <2>2. CASE i # 0
    <3>1. i - 1 \in 0..N
      BY <1>1, <2>2
    <3>2. <<i, f[i - 1]>> \in (0..N) \X Paths
      BY <3>1
    <3> QED BY <1>3, <2>2, <3>2
  <2> QED BY <2>1, <2>2
<1>5. Steps(f)
  BY <1>3, <1>4
<1> DEFINE w == CHOOSE g : Steps(g)
<1>6. Steps(w)
  <2> HIDE DEF Steps
  <2> QED BY <1>5
<1>7. NormPath(path) = w[N]
  BY DEF NormPath
<1>8. w[0] = Rooted(path) /\ \A n \in 1..N : w[n] = Walk(w[n - 1], path[n])
  <2> HIDE DEF w
  <2> QED BY <1>1, <1>6
<1>9. w \in [0..N -> Paths]
  <2> DEFINE T == {i \in 0..N : w[i] \in Paths}
  <2> HIDE DEF w
  <2>1. 0 \in T
    BY <1>1, <1>8
  <2>2. ASSUME NEW i \in T, i < N PROVE i + 1 \in T
    <3>1. i + 1 \in 1..N /\ (i + 1) - 1 = i /\ w[i] \in Paths
      BY <1>1, <2>2
    <3>2. w[i + 1] = Walk(w[i], path[i + 1])
      BY <1>8, <3>1
    <3> QED BY <1>1, <3>1, <3>2, WalkType
  <2>3. T = 0..N
    <3> HIDE DEF T
    <3>1. T \in SUBSET (0..N)
      BY DEF T
    <3> QED BY <1>1, <2>1, <2>2, <3>1, Climb
  <2> QED BY <1>6, <2>3
<1> QED BY <1>7, <1>8, <1>9
\* Nothing that stands for another part, and the empty part only as the root.
Plain(q) ==
    /\ q \in Paths
    /\ \A i \in 1..Len(q) : q[i] \notin {Here, Up} /\ (q[i] = Blank => i = 1)

\* The same, but that it may begin by going up.
Straight(q) ==
    \A i \in 1..Len(q) :
        /\ q[i] # Here
        /\ q[i] = Blank => i = 1
        /\ q[i] = Up => \A j \in 1..i : q[j] = Up

\* A part added to a path that goes up only at its beginning keeps it so.
LEMMA WalkIsStraight ==
    ASSUME NEW done \in Paths, NEW seg \in Segments, Straight(done)
    PROVE  Straight(Walk(done, seg))
<1>1. CASE seg \in {Blank, Here} \/ (seg = Up /\ done = <<Blank>>)
  BY <1>1 DEF Walk
<1>2. CASE /\ ~(seg \in {Blank, Here} \/ (seg = Up /\ done = <<Blank>>))
           /\ seg = Up /\ done # <<>> /\ Last(done) # Up
  <2>1. Walk(done, seg) = Front(done)
    BY <1>2 DEF Walk
  <2>2. Len(done) \in Nat /\ Len(done) > 0
    BY <1>2 DEF Paths
  <2>3. /\ Len(Walk(done, seg)) = Len(done) - 1
        /\ \A i \in 1..Len(done) - 1 : Walk(done, seg)[i] = done[i]
    BY <1>2, <2>1, FrontAt DEF Paths
  <2> QED BY <2>2, <2>3 DEF Straight
<1>3. CASE /\ ~(seg \in {Blank, Here} \/ (seg = Up /\ done = <<Blank>>))
           /\ ~(seg = Up /\ done # <<>> /\ Last(done) # Up)
  <2> DEFINE q == Append(done, seg)
  <2>1. Walk(done, seg) = q
    BY <1>3 DEF Walk
  <2>2. /\ Len(done) \in Nat /\ Len(q) = Len(done) + 1 /\ q[Len(done) + 1] = seg
        /\ \A i \in 1..Len(done) : q[i] = done[i]
    BY DEF Paths
  <2>3. ASSUME seg = Up PROVE \A j \in 1..Len(done) : done[j] = Up
    <3>1. CASE done = <<>>
      BY <3>1
    <3>2. CASE done # <<>>
      <4>1. Len(done) \in 1..Len(done) /\ done[Len(done)] = Up
        BY <1>3, <2>3, <3>2 DEF Last, Paths
      <4> QED BY <4>1 DEF Straight
    <3> QED BY <3>1, <3>2
  <2> HIDE DEF q
  <2>4. ASSUME NEW i \in 1..Len(q)
        PROVE  /\ q[i] # Here
               /\ q[i] = Blank => i = 1
               /\ q[i] = Up => \A j \in 1..i : q[j] = Up
    <3>1. CASE i \in 1..Len(done)
      <4>1. \A j \in 1..i : j \in 1..Len(done)
        BY <2>2, <3>1
      <4> QED BY <2>2, <3>1, <4>1 DEF Straight
    <3>2. CASE i = Len(done) + 1
      BY <1>3, <2>2, <2>3, <3>2
    <3> QED BY <2>2, <3>1, <3>2
  <2> QED BY <2>1, <2>4 DEF Straight
<1> QED BY <1>1, <1>2, <1>3

\* What normpath returns goes up only at its beginning.
LEMMA NormPathIsStraight ==
    ASSUME NEW path \in Paths
    PROVE  NormPath(path) \in Paths /\ Straight(NormPath(path))
<1> DEFINE N == Len(path)
<1>1. PICK w \in [0..N -> Paths] :
          /\ w[0] = Rooted(path)
          /\ \A n \in 1..N : w[n] = Walk(w[n - 1], path[n])
          /\ NormPath(path) = w[N]
  BY NormPathSteps
<1>2. N \in Nat /\ \A n \in 1..N : path[n] \in Segments
  BY DEF Paths
<1> DEFINE T == {n \in 0..N : Straight(w[n])}
<1>3. 0 \in T
  <2>1. Straight(Rooted(path))
    BY StoresAssumption DEF Rooted, Straight
  <2> QED BY <1>1, <1>2, <2>1
<1>4. ASSUME NEW n \in T, n < N PROVE n + 1 \in T
  <2>1. n + 1 \in 1..N /\ (n + 1) - 1 = n /\ w[n] \in Paths /\ Straight(w[n])
    BY <1>1, <1>2, <1>4
  <2> QED BY <1>1, <1>2, <2>1, WalkIsStraight
<1>5. T = 0..N
  <2>1. T \in SUBSET (0..N) /\ 0 \in Nat
    OBVIOUS
  <2> HIDE DEF T, N
  <2> QED BY <1>2, <1>3, <1>4, <2>1, Climb
<1> QED BY <1>1, <1>2, <1>5

\* Where the parts of a path that was walked up to n come from.
From(q, path, n) ==
    Len(q) <= n /\ \A i \in 1..Len(q) : \E j \in i..n : q[i] = path[j]

\* The parts of what normpath returns are parts of its argument that stood as
\* far from the root, or further.
LEMMA NormPathIsFrom ==
    ASSUME NEW path \in Paths, path # <<>>
    PROVE  From(NormPath(path), path, Len(path))
<1> DEFINE N == Len(path)
<1>1. PICK w \in [0..N -> Paths] :
          /\ w[0] = Rooted(path)
          /\ \A n \in 1..N : w[n] = Walk(w[n - 1], path[n])
          /\ NormPath(path) = w[N]
  BY NormPathSteps
<1>2. N \in Nat /\ 1 <= N /\ \A n \in 1..N : path[n] \in Segments
  BY DEF Paths
<1> DEFINE T == {n \in 1..N : From(w[n], path, n)}
<1>3. 1 \in T
  <2>1. w[1] = Walk(Rooted(path), path[1])
    BY <1>1, <1>2
  <2>2. CASE path[1] = Blank
    <3>1. Rooted(path) = <<path[1]>>
      BY <1>2, <2>2 DEF Rooted, Paths
    <3>2. w[1] = <<path[1]>>
      BY <2>1, <2>2, <3>1 DEF Walk
    <3>3. From(<<path[1]>>, path, 1)
      BY DEF From
    <3> QED BY <1>2, <3>2, <3>3
  <2>3. CASE path[1] # Blank
    <3>1. Rooted(path) = <<>>
      BY <1>2, <2>3 DEF Rooted, Paths
    <3>2. w[1] \in {<<>>, <<path[1]>>}
      BY <2>1, <3>1, <1>2 DEF Walk
    <3>3. From(<<>>, path, 1)
      BY DEF From
    <3>4. From(<<path[1]>>, path, 1)
      BY DEF From
    <3> QED BY <1>2, <3>2, <3>3, <3>4
  <2> QED BY <2>2, <2>3
<1>4. ASSUME NEW n \in T, n < N PROVE n + 1 \in T
  <2> DEFINE done == w[n]
             seg == path[n + 1]
  <2>1. n + 1 \in 1..N /\ n \in Nat /\ w[n + 1] = Walk(done, seg)
    <3>1. n + 1 \in 1..N /\ (n + 1) - 1 = n
      BY <1>2, <1>4
    <3> QED BY <1>1, <3>1
  <2>2. /\ done \in Paths /\ Len(done) \in Nat /\ Len(done) <= n
        /\ \A i \in 1..Len(done) : \E j \in i..n : done[i] = path[j]
    BY <1>1, <1>2, <1>4 DEF From, Paths
  <2>3. \A i \in 1..Len(done) : \E j \in i..(n + 1) : done[i] = path[j]
    BY <2>1, <2>2
  <2>4. CASE Walk(done, seg) = done
    <3> HIDE DEF done, seg
    <3> QED BY <2>1, <2>2, <2>3, <2>4 DEF From
  <2>5. CASE done # <<>> /\ Walk(done, seg) = Front(done)
    <3>1. Len(done) > 0
      BY <2>2, <2>5 DEF Paths
    <3>2. /\ Len(Front(done)) = Len(done) - 1
          /\ \A i \in 1..Len(done) - 1 : Front(done)[i] = done[i]
      BY <2>2, <2>5, FrontAt DEF Paths
    <3> HIDE DEF done, seg
    <3>3. From(Walk(done, seg), path, n + 1)
      BY <2>1, <2>2, <2>3, <2>5, <3>1, <3>2 DEF From
    <3> QED BY <2>1, <3>3
  <2>6. CASE Walk(done, seg) = Append(done, seg)
    <3> DEFINE q == Append(done, seg)
    <3>1. /\ Len(q) = Len(done) + 1 /\ q[Len(done) + 1] = seg
          /\ \A i \in 1..Len(done) : q[i] = done[i]
      BY <2>2 DEF Paths
    <3>2. n + 1 \in (Len(done) + 1)..(n + 1)
      BY <2>1, <2>2
    <3> HIDE DEF q, done
    <3>3. ASSUME NEW i \in 1..Len(q) PROVE \E j \in i..(n + 1) : q[i] = path[j]
      <4>1. CASE i \in 1..Len(done)
        BY <2>3, <3>1, <4>1
      <4>2. CASE i = Len(done) + 1
        BY <3>1, <3>2, <4>2
      <4> QED BY <2>2, <3>1, <4>1, <4>2
    <3>4. Len(q) <= n + 1
      BY <2>1, <2>2, <3>1
    <3>5. From(q, path, n + 1)
      BY <3>3, <3>4 DEF From
    <3> QED BY <2>1, <2>6, <3>5 DEF q
  <2> QED BY <2>4, <2>5, <2>6 DEF Walk
<1>5. T = 1..N
  <2>1. T \in SUBSET (1..N) /\ 1 \in Nat
    OBVIOUS
  <2> HIDE DEF T, N
  <2> QED BY <1>2, <1>3, <1>4, <2>1, Climb
<1> QED BY <1>1, <1>2, <1>5

\* A plain path is what normpath makes of it.
LEMMA NormPathKeepsPlain ==
    ASSUME NEW path, Plain(path), path # <<>>
    PROVE  NormPath(path) = path
<1> DEFINE N == Len(path)
           Copies(q, n) == Len(q) = n /\ \A i \in 1..n : q[i] = path[i]
<1>0. path \in Paths
  BY DEF Plain
<1>1. PICK w \in [0..N -> Paths] :
          /\ w[0] = Rooted(path)
          /\ \A n \in 1..N : w[n] = Walk(w[n - 1], path[n])
          /\ NormPath(path) = w[N]
  BY <1>0, NormPathSteps
<1>2. N \in Nat /\ 1 <= N /\ \A n \in 1..N : path[n] \in Segments
  BY <1>0 DEF Paths
<1> DEFINE T == {n \in 1..N : Copies(w[n], n)}
<1>3. 1 \in T
  <2>1. w[1] = Walk(Rooted(path), path[1])
    BY <1>1, <1>2
  <2>2. path[1] \notin {Here, Up}
    BY <1>2 DEF Plain
  <2>3. CASE path[1] = Blank
    <3>1. Rooted(path) = <<path[1]>>
      BY <1>0, <1>2, <2>3 DEF Rooted, Paths
    <3>2. w[1] = <<path[1]>>
      BY <2>1, <2>3, <3>1 DEF Walk
    <3> QED BY <1>2, <3>2
  <2>4. CASE path[1] # Blank
    <3>1. Rooted(path) = <<>>
      BY <1>0, <1>2, <2>4 DEF Rooted, Paths
    <3>2. w[1] = <<path[1]>>
      BY <2>1, <2>2, <2>4, <3>1 DEF Walk
    <3> QED BY <1>2, <3>2
  <2> QED BY <2>3, <2>4
<1>4. ASSUME NEW n \in T, n < N PROVE n + 1 \in T
  <2> DEFINE done == w[n]
             seg == path[n + 1]
             q == Append(done, seg)
  <2>1. n + 1 \in 1..N /\ n \in Nat /\ n + 1 # 1 /\ w[n + 1] = Walk(done, seg)
    <3>1. n + 1 \in 1..N /\ (n + 1) - 1 = n
      BY <1>2, <1>4
    <3> QED BY <1>1, <1>4, <3>1
  <2>2. done \in Paths /\ Copies(done, n)
    BY <1>1, <1>2, <1>4
  <2>3. seg \notin {Blank, Here, Up}
    BY <2>1 DEF Plain
  <2>4. w[n + 1] = q
    BY <2>1, <2>3 DEF Walk
  <2>5. /\ Len(q) = n + 1 /\ q[n + 1] = seg
        /\ \A i \in 1..n : q[i] = path[i]
    BY <2>2 DEF Paths
  <2> HIDE DEF q
  <2>6. Copies(q, n + 1)
    BY <2>1, <2>5
  <2> QED BY <2>1, <2>4, <2>6
<1>5. T = 1..N
  <2>1. T \in SUBSET (1..N) /\ 1 \in Nat
    OBVIOUS
  <2> HIDE DEF T, N
  <2> QED BY <1>2, <1>3, <1>4, <2>1, Climb
<1>6. N \in T /\ w[N] \in Paths
  BY <1>1, <1>2, <1>5
<1>7. w[N] \in Seq(Segments) /\ Len(w[N]) = Len(path) /\ \A i \in 1..Len(w[N]) : w[N][i] = path[i]
  BY <1>6 DEF Paths
<1> DEFINE r == w[N]
<1> HIDE DEF r
<1>8. r = path
  BY <1>0, <1>7, SeqEqual DEF Paths, r
<1> QED BY <1>1, <1>8 DEF r

----------------------------------------------------------------------------
(* Where a key is.                                                         *)

\* A view is a part of a medium, and its root a path, plain where it has to be.
LEMMA ViewType ==
    ASSUME NEW v \in Views
    PROVE  /\ On[v] \in Media
           /\ On[v] \in Local => On[v] \notin Flat
           /\ Base[v] \in Paths /\ Base[v] # <<>>
           /\ On[v] \notin Flat =>
                 /\ Plain(Base[v])
                 /\ \A i \in 1..Len(Base[v]) : Base[v][i] # TempName
<1>1. On[v] \in Media /\ Base[v] \in Paths /\ Base[v] # <<>>
  BY StoresAssumption
<1>2. DOMAIN Base[v] = 1..Len(Base[v])
  BY <1>1 DEF Paths
<1> QED BY <1>1, <1>2, StoresAssumption DEF Plain

\* The key of a snapshot has no part that stands for another.
LEMMA KeyOfType ==
    ASSUME NEW v \in Views, NEW s \in Snapshots
    PROVE  /\ KeyOf[v][s] \in Paths /\ KeyOf[v][s] # <<>>
           /\ \A i \in 1..Len(KeyOf[v][s]) : KeyOf[v][s][i] \notin {Blank, Here, Up, TempName}
           /\ Last(KeyOf[v][s]) = IF v \in FileScheme THEN FlatKey(s)[1] ELSE Name(s)
           /\ KeyOf[v][s] = IF v \in FileScheme THEN FlatKey(s) ELSE RemoteKey(s)
<1>1. KeyOf[v][s] = IF v \in FileScheme THEN FlatKey(s) ELSE RemoteKey(s)
  BY DEF KeyOf, StorageKey
<1>2. \A x \in {Blank, Here, Up, TempName} : Last(x) # TailOf[s]
  BY StoresAssumption
<1>3. CASE v \in FileScheme
  <2>1. Last(FlatKey(s)) = FlatKey(s)[1] /\ FlatKey(s) # <<>>
    BY FileNameType DEF Last
  <2>2. FlatKey(s)[1] \notin {Blank, Here, Up, TempName}
    BY <1>2, FileNameType
  <2>3. \A i \in 1..Len(FlatKey(s)) : FlatKey(s)[i] \notin {Blank, Here, Up, TempName}
    BY <2>2, FileNameType
  <2> QED BY <1>1, <1>3, <2>1, <2>3, FileNameType
<1>4. CASE v \notin FileScheme
  <2> DEFINE m == ModuleOf[s]
  <2>1. m \in Paths /\ \A i \in 1..Len(m) : m[i] \notin {Blank, Here, Up, TempName}
    <3>1. m \in Paths
      BY NamesAssumption
    <3>2. DOMAIN m = 1..Len(m)
      BY <3>1 DEF Paths
    <3> QED BY <3>1, <3>2, StoresAssumption
  <2>2. Name(s) \notin {Blank, Here, Up, TempName}
    BY <1>2, NameType
  <2>3. Len(m) \in Nat /\ Len(RemoteKey(s)) = Len(m) + 1 /\ RemoteKey(s) # <<>>
    BY <2>1, RemoteKeyType DEF Paths
  <2>4. ASSUME NEW i \in 1..Len(RemoteKey(s))
        PROVE  RemoteKey(s)[i] \notin {Blank, Here, Up, TempName}
    <3>1. CASE i \in 1..Len(m)
      BY <2>1, <3>1, RemoteKeyType
    <3>2. CASE i = Len(m) + 1
      BY <2>2, <2>3, <3>2, RemoteKeyType DEF Last
    <3> QED BY <2>3, <3>1, <3>2
  <2> QED BY <1>1, <1>4, <2>3, <2>4, RemoteKeyType
<1> QED BY <1>3, <1>4

\* A key is a path, and none has the name of a temporary file in it.
LEMMA KeysType ==
    ASSUME NEW v \in Views, NEW k \in KeysIn[v]
    PROVE  /\ k \in Paths /\ k # <<>>
           /\ \A i \in 1..Len(k) : k[i] # TempName
<1>1. CASE k \in RawKeys
  <2>1. k \in Paths /\ k # <<>>
    BY <1>1, StoresAssumption
  <2>2. DOMAIN k = 1..Len(k)
    BY <2>1 DEF Paths
  <2> QED BY <1>1, <2>1, <2>2, StoresAssumption
<1>2. CASE \E s \in Snapshots : k = KeyOf[v][s]
  BY <1>2, KeyOfType
<1> QED BY <1>1, <1>2 DEF KeysIn

\* A path that is accepted is below the root, and outside a flat mapping it is
\* plain: what ".." led to is resolved, and nothing is left of it.
LEMMA AtIsBelow ==
    ASSUME NEW v \in Views, NEW k \in Paths, k # <<>>, Accepts(v, k)
    PROVE  /\ At(v, k) \in Paths
           /\ IsStrictPrefix(Base[v], At(v, k))
           /\ On[v] \notin Flat => Plain(At(v, k))
           /\ \A i \in (Len(Base[v]) + 1)..Len(At(v, k)) :
                 \E j \in 1..Len(k) : At(v, k)[i] = k[j]
<1> DEFINE b == Base[v]
           q == b \o k
           p == Candidate(v, k)
<1>1. /\ b \in Paths /\ b # <<>> /\ Len(b) \in Nat /\ Len(b) >= 1
      /\ On[v] \notin Flat => Plain(b)
      /\ q \in Paths /\ q # <<>> /\ Len(q) = Len(b) + Len(k) /\ Len(k) \in Nat
      /\ \A i \in 1..Len(k) : q[Len(b) + i] = k[i]
      /\ IsStrictPrefix(b, q)
  <2>1. b \in Paths /\ b # <<>> /\ (On[v] \notin Flat => Plain(b))
    BY ViewType
  <2>2. q \in Paths /\ IsStrictPrefix(b, q)
    BY <2>1, ConcatIsBelow DEF Paths
  <2>3. Len(q) = Len(b) + Len(k) /\ \A i \in 1..Len(k) : q[Len(b) + i] = k[i]
    BY <2>1 DEF Paths
  <2>4. Len(b) \in Nat /\ Len(b) >= 1 /\ Len(k) \in Nat
    BY <2>1 DEF Paths
  <2>5. q # <<>>
    <3> HIDE DEF q
    <3> QED BY <2>3, <2>4
  <2> QED BY <2>1, <2>2, <2>3, <2>4, <2>5
<1> HIDE DEF q
<1>2. CASE On[v] \in Flat
  <2>1. At(v, k) = q
    BY <1>2, ViewType DEF At, Candidate, q
  <2>2. ASSUME NEW i \in (Len(b) + 1)..Len(q) PROVE \E j \in 1..Len(k) : q[i] = k[j]
    <3>1. i - Len(b) \in 1..Len(k) /\ Len(b) + (i - Len(b)) = i
      BY <1>1
    <3>2. q[Len(b) + (i - Len(b))] = k[i - Len(b)]
      BY <1>1, <3>1
    <3> QED BY <3>1, <3>2
  <2> QED BY <1>1, <1>2, <2>1, <2>2
<1>3. CASE On[v] \notin Flat
  <2>1. p = NormPath(q) /\ IsStrictPrefix(b, p)
    BY <1>3 DEF Candidate, Accepts, q
  <2>2. p \in Paths /\ Straight(p)
    BY <1>1, <2>1, NormPathIsStraight
  <2> HIDE DEF p, b
  <2>3. Len(p) > Len(b) /\ Len(p) \in Nat /\ p[1] = b[1] /\ p # <<>>
    <3>1. Len(b) < Len(p) /\ \A i \in 1..Len(b) : p[i] = b[i]
      BY <1>1, <2>1, <2>2, PrefixAt DEF Paths
    <3> QED BY <1>1, <2>2, <3>1 DEF Paths
  <2>4. Plain(p)
    \* It begins with the root, which does not go up, so no part of it does.
    <3>1. b[1] # Up
      BY <1>1, <1>3 DEF Plain
    <3>2. \A i \in 1..Len(p) : p[i] # Up
      BY <2>2, <2>3, <3>1 DEF Straight
    <3> QED BY <2>2, <3>2 DEF Straight, Plain
  <2>5. At(v, k) = p
    BY <2>3, <2>4, NormPathKeepsPlain DEF At, p
  <2>6. ASSUME NEW i \in (Len(b) + 1)..Len(p) PROVE \E j \in 1..Len(k) : p[i] = k[j]
    <3>1. From(p, q, Len(q))
      BY <1>1, <2>1, NormPathIsFrom
    <3>2. i \in 1..Len(p)
      BY <1>1, <2>3
    <3>3. PICK j \in i..Len(q) : p[i] = q[j]
      BY <3>1, <3>2 DEF From
    <3>4. j - Len(b) \in 1..Len(k) /\ Len(b) + (j - Len(b)) = j
      BY <1>1, <2>3
    <3>5. q[j] = k[j - Len(b)]
      BY <1>1, <3>4
    <3> QED BY <3>3, <3>4, <3>5
  <2> QED BY <2>1, <2>2, <2>4, <2>5, <2>6 DEF b
<1> QED BY <1>2, <1>3

\* A plain path below the root is where its own key is.
LEMMA PlainIsAt ==
    ASSUME NEW v \in Views, NEW p \in Paths, IsStrictPrefix(Base[v], p),
           On[v] \notin Flat => Plain(p),
           NEW k \in Paths, k # <<>>, Base[v] \o k = p
    PROVE  Accepts(v, k) /\ At(v, k) = p
<1>1. CASE On[v] \in Flat
  BY <1>1, ViewType DEF Accepts, At, Candidate
<1>2. CASE On[v] \notin Flat
  <2> DEFINE b == Base[v]
  <2>1. b \in Paths /\ Len(b) \in Nat /\ Len(b) >= 1 /\ Len(k) \in Nat /\ Len(k) >= 1
    BY ViewType DEF Paths
  <2>2. Len(p) = Len(b) + Len(k) /\ p[Len(b) + 1] = Head(k) /\ p # <<>>
    BY <2>1 DEF Paths
  <2> HIDE DEF b
  <2>3. Len(b) + 1 \in 1..Len(p) /\ Len(b) + 1 # 1
    BY <2>1, <2>2
  <2>4. Head(k) # Blank
    BY <1>2, <2>2, <2>3 DEF Plain
  <2>5. NormPath(p) = p
    BY <1>2, <2>2, NormPathKeepsPlain
  <2>6. Candidate(v, k) = p
    BY <1>2, <2>5 DEF Candidate
  <2> QED BY <2>4, <2>5, <2>6 DEF Accepts, At
<1> QED BY <1>1, <1>2

\* The key of a snapshot is accepted, and stands for nothing but itself.
LEMMA KeyOfAt ==
    ASSUME NEW v \in Views, NEW s \in Snapshots
    PROVE  /\ Accepts(v, KeyOf[v][s])
           /\ At(v, KeyOf[v][s]) = Base[v] \o KeyOf[v][s]
           /\ Last(At(v, KeyOf[v][s])) = Last(KeyOf[v][s])
<1> DEFINE b == Base[v]
           k == KeyOf[v][s]
           p == b \o k
<1>1. /\ b \in Paths /\ (On[v] \notin Flat => Plain(b))
      /\ k \in Paths /\ k # <<>>
      /\ \A i \in 1..Len(k) : k[i] \notin {Blank, Here, Up}
  BY ViewType, KeyOfType
<1> HIDE DEF b, k
<1>2. p \in Paths /\ IsStrictPrefix(b, p) /\ Last(p) = Last(k)
  BY <1>1, ConcatIsBelow DEF Paths
<1>3. ASSUME On[v] \notin Flat PROVE Plain(p)
  <2>1. /\ Len(p) = Len(b) + Len(k) /\ Len(b) \in Nat /\ Len(k) \in Nat
        /\ \A i \in 1..Len(b) : p[i] = b[i]
        /\ \A i \in 1..Len(k) : p[Len(b) + i] = k[i]
    BY <1>1 DEF Paths
  <2> HIDE DEF p
  <2>2. ASSUME NEW i \in 1..Len(p) PROVE p[i] \notin {Here, Up} /\ (p[i] = Blank => i = 1)
    <3>1. CASE i \in 1..Len(b)
      BY <1>1, <1>3, <2>1, <3>1 DEF Plain
    <3>2. CASE i \notin 1..Len(b)
      <4>1. i - Len(b) \in 1..Len(k) /\ Len(b) + (i - Len(b)) = i
        BY <2>1, <3>2
      <4> QED BY <1>1, <2>1, <4>1
    <3> QED BY <3>1, <3>2
  <2> QED BY <1>2, <2>2 DEF Plain
<1> HIDE DEF p
<1>4. Accepts(v, k) /\ At(v, k) = p
  BY <1>1, <1>2, <1>3, PlainIsAt DEF b, p
<1> QED BY <1>2, <1>4 DEF b, k, p

----------------------------------------------------------------------------
(* The inductive invariant.                                                *)

\* What a path of a file system or an object store is: nothing in it stands
\* for another part, so that looking it up by its own key leads back to it.
StoredIsPlain ==
    \A m \in Media \ Flat : \A p \in DOMAIN kept[m] : Plain(p)

\* What is not whole is a temporary file of a local file system.
WholeOrTemp ==
    \A m \in Media : \A p \in DOMAIN kept[m] :
        kept[m][p] \in Values \/ (m \in Local /\ Last(p) = TempName)

\* A directory never has the name of a temporary file.
NoTempDirs ==
    \A m \in Local : \A d \in dirs[m] : \A i \in 1..Len(d) : d[i] # TempName

\* A file with the file name of a snapshot is there only if the name is not
\* refused as too long, whichever view wrote it.
NamesAreShort ==
    \A v \in FileScheme, s \in Snapshots :
        Base[v] \o FlatKey(s) \in DOMAIN BytesOf(v) => Nameable(s)

IInv == StoresTypeOK /\ StoredIsPlain /\ WholeOrTemp /\ NoTempDirs /\ NamesAreShort

\* What a step may add to the medium of v: a whole value, or a temporary file,
\* at a path that is plain and that is no snapshot's with too long a name.
Fits(v, p, x) ==
    /\ p \in Paths
    /\ On[v] \notin Flat => Plain(p)
    /\ x \in Values \/ (x = Partial /\ On[v] \in Local /\ Last(p) = TempName)
    /\ \A w \in FileScheme, s \in Snapshots :
          (On[w] = On[v] /\ Base[w] \o FlatKey(s) = p) => Nameable(s)

\* Where the file of a snapshot is, its file name is last.
LEMMA FilePath ==
    ASSUME NEW w \in FileScheme, NEW s \in Snapshots
    PROVE  /\ w \in Views /\ On[w] \in Local /\ On[w] \notin Flat
           /\ Base[w] \o FlatKey(s) \in Paths
           /\ Last(Base[w] \o FlatKey(s)) = FlatKey(s)[1]
<1>1. w \in Views /\ On[w] \in Local /\ On[w] \notin Flat
  BY StoresAssumption
<1>2. Base[w] \in Paths /\ FlatKey(s) \in Paths /\ FlatKey(s) # <<>>
  BY <1>1, ViewType, FileNameType
<1>3. Last(FlatKey(s)) = FlatKey(s)[1]
  BY FileNameType DEF Last
<1> QED BY <1>1, <1>2, <1>3, ConcatIsBelow DEF Paths

\* A key is written where a snapshot's file is only if it is the key of that
\* snapshot, whose name is not too long.
LEMMA AtFits ==
    ASSUME NEW v \in Views, NEW k \in KeysIn[v], Accepts(v, k), NEW x \in Values
    PROVE  Fits(v, At(v, k), x)
<1> DEFINE p == At(v, k)
<1>1. k \in Paths /\ k # <<>>
  BY KeysType
<1>2. /\ p \in Paths /\ IsStrictPrefix(Base[v], p)
      /\ On[v] \notin Flat => Plain(p)
      /\ \A i \in (Len(Base[v]) + 1)..Len(p) : \E j \in 1..Len(k) : p[i] = k[j]
  BY <1>1, AtIsBelow
<1>3. ASSUME NEW w \in FileScheme, NEW s \in Snapshots,
             On[w] = On[v], Base[w] \o FlatKey(s) = p
      PROVE  Nameable(s)
  <2>1. Last(p) = FlatKey(s)[1] /\ Last(FlatKey(s)[1]) = TailOf[s]
    BY <1>3, FilePath, FileNameType
  <2>2. CASE k \in RawKeys
    <3>1. Len(p) \in (Len(Base[v]) + 1)..Len(p)
      <4> HIDE DEF p
      <4>1. Base[v] \in Paths
        BY ViewType
      <4>2. Len(Base[v]) < Len(p)
        BY <1>2, <4>1, PrefixAt DEF Paths
      <4> QED BY <1>2, <4>1, <4>2 DEF Paths
    <3>2. PICK j \in 1..Len(k) : Last(p) = k[j]
      BY <1>2, <3>1 DEF Last
    <3>3. <<k[j]>> = FlatKey(s)
      <4>1. FlatKey(s) = <<FlatKey(s)[1]>>
        BY FileNameType DEF Paths
      <4> QED BY <2>1, <3>2, <4>1
    <3>4. DOMAIN k = 1..Len(k)
      BY <1>1 DEF Paths
    <3> QED BY <2>2, <3>3, <3>4, StoresAssumption
  <2>3. ASSUME NEW r \in Snapshots, v \in FileScheme => Nameable(r), k = KeyOf[v][r]
        PROVE  Nameable(s)
    <3>1. Last(p) = IF v \in FileScheme THEN FlatKey(r)[1] ELSE Name(r)
      BY <2>3, KeyOfType, KeyOfAt
    <3>2. TailOf[r] = TailOf[s]
      BY <2>1, <3>1, FileNameType, NameType
    <3>3. r = s
      BY <3>2, NamesAssumption
    <3>4. Len(FlatKey(s)[1]) > Len(Name(s)) /\ Len(Name(s)) \in Nat
      BY FileNameType, NameType DEF Segments
    <3>5. v \in FileScheme
      BY <2>1, <3>1, <3>3, <3>4
    <3> QED BY <2>3, <3>3, <3>5
  <2> QED BY <2>2, <2>3 DEF KeysIn
<1> QED BY <1>2, <1>3 DEF Fits

\* The temporary file of a write, beside its target.
LEMMA TempFits ==
    ASSUME NEW v \in Views, On[v] \in Local, NEW k \in KeysIn[v], Accepts(v, k)
    PROVE  LET p == At(v, k)
               t == Append(Front(p), TempName)
           IN  /\ Fits(v, t, Partial)
               /\ IsStrictPrefix(Base[v], t)
               /\ t # <<>> /\ Last(t) = TempName
               /\ Above(t) = Above(p)
               /\ t \notin Above(p)
<1> DEFINE p == At(v, k)
           b == Base[v]
           t == Append(Front(p), TempName)
<1>1. k \in Paths /\ k # <<>> /\ On[v] \notin Flat
  BY KeysType, ViewType
<1>2. /\ b \in Paths /\ Len(b) \in Nat /\ Len(b) >= 1
      /\ p \in Paths /\ IsStrictPrefix(b, p) /\ Plain(p)
  <2>1. b \in Paths /\ Len(b) \in Nat /\ Len(b) >= 1
    BY ViewType DEF Paths
  <2> QED BY <1>1, <2>1, AtIsBelow
<1> HIDE DEF p, b
<1>3. Len(p) \in Nat /\ Len(p) >= 2 /\ p # <<>>
  <2>1. Len(b) < Len(p) /\ Len(p) \in Nat
    BY <1>2, PrefixAt DEF Paths
  <2> QED BY <1>2, <2>1
<1>4. /\ Front(p) \in Paths /\ Len(Front(p)) = Len(p) - 1
      /\ \A i \in 1..Len(p) - 1 : Front(p)[i] = p[i]
  BY <1>2, <1>3, FrontAt DEF Paths
<1>5. /\ t \in Paths /\ Len(t) = Len(p) /\ t[Len(p)] = TempName
      /\ \A i \in 1..Len(p) - 1 : t[i] = p[i]
  <2>1. TempName \in Segments
    BY StoresAssumption
  <2>2. /\ t \in Paths /\ Len(t) = Len(Front(p)) + 1
        /\ t[Len(Front(p)) + 1] = TempName
        /\ \A i \in 1..Len(Front(p)) : t[i] = Front(p)[i]
    BY <1>4, <2>1 DEF Paths
  <2> HIDE DEF t
  <2> QED BY <1>3, <1>4, <2>2
<1> HIDE DEF t
<1>6. Last(t) = TempName
  BY <1>5 DEF Last
<1>7. Plain(t)
  <2>1. ASSUME NEW i \in 1..Len(t) PROVE t[i] \notin {Here, Up} /\ (t[i] = Blank => i = 1)
    <3>1. CASE i \in 1..Len(p) - 1
      BY <1>2, <1>3, <1>5, <3>1 DEF Plain
    <3>2. CASE i = Len(p)
      BY <1>5, <3>2, StoresAssumption
    <3> QED BY <1>3, <1>5, <3>1, <3>2
  <2> QED BY <1>5, <2>1 DEF Plain
<1>8. ASSUME NEW w \in FileScheme, NEW s \in Snapshots, Base[w] \o FlatKey(s) = t
      PROVE  FALSE
  BY <1>6, <1>8, FilePath, FileNameType, StoresAssumption
<1>9. Above(t) = Above(p)
  <2>1. ASSUME NEW n \in 1..Len(p) - 1 PROVE SubSeq(t, 1, n) = SubSeq(p, 1, n)
    <3>1. n \in 0..Len(p)
      BY <1>3
    <3>2. /\ SubSeq(t, 1, n) \in Seq(Segments) /\ Len(SubSeq(t, 1, n)) = n
          /\ \A i \in 1..n : SubSeq(t, 1, n)[i] = t[i]
      BY <1>5, <3>1, FirstAt DEF Paths
    <3>3. /\ SubSeq(p, 1, n) \in Seq(Segments) /\ Len(SubSeq(p, 1, n)) = n
          /\ \A i \in 1..n : SubSeq(p, 1, n)[i] = p[i]
      BY <1>2, <3>1, FirstAt DEF Paths
    <3>4. \A i \in 1..n : t[i] = p[i]
      BY <1>3, <1>5
    <3> QED BY <3>2, <3>3, <3>4, SeqEqual
  <2> QED BY <1>5, <2>1 DEF Above
<1>10. t \notin Above(p)
  <2>1. ASSUME NEW n \in 1..Len(p) - 1 PROVE SubSeq(p, 1, n) # t
    <3>1. n \in 0..Len(p) /\ n # Len(p)
      BY <1>3
    <3>2. Len(SubSeq(p, 1, n)) = n
      BY <1>2, <3>1, FirstAt DEF Paths
    <3> QED BY <1>5, <3>1, <3>2
  <2> QED BY <2>1 DEF Above
<1>11. Fits(v, t, Partial)
  BY <1>1, <1>5, <1>6, <1>7, <1>8 DEF Fits
<1>12. t # <<>>
  BY <1>3, <1>5
<1>13. IsStrictPrefix(b, t)
  <2>1. Len(b) < Len(p) /\ \A i \in 1..Len(b) : p[i] = b[i]
    BY <1>2, PrefixAt DEF Paths
  <2>2. Len(b) < Len(t) /\ \A i \in 1..Len(b) : t[i] = b[i]
    BY <1>2, <1>3, <1>5, <2>1
  <2> QED BY <1>2, <1>5, <2>2, PrefixAt DEF Paths
<1> QED BY <1>6, <1>9, <1>10, <1>11, <1>12, <1>13 DEF p, t, b

\* The directories above a path, and those above them.
LEMMA AboveType ==
    ASSUME NEW p \in Paths
    PROVE  /\ p \notin Above(p)
           /\ \A q \in Above(p) :
                 /\ q \in Paths /\ Above(q) \subseteq Above(p)
                 /\ \A i \in 1..Len(q) : \E j \in 1..Len(p) : q[i] = p[j]
<1>1. ASSUME NEW n \in 1..Len(p) - 1
      PROVE  LET q == SubSeq(p, 1, n)
             IN  /\ q \in Paths /\ q # p /\ Above(q) \subseteq Above(p)
                 /\ \A i \in 1..Len(q) : \E j \in 1..Len(p) : q[i] = p[j]
  <2> DEFINE q == SubSeq(p, 1, n)
  <2>1. Len(p) \in Nat /\ n \in 0..Len(p) /\ n # Len(p)
    BY DEF Paths
  <2>2. q \in Paths /\ Len(q) = n /\ \A i \in 1..n : q[i] = p[i]
    BY <2>1, FirstAt DEF Paths
  <2>3. q # p
    BY <2>1, <2>2
  <2>4. ASSUME NEW l \in 1..n - 1 PROVE SubSeq(q, 1, l) = SubSeq(p, 1, l)
    <3>1. l \in 0..Len(p) /\ l \in 0..Len(q) /\ \A i \in 1..l : i \in 1..n
      BY <2>1, <2>2
    <3>2. /\ SubSeq(p, 1, l) \in Seq(Segments) /\ Len(SubSeq(p, 1, l)) = l
          /\ \A i \in 1..l : SubSeq(p, 1, l)[i] = p[i]
      BY <3>1, FirstAt DEF Paths
    <3> HIDE DEF q
    <3>3. /\ SubSeq(q, 1, l) \in Seq(Segments) /\ Len(SubSeq(q, 1, l)) = l
          /\ \A i \in 1..l : SubSeq(q, 1, l)[i] = q[i]
      BY <2>2, <3>1, FirstAt DEF Paths
    <3>4. \A i \in 1..l : q[i] = p[i]
      BY <2>2, <3>1
    <3> QED BY <3>2, <3>3, <3>4, SeqEqual
  <2>5. Above(q) \subseteq Above(p)
    <3>1. 1..n - 1 \subseteq 1..Len(p) - 1
      BY <2>1
    <3> HIDE DEF q
    <3> QED BY <2>2, <2>4, <3>1 DEF Above
  <2>6. \A i \in 1..Len(q) : i \in 1..Len(p) /\ q[i] = p[i]
    <3> HIDE DEF q
    <3> QED BY <2>1, <2>2
  <2> QED BY <2>2, <2>3, <2>5, <2>6
<1> QED BY <1>1 DEF Above

\* The directories a write makes: the medium is still a tree.
LEMMA DirsGrow ==
    ASSUME IInv, NEW v \in Views, NEW k \in KeysIn[v], Accepts(v, k), MakeDirs(v, k)
    PROVE  /\ DOMAIN dirs' = Media
           /\ \A m \in Media : dirs'[m] \subseteq Paths /\ dirs[m] \subseteq dirs'[m]
           /\ \A m \in Local :
                 /\ \A d \in dirs'[m] : Above(d) \subseteq dirs'[m]
                 /\ DOMAIN kept[m] \cap dirs'[m] = {}
           /\ NoTempDirs'
           /\ On[v] \in Local =>
                 dirs'[On[v]] = dirs[On[v]] \cup Above(At(v, k))
<1> DEFINE n == On[v]
           b == Base[v]
           p == At(v, k)
<1>1. /\ n \in Media /\ b \in Paths /\ k \in Paths /\ k # <<>>
      /\ n \notin Flat => \A i \in 1..Len(b) : b[i] # TempName
      /\ \A i \in 1..Len(k) : k[i] # TempName
  BY ViewType, KeysType
<1>2. /\ p \in Paths /\ IsStrictPrefix(b, p)
      /\ \A i \in (Len(b) + 1)..Len(p) : \E j \in 1..Len(k) : p[i] = k[j]
  BY <1>1, AtIsBelow
<1> HIDE DEF p, b
<1>3. ASSUME n \notin Flat PROVE \A i \in 1..Len(p) : p[i] # TempName
  <2>1. Len(b) \in Nat /\ Len(p) \in Nat /\ \A i \in 1..Len(b) : p[i] = b[i]
    BY <1>1, <1>2, PrefixAt DEF Paths
  <2>2. ASSUME NEW i \in 1..Len(p) PROVE p[i] # TempName
    <3>1. CASE i \in 1..Len(b)
      BY <1>1, <1>3, <2>1, <3>1
    <3>2. CASE i \in (Len(b) + 1)..Len(p)
      BY <1>1, <1>2, <3>2
    <3> QED BY <2>1, <3>1, <3>2
  <2> QED BY <2>2
<1>4. \A q \in Above(p) :
          /\ q \in Paths /\ Above(q) \subseteq Above(p)
          /\ n \notin Flat => \A i \in 1..Len(q) : q[i] # TempName
  BY <1>2, <1>3, AboveType
<1>5. CASE n \in Local
  <2>1. /\ Above(p) \cap DOMAIN kept[n] = {}
        /\ dirs' = [dirs EXCEPT ![n] = dirs[n] \cup Above(p)]
    BY <1>5 DEF MakeDirs, BytesOf, p
  <2>2. DOMAIN dirs = Media
    BY DEF IInv, StoresTypeOK
  <2>3. /\ DOMAIN dirs' = Media /\ dirs'[n] = dirs[n] \cup Above(p)
        /\ \A m \in Media \ {n} : dirs'[m] = dirs[m]
    BY <1>1, <2>1, <2>2
  <2>4. ASSUME NEW m \in Media PROVE dirs'[m] \subseteq Paths /\ dirs[m] \subseteq dirs'[m]
    <3>1. dirs[m] \subseteq Paths
      BY DEF IInv, StoresTypeOK
    <3> QED BY <1>4, <2>3, <3>1
  <2>5. ASSUME NEW m \in Local
        PROVE  /\ \A d \in dirs'[m] : Above(d) \subseteq dirs'[m]
               /\ DOMAIN kept[m] \cap dirs'[m] = {}
               /\ \A d \in dirs'[m] : \A i \in 1..Len(d) : d[i] # TempName
    <3>1. /\ \A d \in dirs[m] : Above(d) \subseteq dirs[m]
          /\ DOMAIN kept[m] \cap dirs[m] = {}
          /\ \A d \in dirs[m] : \A i \in 1..Len(d) : d[i] # TempName
          /\ m \in Media
      BY StoresAssumption DEF IInv, StoresTypeOK, NoTempDirs
    <3>2. CASE m = n
      <4>0. n \notin Flat
        BY <1>5, ViewType
      <4>1. \A d \in Above(p) : Above(d) \subseteq dirs'[n]
        BY <1>4, <2>3
      <4> QED BY <1>4, <2>1, <2>3, <3>1, <3>2, <4>0, <4>1
    <3>3. CASE m # n
      BY <2>3, <3>1, <3>3
    <3> QED BY <3>2, <3>3
  <2> QED BY <2>3, <2>4, <2>5 DEF NoTempDirs, p
<1>6. CASE n \notin Local
  <2>1. dirs' = dirs
    BY <1>6 DEF MakeDirs
  <2>2. \A m \in Local : m \in Media
    BY StoresAssumption
  <2> QED BY <1>6, <2>1, <2>2 DEF IInv, StoresTypeOK, NoTempDirs
<1> QED BY <1>5, <1>6

\* A step keeps the invariant that leaves other media alone and keeps, removes
\* or adds what fits its own, where a local file system has a place for it.
LEMMA StepKeeps ==
    ASSUME IInv, NEW v \in Views,
           DOMAIN kept' = Media,
           \A m \in Media \ {On[v]} : kept'[m] = kept[m],
           \A p \in DOMAIN kept'[On[v]] :
              \/ p \in DOMAIN kept[On[v]] /\ kept'[On[v]][p] = kept[On[v]][p]
              \/ /\ Fits(v, p, kept'[On[v]][p])
                 /\ On[v] \in Local =>
                       Above(p) \subseteq dirs'[On[v]] /\ p \notin dirs'[On[v]],
           DOMAIN dirs' = Media,
           \A m \in Media : dirs'[m] \subseteq Paths /\ dirs[m] \subseteq dirs'[m],
           \A m \in Local :
              /\ \A d \in dirs'[m] : Above(d) \subseteq dirs'[m]
              /\ DOMAIN kept[m] \cap dirs'[m] = {},
           NoTempDirs'
    PROVE  IInv'
<1> DEFINE n == On[v]
<1>1. n \in Media /\ Local \subseteq Media
  BY ViewType, StoresAssumption
<1>2. ASSUME NEW m \in Media, NEW p \in DOMAIN kept'[m]
      PROVE  \/ p \in DOMAIN kept[m] /\ kept'[m][p] = kept[m][p]
             \/ /\ m = n /\ Fits(v, p, kept'[m][p])
                /\ m \in Local => Above(p) \subseteq dirs'[m] /\ p \notin dirs'[m]
  BY <1>1, <1>2
<1>3. ASSUME NEW m \in Media, NEW p \in DOMAIN kept'[m]
      PROVE  /\ p \in Paths /\ kept'[m][p] \in Values \cup {Partial}
             /\ m \notin Flat => Plain(p)
             /\ kept'[m][p] \in Values \/ (m \in Local /\ Last(p) = TempName)
  <2>1. CASE p \in DOMAIN kept[m] /\ kept'[m][p] = kept[m][p]
    BY <2>1 DEF IInv, StoresTypeOK, StoredIsPlain, WholeOrTemp
  <2>2. CASE m = n /\ Fits(v, p, kept'[m][p])
    BY <2>2 DEF Fits
  <2> QED BY <1>2, <1>3, <2>1, <2>2
<1>4. ASSUME NEW m \in Local, NEW p \in DOMAIN kept'[m]
      PROVE  Above(p) \subseteq dirs'[m] /\ p \notin dirs'[m]
  <2>1. m \in Media /\ dirs[m] \subseteq dirs'[m]
    BY <1>1
  <2>2. CASE p \in DOMAIN kept[m]
    <3>1. Above(p) \subseteq dirs[m]
      BY <2>2 DEF IInv, StoresTypeOK
    <3> QED BY <2>1, <2>2, <3>1
  <2> QED BY <1>2, <1>4, <2>1, <2>2
<1>5. StoresTypeOK'
  BY <1>1, <1>3, <1>4 DEF StoresTypeOK
<1>6. StoredIsPlain' /\ WholeOrTemp'
  BY <1>3 DEF StoredIsPlain, WholeOrTemp
<1>7. ASSUME NEW w \in FileScheme, NEW s \in Snapshots,
             Base[w] \o FlatKey(s) \in DOMAIN kept'[On[w]]
      PROVE  Nameable(s)
  <2> DEFINE p == Base[w] \o FlatKey(s)
  <2>1. On[w] \in Media
    BY FilePath, ViewType
  <2>2. CASE p \in DOMAIN kept[On[w]]
    BY <2>2 DEF IInv, NamesAreShort, BytesOf
  <2>3. CASE On[w] = n /\ Fits(v, p, kept'[On[w]][p])
    BY <2>3 DEF Fits
  <2> QED BY <1>2, <1>7, <2>1, <2>2, <2>3
<1>8. NamesAreShort'
  BY <1>7 DEF NamesAreShort, BytesOf
<1> QED BY <1>5, <1>6, <1>8 DEF IInv

----------------------------------------------------------------------------
(* What a step changes.                                                    *)

\* Nothing of what is stored changes but what the medium of v has at p.
Touches(v, p) ==
    /\ DOMAIN kept' = Media
    /\ \A m \in Media \ {On[v]} : kept'[m] = kept[m]
    /\ DOMAIN kept'[On[v]] \ {p} = DOMAIN kept[On[v]] \ {p}
    /\ \A q \in DOMAIN kept[On[v]] \ {p} : kept'[On[v]][q] = kept[On[v]][q]

\* The temporary file of a write.
Temp(v, k) == Append(Front(At(v, k)), TempName)

\* A step that sets, replaces or deletes a key, or leaves a temporary file.
Changes(v, k) ==
    \/ /\ Touches(v, At(v, k))
       /\ At(v, k) \in DOMAIN kept'[On[v]] =>
             /\ kept'[On[v]][At(v, k)] \in Values
             /\ At(v, k) \notin dirs[On[v]]
    \/ /\ Touches(v, Temp(v, k))
       /\ On[v] \in Local
       /\ kept'[On[v]][Temp(v, k)] = Partial

\* A value that is put at a path is there, and nothing else is changed.
LEMMA PutTouches ==
    ASSUME StoresTypeOK, NEW v \in Views, NEW p, NEW x,
           kept' = [kept EXCEPT ![On[v]] = With(@, p, x)]
    PROVE  Touches(v, p) /\ p \in DOMAIN kept'[On[v]] /\ kept'[On[v]][p] = x
<1>1. On[v] \in DOMAIN kept /\ DOMAIN kept = Media
  BY ViewType DEF StoresTypeOK
<1>2. kept'[On[v]] = With(kept[On[v]], p, x)
  BY <1>1
<1>3. /\ DOMAIN kept'[On[v]] = DOMAIN kept[On[v]] \cup {p}
      /\ kept'[On[v]][p] = x
      /\ \A q \in DOMAIN kept[On[v]] \ {p} : kept'[On[v]][q] = kept[On[v]][q]
  BY <1>2 DEF With
<1>4. DOMAIN kept' = Media /\ \A m \in Media \ {On[v]} : kept'[m] = kept[m]
  BY <1>1
<1> QED BY <1>3, <1>4 DEF Touches

\* Every step is a change by an accepted key, with the directories it needs, or
\* a write that raised.
LEMMA StepChanges ==
    ASSUME StoresTypeOK, NEW v \in Views, ViewStep(v)
    PROVE  \E k \in KeysIn[v] :
              /\ Accepts(v, k)
              /\ \/ MakeDirs(v, k)
                 \/ /\ dirs' = dirs
                    /\ Touches(v, At(v, k)) /\ At(v, k) \notin DOMAIN kept'[On[v]]
              /\ kept' = kept \/ Changes(v, k)
<1>1. PICK k \in KeysIn[v] :
          \/ \E x \in Values : SetItem(v, k, x)
          \/ SetItemDies(v, k)
          \/ SetItemRaises(v, k)
          \/ DelItem(v, k)
  BY DEF ViewStep
<1>2. CASE \E x \in Values : SetItem(v, k, x)
  <2>1. PICK x \in Values : SetItem(v, k, x)
    BY <1>2
  <2>2. /\ Accepts(v, k) /\ MakeDirs(v, k) /\ At(v, k) \notin dirs[On[v]]
        /\ kept' = [kept EXCEPT ![On[v]] = With(@, At(v, k), x)]
    BY <2>1 DEF SetItem
  <2>3. /\ Touches(v, At(v, k)) /\ kept'[On[v]][At(v, k)] = x
    BY <2>2, PutTouches
  <2> QED BY <2>2, <2>3 DEF Changes
<1>3. CASE SetItemDies(v, k)
  <2>1. /\ Accepts(v, k) /\ MakeDirs(v, k) /\ On[v] \in Local
        /\ kept' = [kept EXCEPT ![On[v]] = With(@, Temp(v, k), Partial)]
    BY <1>3 DEF SetItemDies, Temp
  <2>2. /\ Touches(v, Temp(v, k)) /\ kept'[On[v]][Temp(v, k)] = Partial
    BY <2>1, PutTouches
  <2> QED BY <2>1, <2>2 DEF Changes
<1>4. CASE SetItemRaises(v, k)
  BY <1>4 DEF SetItemRaises
<1>5. CASE DelItem(v, k)
  <2> DEFINE p == At(v, k)
  <2>1. /\ Accepts(v, k) /\ dirs' = dirs
        /\ kept' = [kept EXCEPT ![On[v]] = Without(@, {p})]
    BY <1>5 DEF DelItem, Has
  <2>2. On[v] \in DOMAIN kept /\ DOMAIN kept = Media
    BY ViewType DEF StoresTypeOK
  <2> HIDE DEF p
  <2>3. kept'[On[v]] = Without(kept[On[v]], {p})
    BY <2>1, <2>2
  <2>4. /\ DOMAIN kept'[On[v]] = DOMAIN kept[On[v]] \ {p}
        /\ \A q \in DOMAIN kept[On[v]] \ {p} : kept'[On[v]][q] = kept[On[v]][q]
    BY <2>3 DEF Without
  <2>5. DOMAIN kept' = Media /\ \A m \in Media \ {On[v]} : kept'[m] = kept[m]
    BY <2>1, <2>2
  <2>6. Touches(v, p) /\ p \notin DOMAIN kept'[On[v]]
    BY <2>4, <2>5 DEF Touches
  <2> QED BY <2>1, <2>6 DEF Changes, p
<1> QED BY <1>1, <1>2, <1>3, <1>4, <1>5

----------------------------------------------------------------------------
(* The invariant and what follows from it.                                 *)

\* Nothing is stored at first.
LEMMA InitHolds == StoresInit => IInv
<1> SUFFICES ASSUME StoresInit PROVE IInv
  OBVIOUS
<1>1. /\ DOMAIN kept = Media /\ DOMAIN dirs = Media
      /\ \A m \in Media : DOMAIN kept[m] = {} /\ dirs[m] = {}
  BY DEF StoresInit
<1>2. StoresTypeOK
  BY <1>1, StoresAssumption DEF StoresTypeOK
<1>3. NamesAreShort
  <2>1. \A v \in FileScheme : On[v] \in Media
    BY FilePath, StoresAssumption
  <2> QED BY <1>1, <2>1 DEF NamesAreShort, BytesOf
<1> QED
  BY <1>1, <1>2, <1>3, StoresAssumption DEF IInv, StoredIsPlain, WholeOrTemp, NoTempDirs

\* A step of any view keeps it.
LEMMA NextKeeps == IInv /\ [StoresNext]_storesVars => IInv'
<1> SUFFICES ASSUME IInv, [StoresNext]_storesVars PROVE IInv'
  OBVIOUS
<1>1. CASE UNCHANGED storesVars
  BY <1>1 DEF storesVars, IInv, StoresTypeOK, StoredIsPlain, WholeOrTemp, NoTempDirs,
              NamesAreShort, BytesOf
<1>2. ASSUME NEW v \in Views, ViewStep(v) PROVE IInv'
  <2>1. PICK k \in KeysIn[v] :
            /\ Accepts(v, k)
            /\ \/ MakeDirs(v, k)
               \/ /\ dirs' = dirs
                  /\ Touches(v, At(v, k)) /\ At(v, k) \notin DOMAIN kept'[On[v]]
            /\ kept' = kept \/ Changes(v, k)
    BY <1>2, StepChanges DEF IInv
  <2> DEFINE n == On[v]
             p == At(v, k)
             t == Temp(v, k)
  <2>2. /\ n \in Media /\ Local \subseteq Media /\ p \in Paths
        /\ DOMAIN kept = Media /\ DOMAIN dirs = Media
    <3>1. p \in Paths
      BY <2>1, KeysType, AtIsBelow
    <3> QED BY <3>1, ViewType, StoresAssumption DEF IInv, StoresTypeOK
  <2>3. /\ DOMAIN dirs' = Media
        /\ \A m \in Media : dirs'[m] \subseteq Paths /\ dirs[m] \subseteq dirs'[m]
        /\ \A m \in Local :
              /\ \A d \in dirs'[m] : Above(d) \subseteq dirs'[m]
              /\ DOMAIN kept[m] \cap dirs'[m] = {}
        /\ NoTempDirs'
    <3>1. CASE MakeDirs(v, k)
      BY <2>1, <3>1, DirsGrow
    <3>2. CASE dirs' = dirs
      BY <2>2, <3>2 DEF IInv, StoresTypeOK, NoTempDirs
    <3> QED BY <2>1, <3>1, <3>2
  <2>4. ASSUME n \in Local, MakeDirs(v, k)
        PROVE  dirs'[n] = dirs[n] \cup Above(p)
    BY <2>1, <2>4, DirsGrow
  <2>5. /\ DOMAIN kept' = Media
        /\ \A m \in Media \ {n} : kept'[m] = kept[m]
    BY <2>1, <2>2 DEF Changes, Touches
  <2>6. ASSUME NEW q \in DOMAIN kept'[n]
        PROVE  \/ q \in DOMAIN kept[n] /\ kept'[n][q] = kept[n][q]
               \/ /\ Fits(v, q, kept'[n][q])
                  /\ n \in Local => Above(q) \subseteq dirs'[n] /\ q \notin dirs'[n]
    <3>1. CASE kept' = kept
      BY <2>6, <3>1
    <3>2. CASE q # p /\ Touches(v, p)
      BY <2>6, <3>2 DEF Touches
    <3>3. CASE q # t /\ Touches(v, t)
      BY <2>6, <3>3 DEF Touches
    <3>4. CASE q = p /\ kept'[n][p] \in Values /\ p \notin dirs[n] /\ MakeDirs(v, k)
      <4>1. Fits(v, q, kept'[n][q])
        BY <2>1, <3>4, AtFits
      <4>2. ASSUME n \in Local
            PROVE  Above(q) \subseteq dirs'[n] /\ q \notin dirs'[n]
        <5>1. dirs'[n] = dirs[n] \cup Above(p)
          BY <2>4, <3>4, <4>2
        <5>2. p \notin Above(p)
          BY <2>2, AboveType
        <5> QED BY <3>4, <5>1, <5>2
      <4> QED BY <4>1, <4>2
    <3>5. CASE q = t /\ n \in Local /\ kept'[n][t] = Partial /\ MakeDirs(v, k)
      <4>1. /\ Fits(v, t, Partial) /\ Last(t) = TempName
            /\ Above(t) = Above(p) /\ t \notin Above(p) /\ t # <<>>
        BY <2>1, <3>5, TempFits DEF Temp
      <4>2. dirs'[n] = dirs[n] \cup Above(p)
        BY <2>4, <3>5
      <4>3. t \notin dirs[n]
        <5>1. t \in Paths /\ t # <<>>
          BY <4>1 DEF Fits
        <5> HIDE DEF t, n
        <5>2. Len(t) \in 1..Len(t)
          BY <5>1 DEF Paths
        <5> QED BY <3>5, <4>1, <5>2 DEF IInv, NoTempDirs, Last
      <4> HIDE DEF t, n, p
      <4> QED BY <3>5, <4>1, <4>2, <4>3
    <3>6. CASE ~MakeDirs(v, k)
      BY <2>1, <2>6, <3>6 DEF Touches
    <3> QED BY <2>1, <2>6, <3>1, <3>2, <3>3, <3>4, <3>5, <3>6 DEF Changes
  <2> HIDE DEF n, p, t
  <2> QED BY <2>3, <2>5, <2>6, StepKeeps DEF n
<1> QED BY <1>1, <1>2 DEF StoresNext

\* The inductive invariant holds in every state.
LEMMA Invariant == StoresSpec => []IInv
BY InitHolds, NextKeeps, PTL DEF StoresSpec

\* Every path, value and directory is one, and a local file system is a tree: no
\* file is in the way of a directory, whatever is written, killed or deleted.
THEOREM TypeCorrect == StoresSpec => []StoresTypeOK
<1>1. IInv => StoresTypeOK
  BY DEF IInv
<1> QED BY <1>1, Invariant, PTL

\* What a view lists of the paths D of its medium.
ListingOf(v, D) ==
    {SubSeq(p, Len(Base[v]) + 1, Len(p)) : p \in {q \in D : Lists(v, q)}}

\* A key is listed where the path it makes below the root is.
LEMMA KeyIsListed ==
    ASSUME NEW v \in Views, NEW D \in SUBSET Paths, NEW k
    PROVE  k \in ListingOf(v, D) <=>
              /\ k \in Paths /\ k # <<>>
              /\ Base[v] \o k \in D /\ Lists(v, Base[v] \o k)
<1> DEFINE b == Base[v]
<1>1. b \in Seq(Segments)
  BY ViewType DEF Paths
<1>2. ASSUME k \in ListingOf(v, D)
      PROVE  k \in Paths /\ k # <<>> /\ b \o k \in D /\ Lists(v, b \o k)
  <2>1. PICK p \in D : Lists(v, p) /\ k = SubSeq(p, Len(b) + 1, Len(p))
    BY <1>2 DEF ListingOf
  <2>2. p \in Seq(Segments) /\ IsStrictPrefix(b, p)
    BY <2>1 DEF Lists, Paths
  <2> HIDE DEF b
  <2>3. k \in Seq(Segments) \ {<<>>} /\ b \o k = p
    BY <1>1, <2>1, <2>2, BelowIsConcat
  <2> QED BY <2>1, <2>3 DEF Paths
<1>3. ASSUME k \in Paths, k # <<>>, b \o k \in D, Lists(v, b \o k)
      PROVE  k \in ListingOf(v, D)
  <2>1. SubSeq(b \o k, Len(b) + 1, Len(b \o k)) = k
    BY <1>1, <1>3, ConcatIsBelow DEF Paths
  <2> QED BY <1>3, <2>1 DEF ListingOf
<1> QED BY <1>2, <1>3

\* Listing a store and looking a key up agree: what is listed is accepted as a
\* key, found under it and whole, and what is found of a snapshot is listed.
THEOREM ListingAgreesHolds == StoresSpec => []ListingAgrees
<1>1. ASSUME IInv PROVE ListingAgrees
  <2>1. ASSUME NEW v \in Views
        PROVE  DOMAIN BytesOf(v) \in SUBSET Paths /\ Listing(v) = ListingOf(v, DOMAIN BytesOf(v))
    BY <1>1, ViewType DEF IInv, StoresTypeOK, BytesOf, Listing, ListingOf
  <2>2. ASSUME NEW v \in Views, NEW k \in Listing(v)
        PROVE  Has(v, k) /\ BytesOf(v)[At(v, k)] \in Values
    <3> DEFINE p == Base[v] \o k
    <3>1. k \in Paths /\ k # <<>> /\ p \in DOMAIN BytesOf(v) /\ Lists(v, p)
      BY <2>1, <2>2, KeyIsListed
    <3>2. p \in Paths /\ (On[v] \notin Flat => Plain(p)) /\ IsStrictPrefix(Base[v], p)
      BY <1>1, <2>1, <3>1, ViewType DEF IInv, StoredIsPlain, BytesOf, Lists
    <3> HIDE DEF p
    <3>3. Accepts(v, k) /\ At(v, k) = p
      BY <3>1, <3>2, PlainIsAt DEF p
    <3>4. BytesOf(v)[p] \in Values
      BY <1>1, <3>1, ViewType DEF IInv, WholeOrTemp, BytesOf, Lists
    <3> QED BY <3>1, <3>3, <3>4 DEF Has
  <2>3. ASSUME NEW v \in Views, NEW s \in Snapshots, Has(v, KeyOf[v][s])
        PROVE  KeyOf[v][s] \in Listing(v)
    <3> DEFINE k == KeyOf[v][s]
               p == Base[v] \o k
    <3>1. /\ k \in Paths /\ k # <<>> /\ Last(k) # TempName
      <4>1. k \in Paths /\ k # <<>> /\ \A i \in 1..Len(k) : k[i] # TempName
        BY KeyOfType
      <4> HIDE DEF k
      <4>2. Len(k) \in 1..Len(k)
        BY <4>1 DEF Paths
      <4> QED BY <4>1, <4>2 DEF Last
    <3>2. Accepts(v, k) /\ At(v, k) = p /\ Last(p) = Last(k)
      BY KeyOfAt
    <3>3. p \in DOMAIN BytesOf(v) /\ IsStrictPrefix(Base[v], p)
      BY <2>3, <3>1, <3>2, AtIsBelow DEF Has
    <3> HIDE DEF k, p
    <3>4. Lists(v, p)
      BY <3>1, <3>2, <3>3 DEF Lists
    <3>5. k \in Listing(v)
      BY <2>1, <3>1, <3>3, <3>4, KeyIsListed DEF p
    <3> QED BY <3>5 DEF k
  <2> QED BY <2>2, <2>3 DEF ListingAgrees
<1> QED BY <1>1, Invariant, PTL

\* The name of every snapshot that a file target lists fits, and its label is
\* cut only for want of room, whoever wrote it and under whatever key.
THEOREM NamesFitHolds == StoresSpec => []NamesFit
<1>1. ASSUME IInv PROVE NamesFit
  <2>1. ASSUME NEW v \in FileScheme, NEW s \in Snapshots, KeyOf[v][s] \in Listing(v)
        PROVE  Nameable(s)
    <3>1. v \in Views /\ KeyOf[v][s] = FlatKey(s)
      BY FilePath, KeyOfType
    <3>2. DOMAIN BytesOf(v) \in SUBSET Paths /\ Listing(v) = ListingOf(v, DOMAIN BytesOf(v))
      BY <1>1, <3>1, ViewType DEF IInv, StoresTypeOK, BytesOf, Listing, ListingOf
    <3>3. Base[v] \o FlatKey(s) \in DOMAIN BytesOf(v)
      BY <2>1, <3>1, <3>2, KeyIsListed
    <3> QED BY <1>1, <3>3 DEF IInv, NamesAreShort
  <2> QED BY <2>1, NameableFits, NameableIsFull DEF NamesFit
<1> QED BY <1>1, Invariant, PTL

\* Every snapshot in a store is under a key of its own module.
THEOREM ModulesOwnTheirKeysHolds == StoresSpec => []ModulesOwnTheirKeys
<1>1. ModulesOwnTheirKeys
  <2>1. ASSUME NEW v \in Views, NEW s \in Snapshots
        PROVE  Owns(ModuleOf[s], v \in FileScheme, KeyOf[v][s])
    <3>1. (v \in FileScheme) \in BOOLEAN
      OBVIOUS
    <3>2. KeyOf[v][s] = StorageKey(s, v \in FileScheme)
      BY DEF KeyOf
    <3> QED BY <3>1, <3>2, ModuleOwnsKey
  <2> QED BY <2>1 DEF ModulesOwnTheirKeys
<1> QED BY <1>1, PTL

----------------------------------------------------------------------------
(* What the views see of a step.                                           *)

\* What a view shows of a medium with the bytes f.
ContentsOf(v, f) == [k \in ListingOf(v, DOMAIN f) |-> f[Base[v] \o k]]

\* A view shows what its medium has.
LEMMA ContentsIs ==
    ASSUME NEW v \in Views
    PROVE  /\ Contents(v) = ContentsOf(v, kept[On[v]])
           /\ Contents(v)' = ContentsOf(v, kept'[On[v]])
BY DEF Contents, ContentsOf, Listing, ListingOf, BytesOf

\* What f and g have in common but for the path p.
SameBut(f, g, p) ==
    /\ DOMAIN g \ {p} = DOMAIN f \ {p}
    /\ \A q \in DOMAIN f \ {p} : g[q] = f[q]

\* A view that does not list a path sees nothing of a change to it.
LEMMA Unseen ==
    ASSUME NEW v \in Views, NEW f, NEW g, NEW p,
           DOMAIN f \subseteq Paths, DOMAIN g \subseteq Paths,
           SameBut(f, g, p), ~Lists(v, p)
    PROVE  ContentsOf(v, g) = ContentsOf(v, f)
<1>1. ASSUME NEW k
      PROVE  k \in ListingOf(v, DOMAIN g) <=> k \in ListingOf(v, DOMAIN f)
  <2>1. Lists(v, Base[v] \o k) => (Base[v] \o k \in DOMAIN g <=> Base[v] \o k \in DOMAIN f)
    BY DEF SameBut
  <2> QED BY <2>1, KeyIsListed
<1>2. ASSUME NEW k \in ListingOf(v, DOMAIN f) PROVE g[Base[v] \o k] = f[Base[v] \o k]
  <2>1. Base[v] \o k \in DOMAIN f /\ Lists(v, Base[v] \o k)
    BY <1>2, KeyIsListed
  <2> QED BY <2>1 DEF SameBut
<1> QED BY <1>1, <1>2 DEF ContentsOf

\* What c and d, one of which has the key k, have in common but for it.
OneKey(k, c, d) ==
    /\ k \in DOMAIN c \cup DOMAIN d
    /\ DOMAIN d \ {k} = DOMAIN c \ {k}
    /\ \A j \in DOMAIN c \ {k} : d[j] = c[j]

\* A view that lists a path sees its change as one of a single key.
LEMMA Seen ==
    ASSUME NEW v \in Views, NEW f, NEW g, NEW p \in Paths,
           DOMAIN f \subseteq Paths, DOMAIN g \subseteq Paths,
           SameBut(f, g, p), Lists(v, p), p \in DOMAIN f \cup DOMAIN g
    PROVE  \E k : /\ OneKey(k, ContentsOf(v, f), ContentsOf(v, g))
                  /\ k \in DOMAIN ContentsOf(v, g) =>
                        p \in DOMAIN g /\ ContentsOf(v, g)[k] = g[p]
<1> DEFINE b == Base[v]
           k == SubSeq(p, Len(b) + 1, Len(p))
           c == ContentsOf(v, f)
           d == ContentsOf(v, g)
<1>1. b \in Seq(Segments) /\ p \in Seq(Segments) /\ IsStrictPrefix(b, p)
  BY ViewType DEF Paths, Lists
<1> HIDE DEF b
<1>2. k \in Paths /\ k # <<>> /\ b \o k = p
  BY <1>1, BelowIsConcat DEF Paths
<1>3. /\ DOMAIN c = ListingOf(v, DOMAIN f) /\ DOMAIN d = ListingOf(v, DOMAIN g)
      /\ \A j \in DOMAIN c : c[j] = f[b \o j]
      /\ \A j \in DOMAIN d : d[j] = g[b \o j]
  BY DEF ContentsOf, b
<1>4. ASSUME NEW j \in Paths, j # <<>>, b \o j = p PROVE j = k
  <2>1. SubSeq(b \o j, Len(b) + 1, Len(b \o j)) = j
    BY <1>1, <1>4, ConcatIsBelow DEF Paths
  <2> QED BY <1>4, <2>1
<1> HIDE DEF k, c, d
<1>5. k \in DOMAIN c <=> p \in DOMAIN f
  BY <1>2, <1>3, KeyIsListed DEF b
<1>6. k \in DOMAIN d <=> p \in DOMAIN g
  BY <1>2, <1>3, KeyIsListed DEF b
<1>7. ASSUME NEW j, j # k PROVE j \in DOMAIN d <=> j \in DOMAIN c
  <2>1. j \in DOMAIN c <=>
           j \in Paths /\ j # <<>> /\ b \o j \in DOMAIN f /\ Lists(v, b \o j)
    BY <1>3, KeyIsListed DEF b
  <2>2. j \in DOMAIN d <=>
           j \in Paths /\ j # <<>> /\ b \o j \in DOMAIN g /\ Lists(v, b \o j)
    BY <1>3, KeyIsListed DEF b
  <2> QED BY <1>4, <1>7, <2>1, <2>2 DEF SameBut
<1>8. ASSUME NEW j \in DOMAIN c \ {k} PROVE d[j] = c[j]
  <2>1. j \in Paths /\ j # <<>> /\ b \o j \in DOMAIN f
    BY <1>3, <1>8, KeyIsListed DEF b
  <2>2. b \o j # p /\ j \in DOMAIN d
    BY <1>4, <1>7, <1>8, <2>1
  <2>3. g[b \o j] = f[b \o j]
    BY <2>1, <2>2 DEF SameBut
  <2> QED BY <1>3, <1>8, <2>2, <2>3
<1>9. k \in DOMAIN d => d[k] = g[p]
  BY <1>2, <1>3
<1>10. OneKey(k, c, d)
  BY <1>5, <1>6, <1>7, <1>8 DEF OneKey
<1> QED BY <1>6, <1>9, <1>10 DEF c, d

\* What a step of one view is for another: its medium is another one, or does not
\* change, or changes at one path below the root of the view that stepped, and
\* what is listed there is whole.
LEMMA StepSeen ==
    ASSUME IInv, IInv', NEW v \in Views, ViewStep(v), NEW w \in Views
    PROVE  \/ kept'[On[w]] = kept[On[w]]
           \/ /\ On[w] = On[v]
              /\ \E p \in Paths :
                    /\ IsStrictPrefix(Base[v], p)
                    /\ SameBut(kept[On[w]], kept'[On[w]], p)
                    /\ (Lists(w, p) /\ p \in DOMAIN kept'[On[w]]) =>
                          kept'[On[w]][p] \in Values
<1>1. PICK k \in KeysIn[v] : Accepts(v, k) /\ (kept' = kept \/ Changes(v, k))
  BY StepChanges DEF IInv
<1>2. At(v, k) \in Paths /\ IsStrictPrefix(Base[v], At(v, k))
  BY <1>1, KeysType, AtIsBelow
<1>3. CASE kept' = kept
  BY <1>3
<1>4. CASE Changes(v, k)
  <2>1. ASSUME On[w] # On[v] PROVE kept'[On[w]] = kept[On[w]]
    BY <1>4, <2>1, ViewType DEF Changes, Touches
  <2>2. ASSUME On[w] = On[v], Touches(v, At(v, k)),
               At(v, k) \in DOMAIN kept'[On[v]] => kept'[On[v]][At(v, k)] \in Values
        PROVE  \E p \in Paths :
                    /\ IsStrictPrefix(Base[v], p)
                    /\ SameBut(kept[On[w]], kept'[On[w]], p)
                    /\ (Lists(w, p) /\ p \in DOMAIN kept'[On[w]]) =>
                          kept'[On[w]][p] \in Values
    <3>1. SameBut(kept[On[w]], kept'[On[w]], At(v, k))
      BY <2>2 DEF Touches, SameBut
    <3> QED BY <1>2, <2>2, <3>1
  <2>3. ASSUME On[w] = On[v], Touches(v, Temp(v, k)), On[v] \in Local
        PROVE  \E p \in Paths :
                    /\ IsStrictPrefix(Base[v], p)
                    /\ SameBut(kept[On[w]], kept'[On[w]], p)
                    /\ (Lists(w, p) /\ p \in DOMAIN kept'[On[w]]) =>
                          kept'[On[w]][p] \in Values
    <3>1. /\ Temp(v, k) \in Paths /\ IsStrictPrefix(Base[v], Temp(v, k))
          /\ Last(Temp(v, k)) = TempName
      BY <1>1, <2>3, TempFits DEF Temp, Fits
    <3>2. ~Lists(w, Temp(v, k))
      BY <2>3, <3>1 DEF Lists
    <3>3. SameBut(kept[On[w]], kept'[On[w]], Temp(v, k))
      BY <2>3 DEF Touches, SameBut
    <3> QED BY <3>1, <3>2, <3>3
  <2> QED BY <1>4, <2>1, <2>2, <2>3 DEF Changes
<1> QED BY <1>1, <1>3, <1>4

\* Views of one medium, neither within the other, never see each other's steps.
THEOREM ViewsApartHolds == StoresSpec => ViewsApart
<1>1. ASSUME IInv, IInv'
      PROVE  \A w \in Views :
                \/ Contents(w)' = Contents(w)
                \/ \A v \in Views :
                      ViewStep(v) => On[v] = On[w] /\ Nested(Base[v], Base[w])
  <2> SUFFICES ASSUME NEW w \in Views, NEW v \in Views, ViewStep(v),
                      ~(On[v] = On[w] /\ Nested(Base[v], Base[w]))
               PROVE  Contents(w)' = Contents(w)
    OBVIOUS
  <2>1. CASE kept'[On[w]] = kept[On[w]]
    BY <2>1, ContentsIs
  <2>2. CASE /\ On[w] = On[v]
             /\ \E p \in Paths : /\ IsStrictPrefix(Base[v], p)
                                 /\ SameBut(kept[On[w]], kept'[On[w]], p)
    <3>1. PICK p \in Paths : /\ IsStrictPrefix(Base[v], p)
                             /\ SameBut(kept[On[w]], kept'[On[w]], p)
      BY <2>2
    <3>2. ~Lists(w, p)
      <4>1. Base[v] \in Paths /\ Base[w] \in Paths
        BY ViewType
      <4> QED BY <2>2, <3>1, <4>1, PrefixesNest DEF Lists, Nested, Paths
    <3>3. DOMAIN kept[On[w]] \subseteq Paths /\ DOMAIN kept'[On[w]] \subseteq Paths
      BY <1>1, ViewType DEF IInv, StoresTypeOK
    <3> QED BY <3>1, <3>2, <3>3, Unseen, ContentsIs
  <2> QED BY <1>1, <2>1, <2>2, StepSeen
<1>2. IInv /\ IInv' =>
        [\A w \in Views :
            \/ Contents(w)' = Contents(w)
            \/ \A v \in Views :
                  ViewStep(v) => On[v] = On[w] /\ Nested(Base[v], Base[w])]_storesVars
  BY <1>1
<1> QED BY <1>2, Invariant, PTL DEF ViewsApart

\* Each view is a mapping whose values are whole and which changes one key at a
\* time, whatever other views of its medium do.
THEOREM Implements == StoresSpec => ImplementsMapping
<1> DEFINE c == [v \in Views |-> Contents(v)]
<1>1. StoresInit => Map!Init
  <2> SUFFICES ASSUME StoresInit PROVE Map!Init
    OBVIOUS
  <2>1. ASSUME NEW v \in Views PROVE Contents(v) = [k \in {} |-> {}]
    <3>1. DOMAIN kept[On[v]] = {}
      BY ViewType DEF StoresInit
    <3>2. ListingOf(v, DOMAIN kept[On[v]]) = {}
      BY <3>1 DEF ListingOf
    <3> QED BY <3>2, ContentsIs DEF ContentsOf
  <2> QED BY <2>1 DEF Map!Init
<1>2. ASSUME IInv, IInv', NEW v \in Views, ViewStep(v), NEW w \in Views
      PROVE  \/ c'[w] = c[w]
             \/ \E k \in DOMAIN c[w] \cup DOMAIN c'[w] : Map!Change(w, k)
  <2> DEFINE f == kept[On[w]]
             g == kept'[On[w]]
  <2>1. c[w] = ContentsOf(w, f) /\ c'[w] = ContentsOf(w, g)
    BY ContentsIs
  <2>2. DOMAIN f \subseteq Paths /\ DOMAIN g \subseteq Paths
    BY <1>2, ViewType DEF IInv, StoresTypeOK
  <2>3. CASE g = f
    BY <2>1, <2>3
  <2>4. ASSUME NEW p \in Paths, SameBut(f, g, p),
               (Lists(w, p) /\ p \in DOMAIN g) => g[p] \in Values
        PROVE  \/ c'[w] = c[w]
               \/ \E k \in DOMAIN c[w] \cup DOMAIN c'[w] : Map!Change(w, k)
    <3> HIDE DEF f, g
    <3>1. CASE ~Lists(w, p)
      <4> HIDE DEF c
      <4> QED BY <2>1, <2>2, <2>4, <3>1, Unseen
    <3>2. CASE Lists(w, p) /\ p \notin DOMAIN f \cup DOMAIN g
      <4>1. DOMAIN f = DOMAIN g /\ \A q \in DOMAIN f : g[q] = f[q]
        BY <2>4, <3>2 DEF SameBut
      <4>2. \A k \in ListingOf(w, DOMAIN f) : Base[w] \o k \in DOMAIN f
        BY <2>2, KeyIsListed
      <4>3. ContentsOf(w, g) = ContentsOf(w, f)
        BY <4>1, <4>2 DEF ContentsOf
      <4> QED BY <2>1, <4>3
    <3>3. CASE Lists(w, p) /\ p \in DOMAIN f \cup DOMAIN g
      <4>1. PICK k : /\ OneKey(k, ContentsOf(w, f), ContentsOf(w, g))
                     /\ k \in DOMAIN ContentsOf(w, g) =>
                           p \in DOMAIN g /\ ContentsOf(w, g)[k] = g[p]
        BY <2>2, <2>4, <3>3, Seen
      <4> HIDE DEF c
      <4>2. /\ OneKey(k, c[w], c'[w])
            /\ k \in DOMAIN c'[w] => c'[w][k] \in Values
        BY <2>1, <2>4, <3>3, <4>1
      <4>3. k \in DOMAIN c[w] \cup DOMAIN c'[w] /\ Map!Change(w, k)
        BY <4>2 DEF Map!Change, OneKey, c
      <4> QED BY <4>3
    <3> QED BY <3>1, <3>2, <3>3
  <2> HIDE DEF c
  <2> QED BY <1>2, <2>3, <2>4, StepSeen
<1>3. IInv /\ IInv' /\ [StoresNext]_storesVars => [Map!Next]_c
  <2> SUFFICES ASSUME IInv, IInv', [StoresNext]_storesVars PROVE [Map!Next]_c
    OBVIOUS
  <2>1. CASE UNCHANGED storesVars
    BY <2>1 DEF storesVars, Contents, Listing, BytesOf
  <2>2. CASE StoresNext
    <3>1. PICK v \in Views : ViewStep(v)
      BY <2>2 DEF StoresNext
    <3>2. \A w \in Views :
              \/ c'[w] = c[w]
              \/ \E k \in DOMAIN c[w] \cup DOMAIN c'[w] : Map!Change(w, k)
      BY <1>2, <3>1
    <3> QED BY <3>2 DEF Map!Next
  <2> QED BY <2>1, <2>2
<1> QED BY <1>1, <1>3, Invariant, PTL DEF StoresSpec, ImplementsMapping, Map!Spec

=============================================================================
