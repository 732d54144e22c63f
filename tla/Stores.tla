------------------------------ MODULE Stores ------------------------------
(***************************************************************************)
(* The mappings ditto keeps snapshots in: FsspecMapping, a directory of a  *)
(* local file system or a path of an object store, and PrefixedMapping, a  *)
(* prefix of a flat mapping such as a Redis database.  Each is a view of a *)
(* medium, and several views may share one: targets at different paths of  *)
(* one bucket, a directory within another, prefixes of one database.       *)
(*                                                                         *)
(* Writes to a local file are one step here (see AtomicWrite); one that is *)
(* killed may leave its temporary file.  A prefix is a path, too: the      *)
(* pieces of the string the keys are appended to.                          *)
(***************************************************************************)
EXTENDS Names, FiniteSets

CONSTANTS
    Media,        \* what views share
    Local,        \* the media that are local file systems
    Flat,         \* the media that are flat mappings; the others are object stores
    Views,        \* the mappings in use
    On,           \* [Views -> Media]
    Base,         \* [Views -> Paths]: the root or the prefix
    FileScheme,   \* the views that are file:// targets
    RawKeys,      \* keys from code that uses a view itself; none names a snapshot
    Values,       \* the bytes of snapshots
    Partial,      \* the bytes of a file that was not finished
    Blank, Here, Up,    \* the segments "", "." and ".."
    TempName,     \* the segment write_atomically names its temporary file
    MaxKeys       \* bound: the values stored at a time

\* The roots of directories and buckets are normal: the ones resolve_uri builds
\* are, for every scheme whose file system strips its protocol.  The test files
\* are below pytest's root directory: the path in a node id is relative and
\* normal.  write_atomically's names are random: nothing else has one.
ASSUME StoresAssumption ==
    /\ Local \subseteq Media /\ Flat \subseteq Media /\ Local \cap Flat = {}
    /\ On \in [Views -> Media]
    /\ Base \in [Views -> Paths \ {<<>>}]
    /\ FileScheme \subseteq {v \in Views : On[v] \in Local}
    /\ RawKeys \subseteq Paths \ {<<>>}
    /\ Partial \notin Values
    /\ {Blank, Here, Up, TempName} \subseteq Segments
    /\ Blank # Here /\ Blank # Up /\ Here # Up /\ TempName \notin {Blank, Here, Up}
    /\ \A v \in {w \in Views : On[w] \notin Flat} : \A i \in DOMAIN Base[v] :
          Base[v][i] \notin {Here, Up, TempName} /\ (Base[v][i] = Blank => i = 1)
    /\ \A s \in Snapshots :
          /\ \A i \in DOMAIN ModuleOf[s] : ModuleOf[s][i] \notin {Blank, Here, Up, TempName}
          /\ \A x \in {Blank, Here, Up, TempName} : Last(x) # TailOf[s]
    /\ \A k \in RawKeys : \A i \in DOMAIN k :
          k[i] # TempName /\ \A s \in Snapshots : <<k[i]>> # FlatKey(s)

VARIABLES
    kept,   \* kept[m]: a function from the paths of medium m to their bytes
    dirs      \* dirs[m]: the directories of a local file system

storesVars == <<kept, dirs>>

Above(p) == {SubSeq(p, 1, n) : n \in 1..Len(p) - 1}

\* The types, and that a local file system is a tree: every file is within
\* directories, and nothing is both.
StoresTypeOK ==
    /\ \A m \in Media :
          /\ DOMAIN kept[m] \subseteq Paths
          /\ \A p \in DOMAIN kept[m] : kept[m][p] \in Values \cup {Partial}
          /\ dirs[m] \subseteq Paths
    /\ DOMAIN kept = Media /\ DOMAIN dirs = Media
    /\ \A m \in Local :
          /\ \A p \in DOMAIN kept[m] \cup dirs[m] : Above(p) \subseteq dirs[m]
          /\ DOMAIN kept[m] \cap dirs[m] = {}

StoresInit ==
    /\ kept = [m \in Media |-> <<>>]
    /\ dirs = [m \in Media |-> {}]

----------------------------------------------------------------------------
(* Where a key is.                                                         *)

\* posixpath.normpath: the path, part by part, from the root it may have.
Rooted(path) == IF path # <<>> /\ Head(path) = Blank THEN <<Blank>> ELSE <<>>

Walk(done, seg) ==
    IF seg \in {Blank, Here} \/ (seg = Up /\ done = <<Blank>>) THEN done
    ELSE IF seg = Up /\ done # <<>> /\ Last(done) # Up THEN Front(done)
    ELSE Append(done, seg)

NormPath(path) ==
    LET upTo[n \in 0..Len(path)] ==
            IF n = 0 THEN Rooted(path) ELSE Walk(upTo[n - 1], path[n])
    IN  upTo[Len(path)]

\* Faulty variant: the key is appended to the root as it is.
Candidate_Plain(v, k) == Base[v] \o k

\* _full_path's candidate, and _full_key.
Candidate(v, k) == IF On[v] \in Flat THEN Base[v] \o k ELSE NormPath(Base[v] \o k)

\* The errors _full_path raises: an absolute key, or one outside the root.
Accepts(v, k) ==
    \/ On[v] \in Flat
    \/ Head(k) # Blank /\ IsStrictPrefix(Base[v], Candidate(v, k))

\* A local file system follows ".." itself.
At(v, k) ==
    IF On[v] \in Local THEN NormPath(Candidate(v, k)) ELSE Candidate(v, k)

BytesOf(v) == kept[On[v]]

\* __contains__
Has(v, k) == Accepts(v, k) /\ At(v, k) \in DOMAIN BytesOf(v)

\* Faulty variant: temporary files are listed like any other.
Lists_Temp(v, p) == IsStrictPrefix(Base[v], p)

\* __iter__: what find yields below the root, but for temporary files.
Lists(v, p) ==
    /\ IsStrictPrefix(Base[v], p)
    /\ On[v] \in Local => Last(p) # TempName

Listing(v) ==
    {SubSeq(p, Len(Base[v]) + 1, Len(p)) : p \in {q \in DOMAIN BytesOf(v) : Lists(v, q)}}

\* The mapping a caller sees.
Contents(v) == [k \in Listing(v) |-> BytesOf(v)[Base[v] \o k]]

----------------------------------------------------------------------------
(* Writing and deleting.                                                   *)

With(f, p, x) == [q \in DOMAIN f \cup {p} |-> IF q = p THEN x ELSE f[q]]
Without(f, S) == [q \in DOMAIN f \ S |-> f[q]]

KeyOf == [v \in Views |-> [s \in Snapshots |-> StorageKey(s, v \in FileScheme)]]

\* A snapshot's key where its name is not too long, or any other key.
KeysIn ==
    [v \in Views |->
        {KeyOf[v][s] : s \in {r \in Snapshots : v \in FileScheme => Nameable(r)}}
            \cup RawKeys]

HasRoom == Cardinality(UNION {{m} \X (DOMAIN kept[m]) : m \in Media}) < MaxKeys

\* Faulty variant: mkdir, which makes the last directory only.
MakeDirs_Last(v, k) ==
    dirs' = IF On[v] \in Local
            THEN [dirs EXCEPT ![On[v]] = @ \cup {Front(At(v, k))}]
            ELSE dirs

\* fs.makedirs(parent, exist_ok=True) fails where a parent is a file.
MakeDirs(v, k) ==
    IF On[v] \in Local
    THEN /\ Above(At(v, k)) \cap DOMAIN BytesOf(v) = {}
         /\ dirs' = [dirs EXCEPT ![On[v]] = @ \cup Above(At(v, k))]
    ELSE UNCHANGED dirs

\* __setitem__
SetItem(v, k, x) ==
    /\ HasRoom
    /\ Accepts(v, k)
    /\ MakeDirs(v, k)
    /\ At(v, k) \notin dirs[On[v]]
    /\ kept' = [kept EXCEPT ![On[v]] = With(@, At(v, k), x)]

\* A local write that is killed, or cannot remove its temporary file.
SetItemDies(v, k) ==
    /\ HasRoom
    /\ On[v] \in Local
    /\ Accepts(v, k)
    /\ MakeDirs(v, k)
    /\ kept' = [kept EXCEPT ![On[v]] =
                     With(@, Append(Front(At(v, k)), TempName), Partial)]

\* A local write that raises and cleans up leaves the directories it made.
SetItemRaises(v, k) ==
    /\ On[v] \in Local
    /\ Accepts(v, k)
    /\ MakeDirs(v, k)
    /\ UNCHANGED kept

\* Faulty variant: a key that is a directory is deleted with all it holds.
DelItem_Tree(v, k) ==
    /\ Accepts(v, k)
    /\ kept' = [kept EXCEPT ![On[v]] =
                     Without(@, {p \in DOMAIN @ : IsPrefix(At(v, k), p)})]
    /\ UNCHANGED dirs

\* __delitem__
DelItem(v, k) ==
    /\ Has(v, k)
    /\ kept' = [kept EXCEPT ![On[v]] = Without(@, {At(v, k)})]
    /\ UNCHANGED dirs

ViewStep(v) ==
    \E k \in KeysIn[v] :
        \/ \E x \in Values : SetItem(v, k, x)
        \/ SetItemDies(v, k)
        \/ SetItemRaises(v, k)
        \/ DelItem(v, k)

StoresNext == \E v \in Views : ViewStep(v)

StoresSpec == StoresInit /\ [][StoresNext]_storesVars

----------------------------------------------------------------------------

\* Listing a store and looking a key up agree, though they reach storage by
\* different calls: what a listing yields can be looked up under that key and
\* is a whole value, never what an interrupted write left; and a snapshot that
\* can be looked up is listed, so that verify and prune see it.
ListingAgrees ==
    \A v \in Views :
        /\ \A k \in Listing(v) : Has(v, k) /\ BytesOf(v)[At(v, k)] \in Values
        /\ \A s \in Snapshots :
              Has(v, KeyOf[v][s]) => KeyOf[v][s] \in Listing(v)

Nested(b, c) == IsPrefix(b, c) \/ IsPrefix(c, b)

\* Two views of one medium, neither within the other, never see each other's
\* keys or change each other's values, whatever keys they are given.
ViewsApart ==
    [][\A w \in Views :
        \/ Contents(w)' = Contents(w)
        \/ \A v \in Views :
              ViewStep(v) => On[v] = On[w] /\ Nested(Base[v], Base[w])]_storesVars

Map == INSTANCE Mapping WITH contents <- [v \in Views |-> Contents(v)]

\* Each view is a mapping that changes one key at a time, to whole values,
\* also while others, within it or around it, are used.
ImplementsMapping == Map!Spec

\* "A local file name must also fit in 255 bytes", the module path, the hash and
\* the recorder's name included; and a label is cut only for want of space: it is
\* whole, or the name is as long as a name can be.
NamesFit ==
    \A v \in FileScheme, s \in Snapshots :
        KeyOf[v][s] \in Listing(v) =>
            /\ FlatLength(s) <= NameMaxBytes
            /\ \/ FlatLength(s) = NameMaxBytes
               \/ /\ GroupPart(s, LabelRoom(s) - 1) = WholeGroup(s)
                  /\ KeyPart(s, LabelRoom(s) - 1) = WholeKey(s)

\* Every snapshot in a store has a key its own module owns, so that a run of
\* that module alone finds it when it is no longer used.
ModulesOwnTheirKeys ==
    \A v \in Views, s \in Snapshots :
        KeyOf[v][s] \in Listing(v) =>
            Owns(ModuleOf[s], v \in FileScheme, KeyOf[v][s])

============================================================================
