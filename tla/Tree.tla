-------------------------------- MODULE Tree --------------------------------
(***************************************************************************)
(* What `ditto clean` and the inventory commands walk: directories, links  *)
(* to them, other stores, and ditto.lock; and what sessions and users do   *)
(* to them while a command runs.                                           *)
(***************************************************************************)
EXTENDS Naturals, FiniteSets

CONSTANTS
    Dirs,        \* the paths where a directory may be
    Root,        \* PATH, the command's argument; no link is at it or above it
    Stores,      \* stores that are not directories
    Buckets,     \* those listed at once, as a directory is; others key by key
    Names,       \* names of snapshots
    Snapshots,   \* the <<place, name>> pairs of those that may exist
    Above,       \* [Dirs -> SUBSET Dirs]: a path's proper ancestors among them
    Linkable,    \* the paths where a link may be
    Lead,        \* [Linkable -> [Dirs -> Dirs]]: what each path at or below a link
                 \* leads to; what a link leads to has no links above it
    DotDitto,    \* the paths whose last part is .ditto
    Targets,     \* the target ids of the lock
    FileTargets, \* those of scheme "file"
    DirOf,       \* [FileTargets -> Dirs]: a target's path, relative to the rootdir
    StoreOf,     \* [Targets \ FileTargets -> Stores]
    Entries,     \* the entries the lock may hold
    TargetOf,    \* [Entries -> Targets]
    KeyOf,       \* [Entries -> Names]: an entry's storage key
    Owned,       \* the names of the snapshots of tests below PATH; a name has a
                 \* hash of the node id of its test
    Locks,       \* what the lock may hold at first
    Layouts,     \* what may be at the paths at first, and what is closed
    MaxChanges   \* bound: what others change

Places == Dirs \cup Stores
Kinds == [Dirs -> {"none", "dir", "link"}]

Below == [d \in Dirs |-> {e \in Dirs : d \in Above[e]}]
Within == [d \in Dirs |-> {d} \cup Below[d]]
Children == [d \in Dirs |-> {e \in Below[d] : Above[e] = {d} \cup Above[d]}]
InPath == Within[Root]

ASSUME TreeAssumption ==
    /\ Stores \cap Dirs = {} /\ Buckets \subseteq Stores
    /\ Snapshots \subseteq Places \X Names
    /\ Locks \subseteq SUBSET Entries
    /\ Layouts \subseteq [kind : Kinds, closed : SUBSET Dirs]
    /\ Above \in [Dirs -> SUBSET Dirs]
    /\ \A d \in Dirs : d \notin Above[d]
    /\ \A d \in Dirs : \A e \in Above[d] : Above[e] \subseteq Above[d]
    /\ \A d \in Dirs : \A e \in Above[d] : \E c \in Children[e] : d \in Within[c]
    /\ Linkable \subseteq Dirs /\ DotDitto \subseteq Dirs
    /\ Root \in Dirs /\ ({Root} \cup Above[Root]) \cap Linkable = {}
    /\ Lead \in [Linkable -> [Dirs -> Dirs]]
    /\ \A a \in Linkable : \A d \in Within[a] :
          /\ ({Lead[a][d]} \cup Above[Lead[a][d]]) \cap Linkable = {}
          /\ d # a => (Lead[a][d] \in DotDitto <=> d \in DotDitto)
    /\ FileTargets \subseteq Targets
    /\ DirOf \in [FileTargets -> Dirs]
    /\ StoreOf \in [Targets \ FileTargets -> Stores]
    /\ TargetOf \in [Entries -> Targets]
    /\ KeyOf \in [Entries -> Names]
    /\ Owned \subseteq Names
    /\ MaxChanges \in Nat

VARIABLES
    kind,     \* what is at each path; below a link, what the path leads to is
              \* at a path of its own
    closed,   \* the directories that can be neither listed nor searched, and the
              \* stores out of reach
    files,    \* the <<place, name>> pairs of the snapshots that exist
    lock,     \* the entries of ditto.lock
    readable, \* whether ditto.lock can be parsed
    changes   \* how often others have changed something

disk == <<kind, closed, files, lock, readable>>

TreeTypeOK ==
    /\ kind \in Kinds
    /\ closed \subseteq Places
    /\ files \subseteq Snapshots
    /\ lock \subseteq Entries
    /\ readable \in BOOLEAN
    /\ changes \in 0..MaxChanges

\* Directories are in directories, snapshots in directories that exist.
WellFormed ==
    /\ \A d \in Dirs : kind[d] # "none" => \A e \in Above[d] : kind[e] = "dir"
    /\ \A d \in Dirs : kind[d] = "link" => d \in Linkable
    /\ \A d \in closed \cap Dirs : kind[d] = "dir"
    /\ \A f \in files : f[1] \in Dirs => kind[f[1]] = "dir"

----------------------------------------------------------------------------
(* Paths.  A system call follows the links in the directories of a path;   *)
(* some follow one in the last part too.                                   *)

Followed(d, path) ==
    IF \E a \in path : kind[a] = "link"
    THEN Lead[CHOOSE a \in path : kind[a] = "link"][d] ELSE d

\* Where lstat and rmdir find what is at d.
Spot(d) == Followed(d, Above[d])

\* Where stat, scandir and Path.resolve() do.
Resolve(d) == Followed(d, {d} \cup Above[d])

IsDir(d) == kind[Resolve(d)] = "dir"

\* A directory on the way cannot be searched: what is at d cannot be told.
Hidden(d) == (Above[d] \cup Above[Resolve(d)]) \cap closed # {}

Listable(d) == IsDir(d) /\ ~Hidden(d) /\ Resolve(d) \notin closed

\* The place a snapshot of a backend at p is in.
Located(p) == IF p \in Dirs THEN Resolve(p) ELSE p

----------------------------------------------------------------------------
(* Others.                                                                 *)

Changing == changes < MaxChanges /\ changes' = changes + 1

\* A session stores a snapshot, and makes the directories it needs.
Store(p, n) ==
    /\ <<p, n>> \in Snapshots \ files
    /\ files' = files \cup {<<p, n>>}
    /\ \/ p \in Stores /\ UNCHANGED kind
       \/ /\ p \in Dirs /\ \A e \in {p} \cup Above[p] : kind[e] # "link"
          /\ kind' = [e \in Dirs |-> IF e \in {p} \cup Above[p] THEN "dir" ELSE kind[e]]
    /\ UNCHANGED <<closed, lock, readable>>

\* A prune deletes one.
Delete(f) ==
    /\ f \in files
    /\ files' = files \ {f}
    /\ UNCHANGED <<kind, closed, lock, readable>>

\* What is at d and below is no more; new is there instead.
Replace(d, new) ==
    /\ kind' = [e \in Dirs |-> IF e = d THEN new
                               ELSE IF e \in Below[d] THEN "none" ELSE kind[e]]
    /\ closed' = closed \ Within[d]
    /\ files' = {f \in files : f[1] \notin Within[d]}
    /\ UNCHANGED <<lock, readable>>

\* A directory or a link is removed.
Take(d) == kind[d] # "none" /\ Replace(d, "none")

\* A link takes a directory's place; paths below it now lead elsewhere.
PutLink(d) ==
    /\ d \in Linkable /\ kind[d] # "link"
    /\ \A e \in Above[d] : kind[e] = "dir"
    /\ Replace(d, "link")

\* A directory's permissions change, or a store is out of reach or back.
Turn(p) ==
    /\ p \in Stores \/ (p \in Dirs /\ kind[p] = "dir")
    /\ closed' = IF p \in closed THEN closed \ {p} ELSE closed \cup {p}
    /\ UNCHANGED <<kind, files, lock, readable>>

\* A session, a merge or a checkout writes ditto.lock.
WriteLock(e) ==
    /\ readable' = TRUE
    /\ lock' = IF e \in lock THEN lock \ {e} ELSE lock \cup {e}
    /\ UNCHANGED <<kind, closed, files>>

BreakLock ==
    /\ readable /\ readable' = FALSE
    /\ lock' = {}
    /\ UNCHANGED <<kind, closed, files>>

ChangeDisk ==
    \/ \E p \in Places, n \in Names : Store(p, n)
    \/ \E f \in files : Delete(f)
    \/ \E d \in Dirs : Take(d) \/ PutLink(d)
    \/ \E p \in Places : Turn(p)
    \/ \E e \in Entries : WriteLock(e)
    \/ BreakLock

============================================================================
