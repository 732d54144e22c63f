------------------------------ MODULE LockFile ------------------------------
(***************************************************************************)
(* What a session does to ditto.lock: ditto._lockfile's merge and          *)
(* ditto.plugin._lock's rebuild and choice of action.  The content of a    *)
(* lock is the set of its <<target id, entry>> pairs (_entries); an entry  *)
(* stands for a (node id, key, recorder) triple.                           *)
(***************************************************************************)
CONSTANTS
    NodeOf,    \* [entries -> tests]: the test an entry's node id names
    Above      \* [tests -> SUBSET nodes]: the directories, file and classes
               \* that contain a test (_containing_nodeids)

\* The targets that have an observation in `seen`: the keys of _grouped(seen).
Exercised(seen) == {p[1] : p \in seen}

\* merge_append, for every target of `new`.
MergeAppend(lock, new) == lock \cup new

\* Faulty variant: what was left out of the collection is taken for gone.
KeepsEntry_Collected(e, collection) ==
    /\ NodeOf[e] \notin collection.passed
    /\ NodeOf[e] \in collection.collected

\* A rebuild keeps the entries of a test that did not run to a pass, whether
\* it was collected or something above it was left out; an entry of a test
\* that is gone is dropped.
KeepsEntry(e, collection) ==
    /\ NodeOf[e] \notin collection.passed
    /\ \/ NodeOf[e] \in collection.collected
       \/ Above[NodeOf[e]] \cap collection.uncollected # {}

\* Each exercised target gets this run's entries and the old ones kept; any
\* other target stays as it was.
RebuiltLock(lock, seen, collection) ==
    seen \cup {p \in lock : \/ p[1] \notin Exercised(seen)
                            \/ KeepsEntry(p[2], collection)}

ChooseLockAction(options, authoritative) ==
    IF options.rebuild
    THEN IF authoritative THEN "REBUILD" ELSE "REFUSE"
    ELSE IF options.mode = "UPDATE" /\ authoritative THEN "REBUILD"
    ELSE IF options.prune # "OFF" THEN "KEEP"
    ELSE "APPEND"

============================================================================
