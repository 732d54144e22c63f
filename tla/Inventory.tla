----------------------------- MODULE Inventory -----------------------------
(***************************************************************************)
(* What `ditto list`, `status`, `stats` and `lint` show.  By default the   *)
(* directories are found and read, and remote snapshots are taken from     *)
(* ditto.lock; with --live a pytest pass asks every backend.  Nothing is   *)
(* read at one instant, and sessions go on meanwhile.  What is shown is    *)
(* under the path it was read by, wherever that led at the time.           *)
(***************************************************************************)
EXTENDS Tree
LOCAL INSTANCE Sequences
LOCAL INSTANCE SequencesExt

CONSTANTS
    Live,       \* the places of the backends a --live pass resolves
    Nowhere,
    NodeId,     \* [Names -> Seq(STRING)]: the node id of a snapshot's test
    Selections, \* the sets of selectors --test is given; {} for no --test
    BadNames,   \* the names that are malformed or of a recorder not installed
    Empty       \* the snapshots of no bytes

ASSUME InventoryAssumption ==
    /\ Live \subseteq Places /\ Nowhere \notin Places
    /\ BadNames \subseteq Names /\ Empty \subseteq Snapshots

VARIABLES
    step,     \* where the command is
    live,     \* --live
    known,    \* the entries of the lock, as read at the start
    met,      \* the .ditto paths the walk has met, not yet looked at
    whole,    \* dirs: the directories shown with all they hold
    some,     \* dirs: the storage keys in scope of each other directory
    unread,   \* the directories to walk, then the targets, then the places to read
    at,       \* the place being read, Nowhere between two
    listing,  \* what is listed there and not yet looked at
    shown,    \* the manifest: <<place, name>> pairs
    declared, \* the manifest: the entries taken from the lock
    partial,  \* whether a backend's entries were given up for its error
    tests,    \* the selectors of --test
    printed,  \* what the command's report is about, when it ends
    leftOut,  \* what --test could not match: the lock does not record it
    result,   \* how the command ended
    \* History, since the command began:
    seen,     \* every snapshot that was at a path at some time
    stayed,   \* those that were there, and could be reached, all the time
    calm      \* whether nothing it reads has changed

scan == <<step, live, known, met, whole, some, unread, at, listing, shown, declared,
          partial>>
outcome == <<tests, printed, leftOut, result>>
inventory == <<scan, outcome>>
history == <<seen, stayed, calm>>

Steps == {"idle", "walk", "targets", "read", "live", "identify", "done"}

InventoryTypeOK ==
    /\ step \in Steps
    /\ live \in BOOLEAN
    /\ known \subseteq Entries
    /\ met \subseteq Dirs
    /\ whole \subseteq Dirs
    /\ some \in [Dirs -> SUBSET Names]
    /\ unread \subseteq Targets \cup Places
    /\ at \in Places \cup {Nowhere}
    /\ listing \subseteq Names
    /\ shown \subseteq Places \X Names
    /\ declared \subseteq Entries
    /\ partial \in BOOLEAN
    /\ tests \in Selections \cup {{}}
    /\ printed \subseteq Places \X Names
    /\ leftOut \subseteq Places \X Names
    /\ result \in {"none", "complete", "valid", "issues", "empty", "incomplete"}
    /\ seen \subseteq Places \X Names /\ stayed \subseteq seen
    /\ calm \in BOOLEAN

InventoryInit ==
    /\ step = "idle" /\ live = FALSE
    /\ known = {} /\ met = {} /\ whole = {} /\ some = [d \in Dirs |-> {}]
    /\ unread = {} /\ at = Nowhere /\ listing = {}
    /\ shown = {} /\ declared = {} /\ partial = FALSE
    /\ tests = {} /\ printed = {} /\ leftOut = {} /\ result = "none"
    /\ seen = {} /\ stayed = {} /\ calm = TRUE

\* The report is about the snapshots s, for the selectors ts; u are left out.  The
\* process keeps nothing.
Ends(ts, s, u, r) ==
    /\ step' = "done"
    /\ tests' = ts /\ printed' = s /\ leftOut' = u
    /\ result' = r
    /\ live' = FALSE /\ partial' = FALSE
    /\ known' = {} /\ met' = {} /\ whole' = {} /\ some' = [d \in Dirs |-> {}]
    /\ unread' = {} /\ at' = Nowhere /\ listing' = {}
    /\ shown' = {} /\ declared' = {}
    /\ seen' = {} /\ stayed' = {} /\ calm' = TRUE
    /\ UNCHANGED disk

Fails == Ends({}, {}, {}, "incomplete")

----------------------------------------------------------------------------
(* _local_ditto_dirs: rglob first, then what it met is looked at, then the *)
(* targets of the lock.                                                    *)

\* The lock cannot be opened, or the --live pass ends without a manifest.
BeginFails ==
    /\ step = "idle"
    /\ Fails

\* The snapshots that are at a path, perhaps through links.
Visible == {f \in Places \X Names : <<Located(f[1]), f[2]>> \in files}

\* Those no directory on the way keeps from being read, nor what lists them all.
Reachable(onlyAsked) ==
    {f \in files :
        /\ f[1] \in Dirs => Above[f[1]] \cap closed = {}
        /\ onlyAsked /\ f[1] \in Dirs \cup Buckets => f[1] \notin closed}

\* The lock is read first; one that cannot be parsed warns, and counts as none.
Begin ==
    /\ step = "idle"
    /\ step' = "walk"
    /\ known' = lock
    /\ met' = {Root} \cap DotDitto
    /\ unread' = {Root}
    /\ seen' = Visible /\ stayed' = Reachable(FALSE)
    /\ UNCHANGED <<disk, live, whole, some, at, listing, shown, declared, partial,
                   outcome, calm>>

\* The directories in d; links are not entered.
Found(d) == {c \in Children[d] : kind[Spot(c)] = "dir"}

\* What cannot be listed is passed over without a word.
Walk(d) ==
    /\ step = "walk" /\ d \in unread
    /\ LET entries == IF Listable(d) THEN Children[d] ELSE {} IN
       /\ met' = met \cup {c \in entries \cap DotDitto : kind[Spot(c)] # "none"}
       /\ unread' = (unread \ {d}) \cup (Found(d) \cap entries)
    /\ UNCHANGED <<disk, step, live, known, whole, some, at, listing, shown, declared,
                   partial, outcome, history>>

\* is_dir() and resolve(): a link stands for where it leads.  What is hidden is no
\* directory, or, before Python 3.14, an error.
Check(d) ==
    /\ step = "walk" /\ unread = {} /\ d \in met
    /\ met' = met \ {d}
    /\ whole' = IF Hidden(d) \/ ~IsDir(d) THEN whole ELSE whole \cup {Resolve(d)}
    /\ UNCHANGED <<disk, step, live, known, some, unread, at, listing, shown, declared,
                   partial, outcome, history>>

TakeTargets ==
    /\ step = "walk" /\ unread = {} /\ met = {}
    /\ step' = "targets"
    /\ unread' = {t \in FileTargets : \E e \in known : TargetOf[e] = t}
    /\ UNCHANGED <<disk, live, known, met, whole, some, at, listing, shown, declared,
                   partial, outcome, history>>

OwnKeys(t) == Owned \cap {KeyOf[e] : e \in {f \in known : TargetOf[f] = t}}

\* A target whose directory is below PATH is shown whole; of another, the keys
\* of the tests that are.  The targets come in the lock's order.
SelectTarget(t) ==
    LET d == Resolve(DirOf[t])
        there == IsDir(DirOf[t]) /\ ~Hidden(DirOf[t]) IN
    /\ step = "targets" /\ t \in unread
    /\ unread' = unread \ {t}
    /\ whole' = IF there /\ d \in InPath THEN whole \cup {d} ELSE whole
    /\ some' = IF there /\ d \notin whole'
               THEN [some EXCEPT ![d] = @ \cup OwnKeys(t)] ELSE some
    /\ UNCHANGED <<disk, step, live, known, met, at, listing, shown, declared, partial,
                   outcome, history>>

\* Before Python 3.14: is_dir() raises.
LookRaises ==
    /\ \/ step = "walk" /\ unread = {} /\ \E d \in met : Hidden(d)
       \/ step = "targets" /\ \E t \in unread : Hidden(DirOf[t])
    /\ Fails

Wanted == whole \cup {d \in Dirs : some[d] # {}}

StartReading ==
    /\ step = "targets" /\ unread = {}
    /\ step' = "read"
    /\ unread' = Wanted
    /\ UNCHANGED <<disk, live, known, met, whole, some, at, listing, shown, declared,
                   partial, outcome, history>>

----------------------------------------------------------------------------
(* _read_ditto_dir: the names, then each of them, by the path selected: a  *)
(* link put there since is followed.                                       *)

ListDir(d) ==
    /\ step = "read" /\ at = Nowhere /\ d \in unread
    /\ Listable(d)
    /\ unread' = unread \ {d}
    /\ at' = d
    /\ listing' = {n \in Names : <<Resolve(d), n>> \in files}
    /\ UNCHANGED <<disk, step, live, known, met, whole, some, shown, declared, partial,
                   outcome, history>>

InScope(d, n) == d \in whole \/ n \in some[d]

\* A directory on the way to what is in d, or d, cannot be searched.
Shut(d) == Hidden(d) \/ Resolve(d) \in closed

\* One that has vanished since is left out.
StatFile(n) ==
    /\ step = "read" /\ at # Nowhere /\ n \in listing
    /\ ~Shut(at)
    /\ listing' = listing \ {n}
    /\ shown' = IF <<Resolve(at), n>> \in files /\ InScope(at, n)
                THEN shown \cup {<<at, n>>} ELSE shown
    /\ UNCHANGED <<disk, step, live, known, met, whole, some, unread, at, declared,
                   partial, outcome, history>>

LeaveDir ==
    /\ step = "read" /\ at # Nowhere /\ listing = {}
    /\ at' = Nowhere
    /\ UNCHANGED <<disk, step, live, known, met, whole, some, unread, listing, shown,
                   declared, partial, outcome, history>>

\* Faulty variant: a directory that cannot be read is passed over.
ReadRaises_Skips ==
    /\ unread' = {d \in unread : Listable(d)}
    /\ at' = Nowhere /\ listing' = {}
    /\ UNCHANGED <<disk, step, live, known, met, whole, some, shown, declared, partial,
                   outcome, history>>

\* InventoryError: nothing is shown at all.
ReadRaises == Fails

\* The directory is gone or cannot be listed, or a file in it cannot be reached.
DirRaises ==
    /\ step = "read"
    /\ \/ at = Nowhere /\ \E d \in unread : ~Listable(d)
       \/ at # Nowhere /\ listing # {} /\ Shut(at)
    /\ ReadRaises

\* _lock_remote: of the other targets, what the lock declares for these tests.
EndReading ==
    /\ step \in {"read", "live"} /\ unread = {} /\ at = Nowhere
    /\ step' = "identify"
    /\ declared' = {e \in known : KeyOf[e] \in Owned /\ TargetOf[e] \notin FileTargets}
    /\ UNCHANGED <<disk, live, known, met, whole, some, unread, at, listing, shown,
                   partial, outcome, history>>

----------------------------------------------------------------------------
(* --live: pytest --setup-only --ditto-introspect, one backend at a time.  *)

BeginLive ==
    /\ step = "idle"
    /\ step' = "live" /\ live' = TRUE
    /\ unread' = Live
    /\ seen' = Visible /\ stayed' = Reachable(TRUE)
    /\ UNCHANGED <<disk, known, met, whole, some, at, listing, shown, declared, partial,
                   outcome, calm>>

\* stat_entries: one listing, with the sizes in it.  fsspec's exists() is false for
\* what it cannot ask about, and its walk passes over a directory it cannot list:
\* both count as empty.  A bucket out of reach may also raise.
Enumerate(p) ==
    /\ step = "live" /\ at = Nowhere /\ p \in unread \cap (Dirs \cup Buckets)
    /\ unread' = unread \ {p}
    /\ shown' = IF IF p \in Dirs THEN Listable(p) ELSE p \notin closed
                THEN shown \cup {f \in Visible : f[1] = p} ELSE shown
    /\ UNCHANGED <<disk, step, live, known, met, whole, some, at, listing, declared,
                   partial, outcome, history>>

ListKeys(s) ==
    /\ step = "live" /\ at = Nowhere /\ s \in unread \cap (Stores \ Buckets)
    /\ s \notin closed
    /\ unread' = unread \ {s}
    /\ at' = s
    /\ listing' = {n \in Names : <<s, n>> \in files}
    /\ UNCHANGED <<disk, step, live, known, met, whole, some, shown, declared, partial,
                   outcome, history>>

ReadKey(n) ==
    /\ step = "live" /\ at # Nowhere /\ n \in listing
    /\ <<at, n>> \in files /\ at \notin closed
    /\ listing' = listing \ {n}
    /\ shown' = shown \cup {<<at, n>>}
    /\ UNCHANGED <<disk, step, live, known, met, whole, some, unread, at, declared,
                   partial, outcome, history>>

LeaveStore ==
    /\ step = "live" /\ at # Nowhere /\ listing = {}
    /\ at' = Nowhere
    /\ UNCHANGED <<disk, step, live, known, met, whole, some, unread, listing, shown,
                   declared, partial, outcome, history>>

\* A key is gone, or a store out of reach: its error replaces its entries.
BackendRaises(s) ==
    /\ step = "live"
    /\ \/ /\ at = s
          /\ s \in closed \/ \E n \in listing : <<s, n>> \notin files
       \/ at = Nowhere /\ s \in unread /\ s \in closed
    /\ unread' = unread \ {s}
    /\ at' = Nowhere /\ listing' = {}
    /\ shown' = {f \in shown : f[1] # s}
    /\ partial' = TRUE
    /\ UNCHANGED <<disk, step, live, known, met, whole, some, declared, outcome,
                   history>>

----------------------------------------------------------------------------
(* The commands.  Each ends with status 0 when "complete" or "valid".      *)

\* The <<place, name>> pairs of the entries es, at their locations as they are now.
PairsOf(es) ==
    {<<IF TargetOf[e] \in FileTargets THEN Resolve(DirOf[TargetOf[e]])
       ELSE StoreOf[TargetOf[e]], KeyOf[e]>> : e \in es}

Manifest == shown \cup PairsOf(declared)

\* lock_identities: the lock is read again; one that cannot be parsed names nothing.
Recorded == {f \in Manifest : <<Located(f[1]), f[2]>> \in PairsOf(lock)}

\* A selector is a node id, or a prefix of one that ends at a boundary.
Selects(selector, nodeid) ==
    \/ selector = nodeid
    \/ /\ selector # <<>> /\ IsStrictPrefix(selector, nodeid)
       /\ \/ Last(selector) \in {"/", "::"}
          \/ nodeid[Len(selector) + 1] \in {"/", "::", "["}

Picked(ts) == {n \in Names : \E selector \in ts : Selects(selector, NodeId[n])}

\* --test can only match what the lock has a node id for; it counts the others.
Selection(ts) ==
    IF ts = {} THEN Manifest ELSE {f \in Recorded : f[2] \in Picked(ts)}

Ending(isEmpty, r) ==
    IF partial THEN "incomplete" ELSE IF isEmpty THEN "empty" ELSE r

List(ts) ==
    Ends(ts, Selection(ts), IF ts = {} THEN {} ELSE Manifest \ Recorded,
         Ending(Selection(ts) = {}, "complete"))

Status == Ends({}, Manifest, {}, Ending(Manifest = {}, "complete"))

\* A live manifest has every backend, also one that holds nothing.
Stats ==
    Ends({}, Manifest, {},
         Ending(IF live THEN Live = {} ELSE Manifest = {}, "complete"))

\* The size of what only the lock declares is unknown, and not taken for 0.
LintIssues == {f \in Manifest : f[2] \in BadNames} \cup (shown \cap Empty)

Lint == Ends({}, Manifest, {}, Ending(FALSE, IF LintIssues = {} THEN "valid" ELSE "issues"))

Report ==
    /\ step = "identify"
    /\ \/ \E ts \in Selections : List(ts)
       \/ Status
       \/ Stats
       \/ Lint
       \/ Fails \* the lock cannot be opened any more

\* The user starts one of the commands.
InventoryStart == Begin \/ BeginLive \/ BeginFails

InventoryStep ==
    \/ \E d \in Dirs : Walk(d) \/ Check(d) \/ ListDir(d)
    \/ TakeTargets \/ LookRaises
    \/ \E t \in FileTargets : SelectTarget(t)
    \/ StartReading
    \/ \E n \in Names : StatFile(n) \/ ReadKey(n)
    \/ LeaveDir \/ DirRaises \/ EndReading
    \/ \E p \in Places : Enumerate(p)
    \/ \E s \in Stores : ListKeys(s) \/ BackendRaises(s)
    \/ LeaveStore
    \/ Report

============================================================================
