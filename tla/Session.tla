------------------------------ MODULE Session ------------------------------
(***************************************************************************)
(* pytest sessions of one checkout, one after the other, with ditto's      *)
(* plugin loaded: the options are read, tests run and call `snapshot`, and *)
(* pytest_sessionfinish verifies, or maintains ditto.lock and prunes.      *)
(* Between sessions the suite is edited, snapshots come and go, and the    *)
(* lock may be corrupted; a session may be killed at any step.             *)
(*                                                                         *)
(* A snapshot is the entry the lock would hold for it; its storage key is  *)
(* KeyOf[e].  A backend is a live mapping (one per canonical URI and       *)
(* options); its target id is what the lock calls it, its store what it    *)
(* reads and writes.                                                       *)
(***************************************************************************)
EXTENDS LockFile, Reconcile, Naturals

CONSTANTS
    Tests, Nodes, Modules, Entries, Keys, Backends, Targets, Stores,
    ModuleOf,      \* [Tests -> Modules]: the module stem of a node id
    KeyOf,         \* [Entries -> Keys]: storage_key
    Under,         \* [Modules -> SUBSET Keys]: the keys with a module's prefix
    TargetOf,      \* [Backends -> Targets]: portable_target_id
    StoreOf,       \* [Backends -> Stores]
    LocalTargets,  \* the targets inside the checkout
    Placements,    \* the ways tests are given backends, a set of [Tests -> Backends]
    Options,       \* the command lines explored
    Faults,        \* the failures explored, a subset of FaultKinds
    MaxSessions,   \* bound on the number of sessions
    NoTest, NoBackend

\* `narrow`: -k / -m and the like deselect tests, path arguments collect
\* fewer.  `dist`: pytest-xdist distributes the run.
RunOptions ==
    [mode : {"RECORD", "UPDATE", "VERIFY"}, rebuild : BOOLEAN,
     prune : {"OFF", "DRY_RUN", "DELETE"}, shared : BOOLEAN,
     narrow : {"no", "filter", "args"}, dist : BOOLEAN]

\* Lock, verify and prune need to see the whole run.
SingleProcess(o) == o.mode = "VERIFY" \/ o.rebuild \/ o.prune # "OFF"

\* read_run_options and reject_single_process_modes_under_xdist refuse the rest.
Accepted(o) ==
    /\ o.mode = "VERIFY" => ~o.rebuild /\ o.prune = "OFF"
    /\ o.dist => ~SingleProcess(o)

FaultKinds == {"call", "write", "lock", "list", "delete", "kill",
               "corrupt", "lose", "foreign"}

ASSUME SessionAssumption ==
    /\ NodeOf \in [Entries -> Tests]
    /\ Above \in [Tests -> SUBSET Nodes]
    /\ ModuleOf \in [Tests -> Modules]
    /\ KeyOf \in [Entries -> Keys]
    /\ Under \in [Modules -> SUBSET Keys]
    /\ \A e \in Entries : KeyOf[e] \in Under[ModuleOf[NodeOf[e]]]
    /\ TargetOf \in [Backends -> Targets]
    /\ StoreOf \in [Backends -> Stores]
    /\ LocalTargets \subseteq Targets
    /\ Placements \subseteq [Tests -> Backends] /\ Placements # {}
    /\ Options \subseteq RunOptions /\ \E o \in Options : Accepted(o)
    /\ Faults \subseteq FaultKinds
    /\ MaxSessions \in Nat
    /\ NoTest \notin Tests
    /\ NoBackend \notin Backends

VARIABLES
    store,       \* store[s]: the storage keys s holds
    lockState,   \* ditto.lock is absent, readable or corrupt
    lock,        \* the <<target, entry>> pairs of a readable lock
    pc,          \* where the session is
    opt,         \* its options
    suite,       \* the tests that exist
    placement,   \* the backend each test's snapshots go to
    todo, cur,   \* the tests still to run, and the one running
    collection,  \* CollectionRecord
    registered,  \* tracker.target_backends
    used,        \* tracker.used_keys, as <<backend, entry>> pairs
    accessed,    \* tracker.lock_accessed, as <<target, entry>> pairs
    created,     \* tracker.lock_created
    pending,     \* the <<target, key>> orphans still to delete
    preview,     \* the orphans a dry run lists as prunable
    ok,          \* the exit status is 0
    sessions     \* how many sessions have started

disk == <<store, lockState, lock>>
tracker == <<registered, used, accessed, created>>
setup == <<opt, suite, placement, collection, sessions>>
vars == <<disk, pc, setup, todo, cur, tracker, pending, preview, ok>>

Seen == SUBSET (Targets \X Entries)
Orphans == SUBSET (Targets \X Keys)

TypeOK ==
    /\ store \in [Stores -> SUBSET Keys]
    /\ lockState \in {"absent", "ok", "corrupt"}
    /\ lock \in Seen
    /\ pc \in {"idle", "running", "verify", "lock", "prune", "delete", "closing"}
    /\ opt \in Options
    /\ suite \in SUBSET Tests
    /\ placement \in Placements
    /\ todo \in SUBSET Tests
    /\ cur \in Tests \cup {NoTest}
    /\ collection \in [collected : SUBSET Tests, passed : SUBSET Tests,
                       uncollected : SUBSET Nodes]
    /\ registered \in [Targets -> Backends \cup {NoBackend}]
    /\ used \in SUBSET (Backends \X Entries)
    /\ accessed \in Seen
    /\ created \in Seen
    /\ pending \in Orphans
    /\ preview \in Orphans
    /\ ok \in BOOLEAN
    /\ sessions \in 0..MaxSessions

NoOptions == CHOOSE o \in Options : Accepted(o)
NoPlacement == CHOOSE p \in Placements : TRUE
NoCollection == [collected |-> {}, passed |-> {}, uncollected |-> {}]

Init ==
    /\ store = [s \in Stores |-> {}]
    /\ lockState = "absent"
    /\ lock = {}
    /\ pc = "idle"
    /\ opt = NoOptions
    /\ suite = {}
    /\ placement = NoPlacement
    /\ todo = {}
    /\ cur = NoTest
    /\ collection = NoCollection
    /\ registered = [t \in Targets |-> NoBackend]
    /\ used = {}
    /\ accessed = {}
    /\ created = {}
    /\ pending = {}
    /\ preview = {}
    /\ ok = TRUE
    /\ sessions = 0

\* The process ends and its DittoSession with it; the disk stays.
ForgetSession ==
    /\ pc' = "idle"
    /\ opt' = NoOptions
    /\ suite' = {}
    /\ placement' = NoPlacement
    /\ todo' = {}
    /\ cur' = NoTest
    /\ collection' = NoCollection
    /\ registered' = [t \in Targets |-> NoBackend]
    /\ used' = {}
    /\ accessed' = {}
    /\ created' = {}
    /\ pending' = {}
    /\ preview' = {}
    /\ ok' = TRUE
    /\ UNCHANGED <<disk, sessions>>

----------------------------------------------------------------------------
(* pytest starts, and collects.                                            *)

LeftOut(t, nodes) == Above[t] \cap nodes # {}

\* `tests` exist and have their snapshots in `place`; pytest leaves out what
\* is under `ignored` (ignored paths, skipping collectors), fails to collect
\* what is under `broken`, and selects `sel` to run.  Deselected tests are
\* collected; tests outside the path arguments are not.  Without a test to
\* run, or with a collection error, the exit status is not 0.
Configure(o, tests, place, ignored, broken, sel) ==
    LET found == {t \in tests : ~LeftOut(t, ignored \cup broken)}
    IN  /\ pc = "idle" /\ sessions < MaxSessions
        /\ Accepted(o)
        /\ sel \subseteq found
        /\ pc' = "running"
        /\ opt' = o
        /\ suite' = tests
        /\ placement' = place
        /\ todo' = sel
        /\ collection' = [collected |-> IF o.narrow = "args" THEN sel ELSE found,
                          passed |-> {}, uncollected |-> ignored]
        /\ ok' = (broken = {} /\ sel # {})
        /\ sessions' = sessions + 1
        /\ UNCHANGED <<disk, cur, tracker, pending, preview>>

----------------------------------------------------------------------------
(* Tests run.                                                              *)

\* A test's report: `pass` when its call phase passed, `err` when any phase
\* failed (a passing call with a failing teardown is both; neither, a skip or
\* an xfail).
Report(t, pass, err) ==
    /\ collection' = [collected |-> collection.collected,
                      passed |-> IF pass THEN collection.passed \cup {t}
                                 ELSE collection.passed,
                      uncollected |-> collection.uncollected]
    /\ ok' = (ok /\ ~err)

\* The `snapshot` fixture resolves the test's target and registers it; the
\* last backend registered for a target id is the one kept.
StartTest(t) ==
    /\ pc = "running" /\ cur = NoTest
    /\ t \in todo
    /\ cur' = t
    /\ todo' = todo \ {t}
    /\ registered' = [registered EXCEPT ![TargetOf[placement[t]]] = placement[t]]
    /\ UNCHANGED <<disk, pc, setup, used, accessed, created, pending, preview, ok>>

\* A test that does not get the fixture: skipped by a mark, not asking for it,
\* or with a target that cannot be resolved (an error in its setup).
RunWithoutSnapshot(t, pass, err) ==
    /\ pc = "running" /\ cur = NoTest
    /\ t \in todo
    /\ todo' = todo \ {t}
    /\ Report(t, pass, err)
    /\ UNCHANGED <<disk, pc, opt, suite, placement, sessions, cur, tracker,
                   pending, preview>>

EndTest(pass, err) ==
    /\ pc = "running" /\ cur # NoTest
    /\ cur' = NoTest
    /\ Report(cur, pass, err)
    /\ UNCHANGED <<disk, pc, opt, suite, placement, sessions, todo, tracker,
                   pending, preview>>

----------------------------------------------------------------------------
(* resolve_snapshot, on the keys (values are another module's concern).    *)

Backend == placement[cur]
Seat(e) == <<TargetOf[Backend], e>>
Exists(e) == KeyOf[e] \in store[StoreOf[Backend]]

\* The running test calls snapshot(e), and no snapshot of this process has its
\* storage key: otherwise the call raises and changes nothing.  xdist workers
\* do not see each other's keys.
Calls(e) ==
    /\ pc = "running" /\ cur = NodeOf[e]
    /\ \A p \in used :
          p[1] = Backend /\ KeyOf[p[2]] = KeyOf[e] =>
              opt.dist /\ NodeOf[p[2]] # cur
    /\ used' = used \cup {<<Backend, e>>}
    /\ UNCHANGED <<lockState, lock, pc, setup, todo, cur, registered, pending,
                   preview, ok>>

Writes(e) == opt.mode = "UPDATE" \/ (opt.mode = "RECORD" /\ ~Exists(e))

\* Faulty variant: the observation holds the storage key, not the lock's entry.
RecordLockSeen_Key(e) ==
    /\ accessed' = accessed \cup {<<TargetOf[Backend], KeyOf[e]>>}
    /\ created' = IF Exists(e) THEN created ELSE created \cup {Seat(e)}

\* Faulty variant: created means written, so verify's misses are not.
RecordLockSeen_Written(e) ==
    /\ accessed' = accessed \cup {Seat(e)}
    /\ created' = IF Writes(e) /\ ~Exists(e) THEN created \cup {Seat(e)} ELSE created

RecordLockSeen(e) ==
    /\ accessed' = accessed \cup {Seat(e)}
    /\ created' = IF Exists(e) THEN created ELSE created \cup {Seat(e)}

\* Stored already: the stored value is loaded.
LoadSnapshot(e) ==
    /\ Calls(e)
    /\ opt.mode \in {"RECORD", "VERIFY"} /\ Exists(e)
    /\ RecordLockSeen(e)
    /\ UNCHANGED store

\* Faulty variant: a miss falls through to the write.
MissSnapshot_Stores(e) ==
    /\ Calls(e)
    /\ opt.mode = "VERIFY" /\ ~Exists(e)
    /\ RecordLockSeen(e)
    /\ store' = [store EXCEPT ![StoreOf[Backend]] = @ \cup {KeyOf[e]}]

\* Missing under --ditto-verify: the data is passed through the recorder and
\* nothing is written.
MissSnapshot(e) ==
    /\ Calls(e)
    /\ opt.mode = "VERIFY" /\ ~Exists(e)
    /\ RecordLockSeen(e)
    /\ UNCHANGED store

SaveSnapshot(e) ==
    /\ Calls(e)
    /\ Writes(e)
    /\ store' = [store EXCEPT ![StoreOf[Backend]] = @ \cup {KeyOf[e]}]
    /\ RecordLockSeen(e)

\* The backend's read or the recorder raises, before anything is written.
CallRaises(e) ==
    /\ "call" \in Faults
    /\ Calls(e)
    /\ UNCHANGED <<store, accessed, created>>

\* Faulty variant: the observation is recorded before the write (#84).
WriteRaises_RecordedFirst(e) ==
    /\ "write" \in Faults
    /\ Calls(e)
    /\ Writes(e)
    /\ RecordLockSeen(e)
    /\ UNCHANGED store

\* The backend's write raises; whether it took effect is anyone's guess.
WriteRaises(e) ==
    /\ "write" \in Faults
    /\ Calls(e)
    /\ Writes(e)
    /\ \E took \in BOOLEAN :
          store' = IF took THEN [store EXCEPT ![StoreOf[Backend]] = @ \cup {KeyOf[e]}]
                   ELSE store
    /\ UNCHANGED <<accessed, created>>

----------------------------------------------------------------------------
(* The run ends.                                                           *)

\* -x, --maxfail or an interrupt stops the run with a non-zero status;
\* pytest.exit(returncode=0) stops it with 0.
Abort(status0) ==
    /\ pc = "running"
    /\ todo # {} \/ cur # NoTest
    /\ todo' = {}
    /\ cur' = NoTest
    /\ ok' = (ok /\ status0)
    /\ UNCHANGED <<disk, pc, setup, tracker, pending, preview>>

\* pytest_sessionfinish is called.  Under xdist the controller saw no test.
FinishRun ==
    /\ pc = "running" /\ todo = {} /\ cur = NoTest
    /\ pc' = IF opt.dist THEN "closing"
             ELSE IF opt.mode = "VERIFY" THEN "verify" ELSE "lock"
    /\ UNCHANGED <<disk, setup, todo, cur, tracker, pending, preview, ok>>

Registered == {t \in Targets : registered[t] # NoBackend}
StoredAt(t) == store[StoreOf[registered[t]]]
\* Faulty variant: the observations are not told apart by target.
KeysAt_AnyTarget(t, seen) == {KeyOf[p[2]] : p \in seen}

KeysAt(t, seen) == {KeyOf[p[2]] : p \in {q \in seen : q[1] = t}}
ModulesAt(t, seen) == {ModuleOf[NodeOf[p[2]]] : p \in {q \in seen : q[1] = t}}
OwnedAt(t) == UNION {Under[m] : m \in ModulesAt(t, accessed) \cup ModulesAt(t, lock)}

\* _classify_target
Drift(t) == DiffBackend(KeysAt(t, lock), StoredAt(t), OwnedAt(t), KeysAt(t, created))

\* Which of the registered targets may turn out unreadable.
Unreadable == IF "list" \in Faults THEN SUBSET Registered ELSE {{}}

\* run_verify
Verify(unreadable) ==
    /\ pc = "verify" /\ unreadable \in Unreadable
    /\ pc' = "closing"
    /\ ok' = (/\ ok
              /\ lockState = "ok"
              /\ unreadable = {}
              /\ \A t \in Registered : ~HasDrift(Drift(t)))
    /\ UNCHANGED <<disk, setup, todo, cur, tracker, pending, preview>>

----------------------------------------------------------------------------
(* write_session_lockfile                                                  *)

\* A full run, all of whose tests passed, that exited cleanly.
IsAuthoritative == opt.narrow = "no" /\ ok

Action == ChooseLockAction(opt, IsAuthoritative)

AfterLock == pc' = IF opt.prune = "OFF" THEN "closing" ELSE "prune"

KeepLock ==
    /\ pc = "lock" /\ Action = "KEEP"
    /\ AfterLock
    /\ UNCHANGED <<disk, setup, todo, cur, tracker, pending, preview, ok>>

\* Faulty variant: a refused rebuild only warns.
RefuseLock_Warns ==
    /\ pc = "lock" /\ Action = "REFUSE"
    /\ AfterLock
    /\ UNCHANGED <<disk, setup, todo, cur, tracker, pending, preview, ok>>

\* The lock stays, the run fails, and a prune still follows.
RefuseLock ==
    /\ pc = "lock" /\ Action = "REFUSE"
    /\ AfterLock
    /\ ok' = FALSE
    /\ UNCHANGED <<disk, setup, todo, cur, tracker, pending, preview>>

\* Nothing created: the lock is not even read.  A corrupt lock is left alone.
AppendLock ==
    /\ pc = "lock" /\ Action = "APPEND"
    /\ AfterLock
    /\ IF created = {} \/ lockState = "corrupt"
       THEN UNCHANGED <<lockState, lock>>
       ELSE /\ lock' = MergeAppend(lock, created)
            /\ lockState' = "ok"
    /\ UNCHANGED <<store, setup, todo, cur, tracker, pending, preview, ok>>

\* A corrupt lock is replaced as if it had held nothing.
RebuildLock ==
    /\ pc = "lock" /\ Action = "REBUILD"
    /\ AfterLock
    /\ lock' = RebuiltLock(lock, accessed, collection)
    /\ lockState' = "ok"
    /\ UNCHANGED <<store, setup, todo, cur, tracker, pending, preview, ok>>

\* Faulty variant: a lock that cannot be written has the session finished again.
LockRaises_Retry ==
    /\ "lock" \in Faults
    /\ pc = "lock" /\ Action \in {"APPEND", "REBUILD"}
    /\ pc' = "running"
    /\ ok' = (ok /\ Action = "APPEND")
    /\ UNCHANGED <<disk, setup, todo, cur, tracker, pending, preview>>

\* Reading or writing the lock raises: a rebuild fails the run, an append warns.
LockRaises ==
    /\ "lock" \in Faults
    /\ pc = "lock" /\ Action \in {"APPEND", "REBUILD"}
    /\ AfterLock
    /\ ok' = (ok /\ Action = "APPEND")
    /\ UNCHANGED <<disk, setup, todo, cur, tracker, pending, preview>>

----------------------------------------------------------------------------
(* Prune, against the lock as it now is.                                   *)

\* find_orphans
FoundOrphans(unreadable) ==
    {o \in (Registered \ unreadable) \X Keys :
        lockState = "ok" /\ o[2] \in Drift(o[1]).orphan}

\* split_shared: what may be deleted, unless --ditto-prune-shared.
Prunable(orphans) == {o \in orphans : opt.shared \/ o[1] \in LocalTargets}

PruneDelete(unreadable) ==
    LET orphans == FoundOrphans(unreadable) IN
    /\ pc = "prune" /\ opt.prune = "DELETE" /\ unreadable \in Unreadable
    /\ pc' = "delete"
    /\ pending' = Prunable(orphans)
    /\ ok' = (ok /\ lockState = "ok" /\ unreadable = {} /\ Prunable(orphans) = orphans)
    /\ UNCHANGED <<disk, setup, todo, cur, tracker, preview>>

PruneDryRun(unreadable) ==
    /\ pc = "prune" /\ opt.prune = "DRY_RUN" /\ unreadable \in Unreadable
    /\ pc' = "closing"
    /\ preview' = Prunable(FoundOrphans(unreadable))
    /\ ok' = (ok /\ lockState = "ok" /\ unreadable = {})
    /\ UNCHANGED <<disk, setup, todo, cur, tracker, pending>>

\* A deletion takes the key out, and may raise all the same once it has.
DeleteOrphan(o) ==
    LET s == StoreOf[registered[o[1]]] IN
    /\ pc = "delete" /\ o \in pending
    /\ o[2] \in store[s]
    /\ store' = [store EXCEPT ![s] = @ \ {o[2]}]
    /\ pending' = pending \ {o}
    /\ ok' = ok \/ ("delete" \in Faults /\ ok' = FALSE)
    /\ UNCHANGED <<lockState, lock, pc, setup, todo, cur, tracker, preview>>

\* Faulty variant: a deletion that raises is reported but does not fail the run.
DeleteRaises_Reported(o) ==
    /\ pc = "delete" /\ o \in pending
    /\ "delete" \in Faults \/ o[2] \notin StoredAt(o[1])
    /\ pending' = pending \ {o}
    /\ UNCHANGED <<disk, pc, setup, todo, cur, tracker, preview, ok>>

\* Deleting raises and takes nothing: the backend failed, or the key is gone.
\* delete_orphans carries on with the rest.
DeleteRaises(o) ==
    /\ pc = "delete" /\ o \in pending
    /\ "delete" \in Faults \/ o[2] \notin StoredAt(o[1])
    /\ pending' = pending \ {o}
    /\ ok' = FALSE
    /\ UNCHANGED <<disk, pc, setup, todo, cur, tracker, preview>>

\* Verify and prune catch a lock that does not parse, not one that cannot be
\* read: the OSError ends pytest_sessionfinish.
ReadRaises ==
    /\ "lock" \in Faults
    /\ pc \in {"verify", "prune"}
    /\ pc' = "closing"
    /\ ok' = FALSE
    /\ UNCHANGED <<disk, setup, todo, cur, tracker, pending, preview>>

EndPrune ==
    /\ pc = "delete" /\ pending = {}
    /\ pc' = "closing"
    /\ UNCHANGED <<disk, setup, todo, cur, tracker, pending, preview, ok>>

----------------------------------------------------------------------------

\* pytest_unconfigure, and the process exits.
Close == pc = "closing" /\ ForgetSession

Kill == "kill" \in Faults /\ pc # "idle" /\ ForgetSession

Between == pc = "idle" /\ sessions < MaxSessions

\* A bad merge or a hand edit leaves the lock unparseable.
CorruptLock ==
    /\ "corrupt" \in Faults
    /\ Between /\ lockState = "ok"
    /\ lockState' = "corrupt"
    /\ lock' = {}
    /\ UNCHANGED <<store, pc, setup, todo, cur, tracker, pending, preview, ok>>

\* A stored snapshot disappears: `ditto clean`, a checkout, a deleted file.
LoseSnapshot(s, k) ==
    /\ "lose" \in Faults
    /\ Between /\ k \in store[s]
    /\ store' = [store EXCEPT ![s] = @ \ {k}]
    /\ UNCHANGED <<lockState, lock, pc, setup, todo, cur, tracker, pending,
                   preview, ok>>

\* Another checkout records a snapshot in a store both use.
ForeignWrite(s, k) ==
    /\ "foreign" \in Faults
    /\ Between /\ k \notin store[s]
    /\ \E b \in Backends : StoreOf[b] = s /\ TargetOf[b] \notin LocalTargets
    /\ store' = [store EXCEPT ![s] = @ \cup {k}]
    /\ UNCHANGED <<lockState, lock, pc, setup, todo, cur, tracker, pending,
                   preview, ok>>

RunStep ==
    \/ \E t \in Tests : StartTest(t)
    \/ \E t \in Tests, pass, err \in BOOLEAN : RunWithoutSnapshot(t, pass, err)
    \/ \E pass, err \in BOOLEAN : EndTest(pass, err)
    \/ \E e \in Entries :
          \/ LoadSnapshot(e) \/ MissSnapshot(e) \/ SaveSnapshot(e)
          \/ CallRaises(e) \/ WriteRaises(e)
    \/ \E status0 \in BOOLEAN : Abort(status0)
    \/ FinishRun

FinishStep ==
    \/ \E unreadable \in SUBSET Targets : Verify(unreadable)
    \/ KeepLock \/ RefuseLock \/ AppendLock \/ RebuildLock \/ LockRaises
    \/ \E unreadable \in SUBSET Targets : PruneDelete(unreadable) \/ PruneDryRun(unreadable)
    \/ \E o \in pending : DeleteOrphan(o) \/ DeleteRaises(o)
    \/ ReadRaises \/ EndPrune
    \/ Close

SessionStep == RunStep \/ FinishStep

Environment ==
    \/ \E o \in Options, tests \in SUBSET Tests, place \in Placements,
          ignored, broken \in SUBSET Nodes, sel \in SUBSET Tests :
            Configure(o, tests, place, ignored, broken, sel)
    \/ Kill
    \/ CorruptLock
    \/ \E s \in Stores, k \in Keys : LoseSnapshot(s, k) \/ ForeignWrite(s, k)

Next == SessionStep \/ Environment

\* pytest is one thread: a session whose tests and backend calls return goes
\* on to its end.
Spec == Init /\ [][Next]_vars /\ WF_vars(SessionStep)

----------------------------------------------------------------------------

\* --ditto-verify never touches storage or the lock, whatever the tests do and
\* whatever their calls raise.
VerifyWritesNothing ==
    [][pc # "idle" /\ opt.mode = "VERIFY" => UNCHANGED disk]_vars

\* An observation's target is the one its test's backend has; its test's
\* store holds its snapshot.
Placed(p) == TargetOf[placement[NodeOf[p[2]]]] = p[1]
Stored(p) == KeyOf[p[2]] \in store[StoreOf[placement[NodeOf[p[2]]]]]

\* An entry gets into the lock only for a snapshot that is in its test's
\* store: a write that failed, or one that verify skipped, leaves no phantom.
NewEntriesAreStored ==
    [][\A p \in lock' \ lock : Placed(p) /\ Stored(p)]_vars

\* Writing the lock drops an entry only if its test passed without using it,
\* or no longer exists: skips, xfails, deselection, ignored paths, failing or
\* partial or aborted runs never shrink the lock.
DropsOnlyGone ==
    [][\A p \in lock \ lock' :
        \/ lockState' = "corrupt"
        \/ NodeOf[p[2]] \in collection.passed /\ p \notin accessed
        \/ NodeOf[p[2]] \notin suite]_vars

\* A session deletes from a store only keys that the lock, as it stands, does
\* not record for any target in use there, that no call of this session
\* created there, and, without --ditto-prune-shared, only in the checkout.
PrunedWereOrphans ==
    [][pc # "idle" =>
        \A s \in Stores : \A k \in store[s] \ store'[s] :
            /\ \A t \in Registered :
                  StoreOf[registered[t]] = s =>
                      k \notin KeysAt(t, lock) \cup KeysAt(t, created)
            /\ \E t \in Registered :
                  StoreOf[registered[t]] = s /\ (opt.shared \/ t \in LocalTargets)]_vars

\* A session deletes only keys of test modules that the suite owns: modules its
\* tests used snapshots in, or the lock records ones for.
PrunedAreOurs ==
    [][pc # "idle" =>
        \A s \in Stores : \A k \in store[s] \ store'[s] :
            \E e \in Entries, t \in Registered :
                /\ KeyOf[e] = k
                /\ ModuleOf[NodeOf[e]] \in ModulesAt(t, accessed) \cup ModulesAt(t, lock)]_vars

\* A verify run that exits 0 saw every snapshot its tests asked for, both in
\* their own store and in the lock.
VerifiedIsSynced ==
    [][\A unreadable \in SUBSET Targets :
        Verify(unreadable) /\ ok' =>
            \A p \in accessed : Stored(p) /\ KeyOf[p[2]] \in KeysAt(p[1], lock)]_vars

\* When every recorded snapshot of the targets in use is in its test's store, and
\* every stored key is recorded, a verify that can read them reports no drift.
InSync(t) ==
    /\ \A p \in lock : p[1] = t => Placed(p) /\ Stored(p)
    /\ \A b \in Backends : TargetOf[b] = t =>
          store[StoreOf[b]] \subseteq KeysAt(t, lock)
    /\ KeysAt(t, accessed) \subseteq KeysAt(t, lock)

NoFalseDrift ==
    [][Verify({}) /\ ok /\ lockState = "ok" /\ (\A t \in Registered : InSync(t))
        => ok']_vars

\* A prune that exits 0 left no orphan in any target it used: what it could
\* not read or delete, or may not delete, failed the run.
PrunedMeansClean ==
    pc = "closing" /\ opt.prune = "DELETE" /\ ok =>
        /\ lockState = "ok"
        /\ \A t \in Registered : Drift(t).orphan = {}

\* A --ditto-lock run that exits 0 left a lock that holds every snapshot the
\* run used and, for the tests that passed, nothing else in those targets.
RebuiltMatchesRun ==
    pc = "closing" /\ opt.rebuild /\ ok =>
        /\ lockState = "ok"
        /\ accessed \subseteq lock
        /\ \A p \in lock :
              p[1] \in Exercised(accessed) /\ NodeOf[p[2]] \in collection.passed =>
                  p \in accessed

\* Every session ends.
SessionEnds == pc # "idle" ~> pc = "idle"

============================================================================
