# A verification model of pytest-ditto

pytest-ditto is a snapshot-testing plugin for pytest. A test calls
`snapshot(data, key)`; the value is stored the first time and compared against
afterwards. Snapshots live in *targets* (a `.ditto/` directory, S3, Redis, ...),
and `ditto.lock`, committed with the code, records which snapshots the suite
legitimately has, so that `ditto verify` can report drift and `ditto prune` can
delete what nothing uses.

The program is sequential within one pytest process. What makes it hard is the
state that outlives a process (stores and the lock) and the many ways to get
there: sessions of different kinds one after the other, tests that fail, skip or
are filtered out, writes that raise after they took effect, processes that are
killed or share a store, plugins that are swapped in the middle of a session.
This directory models those behaviours in TLA+, checks them with TLC on small
instances, and proves the main results with TLAPS for every instance.

## 1. Inventory

Paths are relative to `src/ditto/`.

| Component | Source | State | Operations |
|---|---|---|---|
| Atomic file write | `_atomic.py` | a path, temporary files, permission bits | `write_atomically` |
| Snapshot resolution | `snapshot.py` | the session's tracker (used keys, observations, writes), the store | `snapshot(data, key)` under RECORD, UPDATE, VERIFY |
| Drift classification | `_reconcile.py` | none (pure) | `owned_prefixes`, `diff_backend` |
| Lock file rules | `_lockfile.py`, `plugin/_lock.py` | `ditto.lock`; the collection record | append, rebuild, refuse, keep; which runs are authoritative |
| Verify and prune | `plugin/_drift.py` | none of its own: reads tracker, lock and stores | `run_verify`, `find_orphans`, `split_shared`, `delete_orphans` |
| Session life cycle | `plugin/_hooks.py`, `_session.py`, `_options.py`, `_fixture.py` | `DittoSession`, the options, the exit status | the pytest hooks, the `snapshot` fixture |
| Target resolution, backend registry | `plugin/_targets.py`, `backends/_plugins.py`, `backends/_contract.py` | backend cache, sources, entered backends, exit stack; overrides, loaded factories | `resolve_uri`, `maybe_enter`, setting and deleting overrides, `pytest_unconfigure` |
| Recorder registry | `recorders/_plugins.py`, `recorders/_contract.py`, `_entry_points.py` | discovered and registered recorders, conflicts, loaded objects | construction, `register`, lookup, the check at `pytest_configure` |
| Stores | `backends/_fsspec.py`, `backends/_prefix.py` | none of their own: views of a file system, bucket or database | a mapping from keys to bytes: set, delete, look up, list |
| Storage keys | `snapshot.py`, `_reconcile.py`, `_lockfile.py` | none (pure) | `_flat_key`, `_remote_key`, `_label`, `owned_prefixes` |
| Selection and configuration | `plugin/_selection.py`, `_profiles.py`, `_credentials.py`, `_fixture.py` | none | a test's recorder, target and options from marks, profiles, fixtures and ini |
| Doctor | `cli/_diagnostics.py`, `cli/_maintenance.py` | none | `ditto doctor` |
| Inventory | `_inventory.py`, `_manifest.py`, `_cli_introspect.py`, `plugin/_introspect.py`, `cli/_inventory.py`, `cli/_data.py` | what one command has read so far | `ditto list`, `status`, `stats`, `lint`, each also `--live` |
| Clean | `cli/_maintenance.py` | what one command has removed so far | `ditto clean` |
| Command line, display, formats | `cli/_pytest.py`, `cli/_display.py`, `_report.py`, `_theme.py`, `recorders/_json.py`, ... | none | start pytest with options; render results; serialise values |

How they interact. The fixture resolves a test's target (`resolve_uri`, which
builds the backend once per session and enters it), registers the backend under
its portable target id, and hands the test a `Snapshot`. Each call reads or
writes the backend and then leaves an observation (`LockSeen`) in the tracker.
Hooks fill the collection record. At `pytest_sessionfinish`, in this order: a
verify run classifies every registered target and stops there; any other run
writes the lock from the observations and the collection record, then prunes
against the lock as it now is. `pytest_unconfigure` closes the backends. The
tracker dies with the process; stores and lock stay, for the next session.
`ditto clean` and the inventory commands work on the same directories and lock
from processes of their own, at any time.

Where it is hard, and what must hold:

- **Prune deletes data.** It must delete only what the lock does not record and
  this run did not create, only where it may, and a prune that exits 0 must have
  left no orphan. The inputs of that decision come from three places (lock,
  tracker, store), each of which may be stale or partial.
- **The lock must be neither too big nor too small.** No entry without a stored
  snapshot (a failed write, a verify run); no entry lost to a skip, a filter, a
  failing or aborted run, over any sequence of runs.
- **Verify must be passive and exact**: write nothing, pass only if what its
  tests used is stored and locked, fail only for a reason.
- **Storage must survive failure**: a file is replaced whole or not at all;
  only bytes that the recorder can read back are stored.
- **Plugins come from anywhere**: a name must mean one recorder, a URI one
  backend source, and a backend that has to be entered and closed must be so
  exactly once. A test must get the target and options that it selects, never a
  backend made for another, and no URI with a secret may reach the lock.
- **Maintenance commands read and delete while others write.** What `clean`
  showed may be something else by the time it is confirmed; what an inventory
  listed may be gone when it is looked at. A clean must delete in `.ditto`
  directories only, below PATH, and account for what it does; an inventory that
  exits 0 must have hidden nothing.

`PROJECT.json` lists each hazard at its line with the properties that cover it.

## 2. Modules

| Module | Models | Extends / instantiates |
|---|---|---|
| `AtomicFile` | specification: a file that is replaced at one instant | |
| `AtomicWrite` | `write_atomically`, one system call per step, several calls | refines `AtomicFile` |
| `SnapshotStore` | specification: a call to `snapshot` takes effect at one instant | |
| `Recording` | `resolve_snapshot`, one backend or recorder call per step, several processes | refines `SnapshotStore` |
| `Reconcile` | `diff_backend` | |
| `LockFile` | append and rebuild of the lock, choice of action | |
| `Session` | the sessions of a checkout, from options to unconfigure, and what happens between them | extends `LockFile`, `Reconcile` |
| `SessionPreview` | `Session` with a memory of the last undisturbed `prune --check` | extends `Session` |
| `Recorders` | the recorder registry, `ditto.<name>` | |
| `Doctor` | `ditto doctor` beside a session of the same environment | extends (and implements) `Recorders` |
| `Targets` | `resolve_uri`, the backend registry, the exit stack | |
| `Selection` | the `snapshot` fixture: what a test's marks, profiles, fixtures and ini select | extends (and implements) `Targets` |
| `Options` | `freeze_options` over Python values | |
| `Tree` | directories, links, other stores and the lock, and what others do to them | |
| `Clean` | `ditto clean` | extends `Tree` |
| `Inventory` | `ditto list`, `status`, `stats`, `lint` | extends `Tree` |
| `Maintenance` | a clean and an inventory command on one changing tree | extends `Clean`, `Inventory` |
| `*_proofs` | theorems and proofs about the module of that name | extend it and `TLAPS` |
| `Names` | storage keys, label lengths, owned prefixes | |
| `Mapping` | specification: mappings that change one key at a time | |
| `Stores` | `FsspecMapping`, `PrefixedMapping` over shared media | extends `Names`; refines `Mapping` |
| `MC*` | the small instances TLC checks | extend the module; `MCStorage` has `Recording`, `AtomicWrite` and `Stores` side by side |

Definitions named `X_Y` and marked "Faulty variant" stand next to the definition
`X` of the model; they are slips the code could have, used to check that a
property notices them, and no specification uses them.

### AtomicWrite

`path`, `tmp[c]` and `at[c]` are the file, the temporary file of call `c` and
the statement it is at; `found[c]` is the local variable `mode`. Actions follow the
statements: `Stat`, `Open` (the kernel takes the umask's bits off), `WriteTmp`,
`Chmod`, `Replace`, `Leave`, the failures outside and inside the `try`, the
clean-up, and `Kill` anywhere. Contents are model values; a file being written
has the content `Unfinished`. A permission set is a set of bits.

### Recording and SnapshotStore

One process is one pytest run; `pc[p]` follows `resolve_snapshot` through
`exists`, `load` or `trip` (dumps, then loads), and `write`. `Dumps` and `Loads`
are constants, so a recorder may restore something else than it was given, fail
to dump, or dump what it cannot load. A failing write may have stored the value.
`SnapshotStore` says what a caller is promised: RECORD keeps a stored value,
UPDATE replaces it, VERIFY changes nothing, and the caller is told what a later
run would read. The refinement maps stored bytes to what they restore to.

### Session

Snapshots are lock entries (node id, key, recorder); the storage key of entry
`e` is `KeyOf[e]`. A *backend* is a live mapping, its *target* the id the lock
uses, its *store* what it reads and writes: three notions the code keeps apart,
and several backends may share a target or a store.

- Disk: `store`, `lock` (a set of target and entry pairs), `lockState`.
- Process: `opt`, `suite`, `placement`, `todo`, `cur`, `collection`
  (`CollectionRecord`), `registered` (`target_backends`), `used` (`used_keys`),
  `accessed` and `created` (`lock_accessed`, `lock_created`), `pending` and
  `preview` (orphans to delete, orphans a check lists), `ok` (exit status 0), `pc`.
- `Configure` reads the options and collects; `StartTest`, `RunWithoutSnapshot`,
  `EndTest` are a test's fixture and reports; `LoadSnapshot`, `MissSnapshot`,
  `SaveSnapshot`, `CallRaises`, `WriteRaises` are the branches of
  `resolve_snapshot`; `FinishRun`, `Verify`, `KeepLock`, `RefuseLock`,
  `AppendLock`, `RebuildLock`, `LockRaises`, `PruneDelete`, `PruneDryRun`,
  `DeleteOrphan`, `DeleteRaises`, `ReadRaises`, `EndPrune` are
  `pytest_sessionfinish`; `Close` is `pytest_unconfigure`. The lock step never
  keeps a prune from following: after a rebuild that was refused or failed, the
  prune goes by the old lock.
- Environment: `Kill` at any step, and between sessions `CorruptLock`,
  `LoseSnapshot` and `ForeignWrite` (another checkout writes to a shared store).

Abstractions. Values are `Recording`'s. A storage key is a model value, and the
keys a module's prefix covers are the constant `Under`, so that one module's
prefix may cover another's keys, as the code allows. Deletions happen in any
order (the code sorts them; nothing depends on it); one that raises may have taken
effect. A lock that cannot be opened ends a verify or a prune (`ReadRaises`), since
both catch a lock that does not parse and no other error. The exit status is the
Boolean "0 and no test failed", which is what `is_authoritative_run`, verify and
prune look at; a failing deletion clears it at once, where the code does so
after the loop. Under xdist the controller writes no lock and does not prune;
workers are one process whose duplicate-key check is per test. `Accepted` is
what the command line may combine, `SingleProcess` what xdist may not.

### Recorders and Doctor

The entry points found, the 1.x distributions, the conflicts worked out at
construction, the names added in code and the entry points imported. A name's
namespace is a constant function; validity and reservation are constant sets.
`NameProblems` is `find_name_problems` with its four rules. `IsMark` is the path
of `@ditto.<name>`: attributes of the module, then `__getattr__`, then the
attributes of a namespace.

`Doctor` puts two processes side by side: `Doctor` the command, and a session
that loads the plugin, is refused or starts, and looks up recorders and backends
in any order, among names that code adds. `tried` and `failed` are history. Which
entry points do not import is the constant `Broken`, the same for both.

### Targets, Selection and Options

`cache`, `sources`, `entered`, `stack` are the fields of `DittoSession`;
`overrides` and `loaded` belong to the registry. `builder` and `exits` are
history: which source built a cached backend, and what was exited. Factories
return any object, also one they returned before; ditto's own mappings are new
and not context managers. What `__enter__` returns is identified with the object
entered. An exit that raises does not stop the others, which is
`contextlib.ExitStack`'s rule.

`Selection` replaces arbitrary URIs by what tests select. `Suite[t]` is what a
test's marks and fixtures say; `Selected` is `_select_target` with its
precedence, `Refused` all that the fixture refuses before a URI is resolved,
`Resolve` the rest of the fixture. `Canonical` (a URI, written in a test's
directory, made absolute), `PartsOf` (what an fsspec chain wraps) and `Freeze`
are constants; `MCSelection` gives `Freeze` the values that `FreezeOptions` of
`Options` computes. `given` and `made` are history: the last test served, and the
options a cached backend was built with.

In `Options`, `PyValues` are the values that options may be or hold, nested to a
bounded `Depth` (Python's recursion has a limit, and a value within itself would
never freeze). `Frozen` is `freeze_options` by recursion over them; an `Unhashable`
value at any depth makes the whole unhashable, and `CanFreeze` is that nothing
raises. `AlikeAs` compares two values without freezing them: they are alike up to
a list for a tuple, `1` for `True`, and a mapping for the sequence of its items,
so `{"k": {"a": 1}}` is alike `{"k": [["a", True]]}`. `freeze_options` makes one
cache key of those two, though `docs/src/guides/custom-backends.md` (line 104)
promises two mappings for "two different sets of storage options": `OwnOptions`
says what that promises, and the run `targets_options` refutes it. What does hold is
`SharedWithAlike`: the backend a test is given is one for the URI and directory it
selects, and was built with options that are alike its own.

### Tree, Clean, Inventory, Maintenance

A path is a model value with its ancestors (`Above`); `kind[d]` says whether a
directory, a link or nothing is there, `closed` which directories can be neither
listed nor searched and which stores are out of reach, `files` which snapshots
exist. A path at or below a link leads elsewhere, as the constant `Lead` says, and
`kind` and `files` speak of what is there under its own path. So `tests/.ditto` is a
path still when a link takes the place of `tests/`, and is then what the link leads
to. System calls differ in which links they follow: `Resolve` follows one in the last
part of a path too (`stat`, `scandir`, `Path.resolve`), `Spot` only those above it
(`lstat`, `rmdir`). Others (`ChangeDisk`) store, delete, take directories away, put
links in their place, close and open directories and stores, write the lock or break
it; `Protect` makes something unremovable.

`Clean` follows `cmd_clean`: `Find` (which names links and does not enter them, and
passes over what it cannot list), the question (`Agree`, `Decline`), then for each
listed path `shutil.rmtree`, on the tree as it then is. It refuses a link at the path
itself (`StartRaises`) and goes through one put above it (`Start` opens `Spot(d)`);
from there on it goes by the open directory, an entry at a time (`Unlink`,
`RemoveNested`), and removes a link in it without following; the last `rmdir`
(`RemoveDir`) goes by the path again. `trouble` says that others have been at a chosen
directory or on the way to it since the preview, or that something in it cannot be
listed or removed: without it no removal may fail. `diverted` is history: a link has
come above a chosen directory.

`Inventory` has one action per read. `Begin` reads the lock. `Walk` is a step of
`base.rglob(".ditto")`, one directory listed and its subdirectories put off, links not
entered, and a directory that cannot be listed passed over without a word. `Check`
looks at what the walk met (`is_dir`, `resolve`); `SelectTarget` at the directory of
each file target of the lock; before Python 3.14 both may raise instead
(`LookRaises`), and both outcomes are in the model. `ListDir` and `StatFile` read each
directory by the path selected, following a link put there since, and what they show
is under that path; `ReadRaises` ends the command. With `--live` it is each backend,
listed at once (`Enumerate`: a directory or bucket that cannot be reached counts as
empty) or key by key (`ListKeys`, `ReadKey`, `BackendRaises`). Then `Report` is the end
of one of the four commands: `List` reads the lock again and applies `--test`; `Lint`
looks for names that are malformed or of a recorder not installed, and empty
snapshots; `Ending` is how a partial or empty result exits. `seen`, `stayed` and `calm`
are history: what was at a path at some time, what was there and within reach all the
time, and whether anything changed since the command began. A node id is a sequence of
the pieces its boundaries separate.

### Names and Stores

A path is a sequence of segments (what slashes separate), a segment a sequence
of words (what dots separate), so that both prefix rules of `owned_prefixes`,
`module/` and `module.`, are prefixes of sequences and `str.replace("/", ".")`
is a flattening. The rest of a name, 'test@key~hash.ext', is one word per
snapshot: its hash makes it unique. Its *length* is modelled apart, by the
arithmetic of `_label_part`, `_label` and `_flat_key`, `Slice` being Python's
`text[:n]` with a negative `n` too. Module paths are not empty: the `snapshot`
fixture refuses a test outside the rootdir.

`kept[m]` is a medium (a local file system, a bucket, a flat database) as a
function from paths to bytes, `dirs[m]` the directories of a local one. A view is
a mapping over a medium: `Candidate`, `Accepts` and `At` are `_full_path` and
`_full_key`, `Has` is `__contains__`, `Listing` is `__iter__`, and the actions
`SetItem`, `SetItemRaises`, `DelItem` are `__setitem__` and `__delitem__`;
`SetItemDies` is a local write that is killed and leaves its temporary file.
`Contents(v)` is what a caller sees, and is refined to `Mapping`. A prefix of
`PrefixedMapping` is a path as well; two prefixes of which one's text begins
with the other's are two nested paths. `stat_entries` lists as `__iter__` does.
`NormPath` is `posixpath.normpath`, a fold over the segments.

`StoresAssumption` says what the model takes of its constants, and the code gives:
a root on a file system or in a bucket has no `.`, `..` or empty segment but the
first, because `_canonicalize_uri` resolves it; a module path has none either,
because the fixture takes it relative to the rootdir; and nobody's key has the
name of a temporary file, which is random (`_atomic.py`), nor, if it is not a
snapshot's, the name of a snapshot, which ends in a hash.

## 3. Runs

`expect: pass` (TLC finds no error):

| Run | Instance | Question |
|---|---|---|
| `storage` | in one behaviour, one of three parts: 2 processes that call `snapshot`, a key each, 4 kinds of values, 4 runs, deletions by others; 3 calls of `write_atomically` with 2 contents, 2 bits, different umasks; 3 directories (one within another), a bucket path, 2 database prefixes, 3 snapshots (one with a long module path), 4 odd keys, at most 2 values stored | Calls: is only readable data stored, do the steps amount to calls at one instant, and does every call end? File: is a path replaced whole or not at all, by files no wider than it was, with its bits, leaving nothing behind, and does every write end? Stores: is each a mapping that changes one key at a time, does listing agree with lookup, do stores apart stay apart, and do names fit, use their room and belong to their module? |
| `session_lock` | 2 sessions, 2 tests, 3 snapshots, 1 target; plain, lock and update runs, full, filtered, narrowed; failing writes, unwritable and corrupt locks | What gets into the lock is stored; what leaves it is gone; does a rebuild that exits 0 match its run; does every session end? |
| `session_reconcile` | 2 sessions, 2 tests, a local and a shared target; record, xdist, lock, update, prune, check and verify runs; foreign writes, lost snapshots, unreadable targets, failing deletions (also once they took effect), a lock that cannot be read or written, kills | Does a prune delete only orphans it may delete, and leave none if it exits 0? Does verify write nothing, pass only in sync, and fail only for a reason? |
| `recorders` | all subsets of 7 recorders over 6 names, a 1.x plugin, 4 backends and 2 pytest plugins, 3 of them broken | Do the problems found at construction stay complete, does a name mean one recorder and every recorder have its mark, and does doctor pass exactly the environments that work? |
| `targets` | 7 tests in 2 directories, 5 raw URIs, 6 option values, 3 profiles, 6 ini files; 2 factories, 3 objects (2 to be entered) | Does each test get a backend of its own target, shared only with tests of alike options, does a URI keep one source and show no secret, do failures leave no trace, and is each backend entered and exited once? |
| `maintenance` | 8 paths (a `.ditto` in another, one in `tests/`, one outside PATH; 4 that may be links) in 6 layouts, one with a closed directory; a database and a bucket, 2 names, 4 lock entries in 3 targets; a clean and an inventory command; 1 change by others between any two steps | Does a clean delete in `.ditto` directories only, below PATH unless the way there was made to lead elsewhere, and report what it did; does an inventory that exits 0 hide nothing within reach, and find exactly that when nothing changes; and do both end? |

`expect: violation` (TLC finds a behaviour of the code that a sentence of the
documentation rules out; see "findings" in `PROJECT.json`):

| Run | Property | Behaviour |
|---|---|---|
| `session_alias` | `PrunedWereOrphans` | a store with two target ids (`s3://b/x` and `s3://b/x/`): a prune of one deletes what the run created through the other |
| `session_split` | `NoFalseDrift` | a target id with two backends (one URI, two option sets): only the last is verified, and a suite in sync fails |
| `session_preview` | `PruneDeletesWhatCheckListed` | `prune --check` records snapshots it does not list, and the prune deletes them |
| `session_nested` | `PrunedAreOurs` | `tests/test_api.py` owns the keys of `tests/test_api/test_users.py`, another suite's |
| `targets_options` | `OwnOptions` | a test that gives pairs is handed the backend built with a mapping of them for another test |
| `inventory_unreadable` | `EverythingIsShown` | a command exits 0 without the snapshots in `tests/.ditto`, because `tests/` cannot be listed |

The bounds, and why they are enough. Two sessions suffice for everything a
session does to what an earlier one left, since a process keeps nothing else;
more would only repeat the same disk states. Two tests give one that passes and
one that does not, and two targets one that may be pruned and one that may not;
a test with two snapshots (in `session_lock`) gives one used and one no longer
used. In `storage` the parts share no state: the variable `part`
says which one a behaviour goes through, and each is explored as far as on its own.
Three calls of `write_atomically` give two that interleave and a third
that finds the outcome. Four runs of the calls give each of two processes a
first and a second. Two stored values in the stores give a snapshot and a second
file next to, above or below it; the lengths are scaled down (24 bytes for a name)
and the theorems of `Names_proofs` hold for all. One change by others in
`maintenance`, at any point, is enough to make stale anything a command has read,
and the two commands disturb each other at any point besides; the tree has each
shape the code distinguishes (a directory in another, a link at a `.ditto` path and
one above it, a target outside PATH reached by a link, a closed directory, a store
that is listed at once and one that is not). The tests of
`targets` select a target in each way there is, three of them the same URI with
options that differ by a mapping and its items, a value or a name. `MaxKeys`, `MaxSessions`,
`MaxRuns` and `MaxChanges` bound counters the code does not have. Deadlock is not checked where a program ends:
a suite that is no longer run, a finished call or command and a closed session are
proper ends; nor in `storage`, whose calls end. The theorems hold without these bounds.

Fairness. pytest runs in one thread and test, backend and recorder calls are
taken to return or raise, so `Session` is weakly fair in its own step and
`Recording` and `AtomicWrite` in each call's (`MCStorage` in each call's of the part
it is in); nothing is assumed of the
environment, and kills may come at any moment. `Maintenance` is weakly fair in
the steps of a clean (`CleanRuns`) and of an inventory (`InventoryRuns`), each of which
is one thread; not in the
start of a command nor in the answer to a clean's question, which are the user's.
`Doctor`, `Selection` and `Stores` have safety properties only and assume no
fairness.

## 4. Proofs

All are in `*_proofs.tla`; nothing is assumed but the `ASSUME`s of the model
(types of the constants, distinctness of `Absent` and the like), which TLC
evaluates on every instance.

- **AtomicWrite_proofs**: `TypeCorrect`, `NeverWiderHolds`, `NoLeftoverHolds`,
  `KeepsBitsHolds`, `Implements`. The invariant `IInv` adds to the properties
  *where* a call holds a temporary file, which bits it has at each statement, and
  that the path never holds partial data: without the first, nothing relates the
  statement (`at`) to the file that `Replace` moves. Refinement: `Replace` is the abstract
  write, every other step a stutter or the end of a call.
- **Session_proofs**: `TypeCorrect`, `VerifyWritesNothingHolds`,
  `NewEntriesAreStoredHolds`, `DropsOnlyGoneHolds`, `RebuiltMatchesRunHolds`,
  `PrunedWereOrphansHolds`, `PrunedAreOursHolds`, `PrunedMeansCleanHolds`,
  `VerifiedIsSyncedHolds`, `NoFalseDriftHolds`, `CheckForetellsHolds`. `Phase` ties `pc` to the
  options (a verify run never reaches the lock, a dry run never deletes) and
  empties what a phase has not reached. `Observed` says every observation of a
  live session is placed and stored as long as nothing has been deleted, which
  makes an append sound. `Collected` bounds the collection record by the suite.
  `Rebuilt` carries the rebuilt lock's content to the end of the session.
  `Registry` and `Pending` say what an orphan waiting for deletion is: not
  locked, not created, under an owned prefix, prunable; `OnlyOrphansGo` that nothing
  else leaves a store during a session. `PrunedWereOrphansHolds` needs `StoresApart` (no
  two backends share a store) as a hypothesis, and `session_alias` shows that it
  fails without it; likewise `PrunedAreOursHolds` needs `PrefixesApart` (what is
  under a module's prefix is a snapshot of that module), and `session_nested` shows
  that it fails without it. `Clean` says that while the status is 0, what is still an
  orphan is still pending. The two theorems about verify need `TargetsApart` (a
  target id is one backend's): `PlacedIsRegistered` is where it enters, since what a
  test saw must have been seen in the backend that verify reads, and `session_split`
  shows that `NoFalseDrift` fails without it. The code guarantees none of the three.
  `CheckForetellsHolds` is what remains true where `session_preview` refutes the
  documentation: a prune that follows a check and goes as the check did sets out to
  delete all that the check listed and, besides, at most what the check itself left
  unsynced. `Checking` carries to the end of a check that its snapshots are stored,
  the lock is the one it was to rebuild, and the list is what is prunable; `Memory`
  carries that over to the prune, whose calls find their snapshots stored
  (`CallMemory`) and whose rebuild, if any, changes nothing (`RebuiltOnce`).
- **Recording_proofs**: `TypeCorrect`, `ReadableHolds`, `Implements` (under
  `Apart`: no two processes share a key; two RECORD runs with one key may both
  find it absent, and the slower then replaces the other's value).
  The invariant relates the call's locals to `pc`: in particular what is about
  to be written has been read back.
- **Recorders_proofs**: `TypeCorrect`, `ProblemsAreCompleteHolds`,
  `OneRecorderPerNameHolds`, `NamespacesAreClearHolds`. The key lemma,
  `AddingKeepsProblems`: a name that is in no problem of the larger set adds
  none, because each of the four rules is monotone and any new problem names it.
  `DoctorImplementsRecorders`: a session beside a doctor behaves as `Recorders`
  allows, so all of the above holds for it. `DoctorAgreesHolds`: the invariant
  says of `tried`, `plugin`, `session` and `doctor` what in the environment
  caused them, and nothing of it depends on the names that code adds.
- **Targets_proofs**: `TypeCorrect`, `OneSourceHolds`, `BoundMeansBuiltHolds`,
  `EnteredOnceHolds`, `ExitedOnceHolds`. The invariant `Books` keeps the account
  of context managers: entered are exactly those in the cache, each is on the
  stack or has been exited, never both, never twice. `Push` and `Pop` are the
  lemmas about the stack. `SelectionImplementsTargets`: whatever tests select,
  the fixture only makes calls that `Targets` allows. `SecretsStayOutHolds`, and
  `SharedWithAlikeHolds` for a `Freeze` that names what `freeze_options` computes
  (`FreezeIsFreezeOptions`, which `MCSelection` asserts of its instance). Under it
  lies `OnlyAlikeFreezeAlike`: values that `freeze_options` gives one form are alike,
  for values of any shape and depth. `Frozen` and `AlikeAs` are recursive functions,
  so that there is something to prove of them at all: `FrozenIs` and `AlikeIs` show
  that they satisfy their equations (the function of everything nested at most n
  deep exists for each n, or there would be a least n for which it does not), and
  the theorem is by a counterexample of least height, which `FrozenAlikeStep`
  rules out kind by kind: the items of a mapping give back its keys because
  `SortedKeys` enumerates them (`SortedKeysAre`), and what freezes to a key and a
  value is a pair of them (`OnlyPairsFreezeToPairs`).
- **Maintenance_proofs**: `TypeCorrect` (with `WellFormed`: the tree stays a
  tree), `CleanReportsHolds`, `CleanKeepsToDittoHolds`, `NothingIsHiddenHolds`,
  `ReachableIsShownHolds`. `CleanInv` says that what is left to remove was listed as a
  `.ditto` path below PATH and not within another, that what rmtree has opened is in a
  `.ditto` directory, below PATH unless `diverted`, and that, unless there was
  `trouble`, what is to be removed is still a directory that can be listed. That a
  path below a link ends in `.ditto` where it leads exactly if it does itself
  (`TreeAssumption`: its last part stays) is what keeps a diverted rmtree to
  `.ditto` directories. `ShowInv` says that while a command reads, each snapshot that
  has been there and within reach all along is shown, or still to be read, or below a
  directory still to be walked, or its backend was given up, which makes the result
  partial. `NothingIsHidden` is the first half of `ReachableIsShown`; it holds whatever
  changes meanwhile. The second half, `FoundExactly`, is about an undisturbed command.
  Its invariant `ExactInv` says that, while nothing has changed, a command has met what
  the walk of the directories listed so far meets, has selected what that and the
  targets dealt with so far lead to, that what it has shown is there and in view, and
  that what is there and in view has been shown or is still due.
- **Names_proofs**: `NameableFits`, `NameableIsFull`: the bound of `_flat_key` for
  every length and every choice of the limits. `Shared` is the arithmetic: the two
  parts of a label never exceed their space, and fill it unless both are whole.
  `ModuleOwnsKey`: for every module path, the remote key and the flat key of its
  snapshots begin with a prefix that `owned_prefixes` gives the module. The flat
  key is a concatenation over all segments, so this is by `Climb`: what holds of the
  first step and is kept by each holds of all.
- **Stores_proofs**: `TypeCorrect`, `ListingAgreesHolds`, `NamesFitHolds`,
  `ModulesOwnTheirKeysHolds`, `ViewsApartHolds`, `Implements`. The lemmas are about
  `NormPath`: its result goes up (`..`) at its beginning only (`NormPathIsStraight`),
  consists of parts of its argument, none further from the root than it was
  (`NormPathIsFrom`), and is the argument where that is plain (`NormPathKeepsPlain`);
  from them `KeyOfAt`, that the key of a snapshot is accepted and stands for nothing
  but itself below the root. The invariant `IInv` adds to `TypeOK`
  that stored paths are plain (`StoredIsPlain`: what `__iter__` sees is what
  `__contains__` normalises to), that partial data is only in temporary files
  (`WholeOrTemp`), that none of those is a directory (`NoTempDirs`), and that no
  snapshot is stored whose name is refused as too long (`NamesAreShort`). `StepSeen` says what each view sees of one
  changed path; both `ViewsApart` and the refinement of `Mapping` follow from it.

tlapm has no induction over data with the installed provers. Where a proof needs
it, it takes the least counterexample instead: `LeastOf` (a set of numbers has a
least one) comes from the library's theorem that a well-founded relation has
minimal elements, which is first-order.

Only model-checked: the liveness properties (`SessionEnds`, `CommandsEnd`,
`EveryCallEnds`, `WritesEnd`), which are out of the prover's reach. Every other property of a
passing run is a theorem, and so holds without the bounds of section 3; five of them
under a hypothesis that the text above names and the instances satisfy
(`StoresApart`, `TargetsApart` twice, `Apart`, `FreezeIsFreezeOptions`). Of the
properties that a run refutes, `PrunedAreOurs` is a theorem under `PrefixesApart`,
which the instances of the other `Session` runs satisfy, and `CheckForetells` bounds what
`PruneDeletesWhatCheckListed` gets wrong;
`SharedWithAlike` and `ReachableIsShown` are what remains true where `OwnOptions` and
`EverythingIsShown` are refuted.

## 5. What is not modelled

- Concurrent maintenance of the lock: `docs/src/guides/custom-backends.md`
  (line 150 on) says it is not supported. `Session`'s sessions follow each other.
- How URIs are made canonical and parsed for secrets, and `pyproject.toml` read:
  string processing, constants of `Selection`.
- The commands that start pytest (`cli/_pytest.py`) only turn their arguments
  into the options that `Session` models. Rendering (`_display`, `_summary`,
  `_report`, `_theme`, `_help`) and messages have no state.
- The formats (`recorders/`): each serialises one value and keeps nothing;
  `Recording` takes faithful and unfaithful ones as constants.
- Exceptions have no behaviour of their own, and `save_snapshot` and
  `load_snapshot` no caller in the program.
- Of the lock file, how it is serialised and ordered: it is a set of entries.
- A rebuild over a lock that does not parse starts from nothing, so the entries of
  tests that did not pass are lost; `docs/src/cli/lock.md` (line 80) accepts it, and
  `DropsOnlyGone` counts a corrupt lock as an empty one.
- Two processes that use one key: a RECORD run may replace what another has stored
  since it looked. The constants of `Recording` give processes keys of their own
  (`Apart`).
- In `Tree`: directories that are moved rather than removed; links at PATH or above
  it (`cmd_clean` refuses one at PATH), and links behind links. The docstring of
  `cmd_clean` says "Symlinked .ditto/ directories are skipped, never followed": that holds
  of links at and within a listed path, which is all it speaks of. A link put above one
  between the preview and the removal is gone through, and in the model.
- A backend that cannot be reached in a `--live` pass: the model has it as the code
  does (`Enumerate`), and a directory that cannot be listed counts as empty, although
  `plugin/_introspect.py` (lines 20-22) says that an unreachable store does not pass "for an
  empty one". No property is about it: `InView` leaves out what is out of reach.
- Temporary files of killed writes in a tree that an inventory walks: the names
  there are those of snapshots (`Stores` has such files, for the stores' listing).

## 6. Plan

Done, in this order, the most important behaviour first: `AtomicWrite`,
`Reconcile`, `LockFile`, `Session` with its proofs, `Recording`, `Recorders`,
`Targets`, `Names`, `Stores`, `Selection` and `Options`, `Doctor`, `Tree`,
`Clean`, `Inventory` and `Maintenance`, with proofs of all of them.

What would come next:

1. Two sessions that share a store but not a lock (two checkouts), prune in one
   while the other records.
2. The lock's serialisation: that what one session writes is what the next reads.
