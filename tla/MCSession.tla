----------------------------- MODULE MCSession -----------------------------
(* Small suites for the Session runs.                                      *)
EXTENDS Session, FiniteSets, TLC

CONSTANTS a, b, m, n, a1, a2, b1, ka1, ka2, kb1, p, q, P, Q, sp, sq

\* Test a, in module m, may use two snapshots; test b, in module n, one.
MCNodeOf == a1 :> a @@ a2 :> a @@ b1 :> b
MCAbove == a :> {m} @@ b :> {n}
MCModuleOf == a :> m @@ b :> n
MCKeyOf == a1 :> ka1 @@ a2 :> ka2 @@ b1 :> kb1
MCUnder == m :> {ka1, ka2} @@ n :> {kb1}

\* p is a directory of the checkout, q a remote target.
MCTargetOf == p :> P @@ q :> Q
MCStoreOf == p :> sp @@ q :> sq

OneBackend == {[t \in Tests |-> p]}
BothBackends == {[t \in Tests |-> p], a :> p @@ b :> q}

OneTargetOf == p :> P
OneStoreOf == p :> sp

\* One snapshot each, and only a file without tests to leave out or break.
NoneAbove == a :> {} @@ b :> {}
TwoNodeOf == a1 :> a @@ b1 :> b
TwoKeyOf == a1 :> ka1 @@ b1 :> kb1
TwoUnder == m :> {ka1} @@ n :> {kb1}

Run(modes, rebuilds, prunes, shareds, narrows, dists) ==
    {o \in [mode : modes, rebuild : rebuilds, prune : prunes, shared : shareds,
            narrow : narrows, dist : dists] : Accepted(o)}

\* Plain and ditto lock runs, full, filtered or narrowed, and full updates.
LockOptions ==
    Run({"RECORD"}, BOOLEAN, {"OFF"}, {FALSE}, {"no", "filter", "args"}, {FALSE})
    \cup Run({"UPDATE"}, {FALSE}, {"OFF"}, {FALSE}, {"no"}, {FALSE})

\* Plain and distributed runs, prunes, with --ditto-lock, --ditto-update and
\* --ditto-prune-shared too, checks, and verify runs, full and filtered.
ReconcileOptions ==
    Run({"RECORD"}, {FALSE}, {"OFF"}, {FALSE}, {"no"}, {TRUE, FALSE})
    \cup Run({"RECORD"}, BOOLEAN, {"DELETE"}, {FALSE}, {"no"}, {FALSE})
    \cup Run({"UPDATE"}, {FALSE}, {"DELETE"}, {TRUE}, {"no"}, {FALSE})
    \cup Run({"RECORD"}, {FALSE}, {"DRY_RUN"}, {FALSE}, {"no"}, {FALSE})
    \cup Run({"VERIFY"}, {FALSE}, {"OFF"}, {FALSE}, {"no", "filter"}, {FALSE})

\* One store under two target ids: s3://bucket/snaps and s3://bucket/snaps/,
\* used by two tests of one file.
AliasStoreOf == p :> sp @@ q :> sp
SplitBackends == {a :> p @@ b :> q}
SharedModuleOf == a :> m @@ b :> m
SharedUnder == m :> {ka1, kb1} @@ n :> {}
AliasOptions ==
    Run({"RECORD"}, {FALSE}, {"OFF"}, {FALSE}, {"no"}, {FALSE})
    \cup Run({"RECORD"}, {FALSE}, {"DELETE"}, {TRUE}, {"no"}, {FALSE})

\* One target id for two stores: one URI, with storage options that differ in
\* the endpoint.
SplitTargetOf == p :> P @@ q :> P
SplitOptions ==
    Run({"RECORD", "VERIFY"}, {FALSE}, {"OFF"}, {FALSE}, {"no"}, {FALSE})

\* Two suites share a remote target: one has tests/test_api.py (m), the other
\* tests/test_api/test_users.py (n), whose keys start with "tests/test_api/" too.
NestedUnder == m :> {ka1, kb1} @@ n :> {kb1}
OnShared == {[t \in Tests |-> q]}

============================================================================
