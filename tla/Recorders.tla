----------------------------- MODULE Recorders -----------------------------
(***************************************************************************)
(* RecorderRegistry: the recorders that installed plugins register, found  *)
(* without importing them, and those added in code.  Naming problems are   *)
(* worked out once, when the registry is built; `register` must keep them  *)
(* true.                                                                   *)
(***************************************************************************)
CONSTANTS
    Names,
    Valid,       \* the names NAME_PATTERN matches
    Reserved,    \* RESERVED_NAMES
    Namespace,   \* [Names -> Names]: a name's first segment; a bare name's is itself
    EntryPoints, \* what plugins may register
    NameOf,      \* [EntryPoints -> Names]
    Legacy       \* distributions still on the 1.x contract

ASSUME RecordersAssumption ==
    /\ Valid \subseteq Names
    /\ Namespace \in [Names -> Names]
    /\ NameOf \in [EntryPoints -> Names]

VARIABLES
    installed,   \* the entry points found
    legacy,      \* the 1.x distributions found
    conflicts,   \* _conflicts: the names with a problem, as of construction
    registered,  \* _registered: the names added with `register`
    loaded,      \* the names whose entry point has been imported
    session      \* whether pytest_configure has let the session start

vars == <<installed, legacy, conflicts, registered, loaded, session>>

TypeOK ==
    /\ installed \subseteq EntryPoints
    /\ legacy \subseteq Legacy
    /\ conflicts \subseteq Names
    /\ registered \subseteq Names
    /\ loaded \subseteq Names
    /\ session \in {"none", "refused", "started"}

----------------------------------------------------------------------------
(* find_name_problems, for the entry points `found` and the names `local`  *)
(* added in code.                                                          *)

Discovered(found) == {NameOf[e] : e \in found}

\* Registered more than once.
Duplicated(n, found, local) ==
    \/ \E e, f \in found : e # f /\ NameOf[e] = n /\ NameOf[f] = n
    \/ n \in local /\ n \in Discovered(found)

\* The names in the namespace `s`, when `s` is a recorder's own name too.
Ambiguous(s, names) ==
    IF s \in names THEN {n \in names : n # s /\ Namespace[n] = s} ELSE {}

NameProblems(found, local) ==
    LET names == (Discovered(found) \cup local) \cap Valid IN
        {{n} : n \in (Discovered(found) \cup local) \ Valid}
        \cup {{n} : n \in {m \in names : Duplicated(m, found, local)}}
        \cup {{n} : n \in {m \in names : Namespace[m] \in Reserved}}
        \cup {{s} \cup Ambiguous(s, names) : s \in {r \in names : Ambiguous(r, names) # {}}}

Conflicts(found, local) == UNION NameProblems(found, local)

----------------------------------------------------------------------------

\* Recorder plugins are found when the registry is built.
Init ==
    /\ installed \in SUBSET EntryPoints
    /\ legacy \in SUBSET Legacy
    /\ conflicts = Conflicts(installed, {})
    /\ registered = {}
    /\ loaded = {}
    /\ session = "none"

\* Faulty variant: a problem is only reported.
Configure_Warns ==
    /\ session = "none"
    /\ session' = "started"
    /\ UNCHANGED <<installed, legacy, conflicts, registered, loaded>>

\* pytest_configure refuses to start over any problem found among the plugins.
Configure ==
    /\ session = "none"
    /\ session' = IF conflicts = {} /\ legacy = {} THEN "started" ELSE "refused"
    /\ UNCHANGED <<installed, legacy, conflicts, registered, loaded>>

\* Faulty variant: only a name that is taken is rejected.
Rejected_Taken(n) ==
    n \in registered \/ n \in Discovered(installed)

\* The new name breaks a rule by itself or together with the others.
Rejected(n) ==
    n \in registered \/ n \in Conflicts(installed, registered \cup {n})

\* A rejected name raises and changes nothing.
Register(n) ==
    /\ ~Rejected(n)
    /\ registered' = registered \cup {n}
    /\ UNCHANGED <<installed, legacy, conflicts, loaded, session>>

\* Faulty variant: the conflicts are not looked at.
Importable_Any(n) == n \notin registered /\ n \in Discovered(installed)

\* `registry[n]` gets as far as importing n's entry point.
Importable(n) ==
    n \notin conflicts /\ n \notin registered /\ n \in Discovered(installed)

\* The first lookup imports the entry point; one that raises, or is not a
\* recorder, is tried again by the next lookup.
Lookup(n) ==
    /\ Importable(n)
    /\ loaded' = loaded \cup {n}
    /\ UNCHANGED <<installed, legacy, conflicts, registered, session>>

----------------------------------------------------------------------------
(* ditto.<name>: attributes of the module come first, then its __getattr__ *)

Registry == Discovered(installed) \cup registered

\* _formats_in: some recorder has a name in the namespace s.
HasFormats(s) == \E n \in Registry : n # s /\ Namespace[n] = s

\* A bare name is a recorder's mark; failing that, a namespace, whose attributes
\* are marks.  A mark has no such attributes.
IsMark(n) ==
    LET s == Namespace[n] IN
    /\ s \notin Reserved
    /\ n \in Registry
    /\ n = s \/ (s \notin Registry /\ HasFormats(s))

Next ==
    \/ Configure
    \/ \E n \in Names : Register(n) \/ Lookup(n)

Spec == Init /\ [][Next]_vars

----------------------------------------------------------------------------

\* "A registration never makes an earlier one unusable": however many names are
\* added in code, the problems worked out at construction are all there are.
ProblemsAreComplete == conflicts = Conflicts(installed, registered)

\* The registry never picks one of several: a recorder it hands out is the only
\* one with its name, so no two recorders read and write each other's files.
OneRecorderPerName ==
    \A n \in loaded \cup registered : ~Duplicated(n, installed, registered)

\* In a session, every recorder is marked with @ditto.<its name>, whether it was
\* installed or added in code: no attribute of ditto, no recorder with the name of
\* a namespace is in the way.
NamespacesAreClear == session = "started" => \A n \in Registry : IsMark(n)

============================================================================
