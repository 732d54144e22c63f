------------------------------- MODULE Doctor -------------------------------
(***************************************************************************)
(* `ditto doctor` beside a pytest session of the same environment.  The    *)
(* doctor reads the installed entry points in a process of its own and     *)
(* imports each; in the session, pytest loads the plugin, which may refuse *)
(* to start, and tests look recorders and backends up one at a time, among *)
(* names that code has added (Recorders).                                  *)
(***************************************************************************)
EXTENDS Recorders

CONSTANTS
    BackendPoints, \* what plugins may register as backends
    SchemeOf,      \* [BackendPoints -> Schemes]
    Schemes,
    Malformed,     \* the schemes SCHEME_PATTERN does not match
    PluginPoints,  \* pytest11 entry points
    PluginName,    \* [PluginPoints -> PluginNames]: pytest loads one of each name
    PluginNames,
    Ours,          \* those that target ditto.plugin
    Broken         \* the entry points that do not import, or not to what they claim

ASSUME DoctorAssumption ==
    /\ SchemeOf \in [BackendPoints -> Schemes]
    /\ Malformed \subseteq Schemes
    /\ "file" \in Schemes \ Malformed
    /\ PluginName \in [PluginPoints -> PluginNames]
    /\ Ours \subseteq PluginPoints
    /\ Ours \cap Broken \in {{}, Ours}   \* they are one module
    /\ Names \cap Schemes = {}

VARIABLES
    backends, \* the backend entry points found
    plugins,  \* the pytest11 entry points found
    plugin,   \* what became of ditto.plugin in the session
    tried,    \* the installed recorders and backends that tests have looked up
    failed,   \* those whose lookup raised
    doctor    \* what `ditto doctor` last said

environment == <<backends, plugins>>
doctorVars == <<environment, plugin, tried, failed, doctor>>

DoctorTypeOK ==
    /\ backends \subseteq BackendPoints
    /\ plugins \subseteq PluginPoints
    /\ plugin \in {"none", "loaded", "absent"}
    /\ tried \subseteq Names \cup Schemes
    /\ failed \subseteq tried
    /\ doctor \in {"none", "ok", "failed"}

DoctorInit ==
    /\ Init
    /\ backends \in SUBSET BackendPoints
    /\ plugins \in SUBSET PluginPoints
    /\ plugin = "none"
    /\ tried = {}
    /\ failed = {}
    /\ doctor = "none"

----------------------------------------------------------------------------
(* What an environment holds, as any process finds it.                     *)

\* The entry point that would be imported for the recorder n: the first found.
EntryOf(n) == CHOOSE e \in installed : NameOf[e] = n
BackendOf(s) == CHOOSE e \in backends : SchemeOf[e] = s

Reached == {SchemeOf[e] : e \in backends}

\* find_scheme_problems: each names one scheme.
SchemeProblems ==
    {s \in Reached :
        \/ s \in Malformed
        \/ \E e, f \in backends : e # f /\ SchemeOf[e] = s /\ SchemeOf[f] = s
        \/ s = "file"}

\* Another plugin has the name of ditto's.
Clash(e) == \E f \in plugins \ Ours : PluginName[f] = PluginName[e]

----------------------------------------------------------------------------
(* ditto doctor                                                            *)

\* _plugin_check: one of the entry points that target ditto.plugin is checked.
PluginCheck ==
    LET ours == plugins \cap Ours
        e == CHOOSE p \in ours : TRUE
    IN ours # {} /\ ~Clash(e) /\ e \notin Broken

\* Faulty variant: a problem is reported by the names it makes unusable alone.
RecorderChecks_Named ==
    /\ NameProblems(installed, {}) = {}
    /\ \A n \in Discovered(installed) : EntryOf(n) \notin Broken

\* A row for each problem, and one for each recorder without any that fails.
RecorderChecks ==
    /\ NameProblems(installed, {}) = {} /\ legacy = {}
    /\ \A n \in Discovered(installed) \ Conflicts(installed, {}) : EntryOf(n) \notin Broken

BackendChecks ==
    /\ SchemeProblems = {}
    /\ \A s \in Reached \ SchemeProblems : BackendOf(s) \notin Broken

Doctor ==
    /\ doctor' = IF PluginCheck /\ RecorderChecks /\ BackendChecks THEN "ok" ELSE "failed"
    /\ UNCHANGED <<vars, environment, plugin, tried, failed>>

----------------------------------------------------------------------------
(* The session                                                             *)

\* pytest imports the plugins it finds, the first of each name.
LoadPlugin ==
    /\ plugin = "none"
    /\ \/ plugin' = "loaded" /\ \E e \in plugins \cap Ours : e \notin Broken
       \/ plugin' = "absent" /\ \A e \in plugins \cap Ours : e \in Broken \/ Clash(e)
    /\ UNCHANGED <<vars, environment, tried, failed, doctor>>

Start ==
    /\ plugin = "loaded"
    /\ Configure
    /\ UNCHANGED doctorVars

\* Code of a conftest or a test module runs before the session starts, too.
Add(n) ==
    /\ plugin = "loaded"
    /\ Register(n)
    /\ UNCHANGED doctorVars

\* A lookup that such code makes, of a recorder it names.
Fetch(n) ==
    /\ plugin = "loaded"
    /\ Lookup(n) /\ EntryOf(n) \notin Broken
    /\ UNCHANGED doctorVars

\* A test with an installed recorder.
UseRecorder(n) ==
    /\ session = "started"
    /\ n \in Discovered(installed)
    /\ tried' = tried \cup {n}
    /\ IF Importable(n) /\ EntryOf(n) \notin Broken
       THEN Lookup(n) /\ UNCHANGED failed
       ELSE failed' = failed \cup {n} /\ UNCHANGED vars
    /\ UNCHANGED <<environment, plugin, doctor>>

\* A test with a target of an installed backend; targets of "file" never get
\* as far as the registry.
UseBackend(s) ==
    /\ session = "started"
    /\ s \in Reached \ {"file"}
    /\ tried' = tried \cup {s}
    /\ failed' = IF s \in SchemeProblems \/ BackendOf(s) \in Broken
                 THEN failed \cup {s} ELSE failed
    /\ UNCHANGED <<vars, environment, plugin, doctor>>

DoctorNext ==
    \/ Doctor \/ LoadPlugin \/ Start
    \/ \E n \in Names : Add(n) \/ Fetch(n) \/ UseRecorder(n)
    \/ \E s \in Schemes : UseBackend(s)

DoctorSpec == DoctorInit /\ [][DoctorNext]_<<vars, doctorVars>>

----------------------------------------------------------------------------

\* What doctor says is so: if it passes, every session gets ditto's plugin,
\* starts, and finds each installed recorder and backend, whatever names code
\* adds; if it fails, either another plugin has the name of ditto's, or a backend
\* is registered that no target reaches, or a session that tries everything that
\* is installed fails somewhere.
DoctorAgrees ==
    /\ doctor = "ok" => plugin # "absent" /\ session # "refused" /\ failed = {}
    /\ (doctor = "failed" /\ plugin = "loaded" /\ session = "started"
          /\ tried = Discovered(installed) \cup (Reached \ {"file"}))
            => \/ failed # {}
               \/ "file" \in Reached
               \/ \E e \in plugins \cap Ours : Clash(e)

============================================================================
