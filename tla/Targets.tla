------------------------------ MODULE Targets ------------------------------
(***************************************************************************)
(* resolve_uri within one pytest session, with the backend registry it     *)
(* looks up: backends are built once for a URI and its options, entered    *)
(* once, and closed when the session is unconfigured.  Tests may set and   *)
(* unset overrides (monkeypatch) between resolutions.                      *)
(***************************************************************************)
EXTENDS Sequences, SequencesExt, FiniteSets

CONSTANTS
    Uris,        \* canonical URIs
    SchemeOf,    \* [Uris -> Schemes]
    Schemes,
    Opts,        \* storage options, frozen
    Factories,   \* what plugins and overrides register
    Installed,   \* [Schemes -> SUBSET Factories]: the registrations found
    Invalid,     \* the schemes that break the naming rules, "file" among them
    Fsspec,      \* fsspec.available_protocols()
    Objects,     \* the backend objects factories return
    Managed,     \* those that are context managers
    FILE, FSSPEC, \* the sources that are not registered factories
    None

ASSUME TargetsAssumption ==
    /\ SchemeOf \in [Uris -> Schemes]
    /\ Installed \in [Schemes -> SUBSET Factories]
    /\ Invalid \subseteq Schemes /\ "file" \in Invalid
    /\ Fsspec \subseteq Schemes
    /\ Managed \subseteq Objects
    /\ None \notin Objects \cup Factories \cup {FILE, FSSPEC}
    /\ {FILE, FSSPEC} \cap Factories = {} /\ FILE # FSSPEC

VARIABLES
    overrides,   \* BACKEND_REGISTRY.overrides
    loaded,      \* the schemes whose installed factory has been imported
    cache,       \* state.backend_cache
    sources,     \* state.backend_sources
    entered,     \* state.entered_backends
    stack,       \* state.exit_stack
    builder,     \* what built each cached backend
    exits,       \* the objects exited so far, in order
    pc

session == <<cache, sources, entered, stack, builder>>
vars == <<overrides, loaded, session, exits, pc>>

Sources == Factories \cup {FILE, FSSPEC}
Cells == Uris \X Opts

TypeOK ==
    /\ overrides \in [Schemes -> Factories \cup {None}]
    /\ loaded \subseteq Schemes
    /\ cache \in [Cells -> Objects \cup {None}]
    /\ sources \in [Uris -> Sources \cup {None}]
    /\ entered \subseteq Managed
    /\ stack \in Seq(Managed)
    /\ builder \in [Cells -> Sources \cup {None}]
    /\ exits \in Seq(Managed)
    /\ pc \in {"running", "closing", "closed"}

Init ==
    /\ overrides = [s \in Schemes |-> None]
    /\ loaded = {}
    /\ cache = [c \in Cells |-> None]
    /\ sources = [u \in Uris |-> None]
    /\ entered = {}
    /\ stack = <<>>
    /\ builder = [c \in Cells |-> None]
    /\ exits = <<>>
    /\ pc = "running"

----------------------------------------------------------------------------
(* The registry.                                                           *)

\* Setting an invalid scheme, or "file", raises.
Override(s, f) ==
    /\ pc = "running"
    /\ s \notin Invalid
    /\ overrides' = [overrides EXCEPT ![s] = f]
    /\ UNCHANGED <<loaded, session, exits, pc>>

Unset(s) ==
    /\ pc = "running"
    /\ overrides[s] # None
    /\ overrides' = [overrides EXCEPT ![s] = None]
    /\ UNCHANGED <<loaded, session, exits, pc>>

\* A registration that is malformed, unreachable or not the only one.
Conflicting(s) == Installed[s] # {} /\ (s \in Invalid \/ Cardinality(Installed[s]) > 1)

\* _backend_source, for a scheme whose lookup does not raise.
Source(s) ==
    IF s = "file" THEN FILE
    ELSE IF overrides[s] # None THEN overrides[s]
    ELSE IF Installed[s] # {} THEN CHOOSE f \in Installed[s] : TRUE
    ELSE FSSPEC

LooksUpInstalled(s) == s # "file" /\ overrides[s] = None /\ Installed[s] # {}

----------------------------------------------------------------------------
(* resolve_uri                                                             *)

\* Faulty variant: the cache is consulted first.
SameSource_Cached(u) ==
    (\E o \in Opts : cache[<<u, o>>] # None) \/ sources[u] = None

\* Otherwise the call raises: the URI's scheme has another backend by now.
SameSource(u) == sources[u] \in {None, Source(SchemeOf[u])}

\* The source is looked up, which imports an installed factory the first time.
\* A conflict, or an import that fails, raises and changes nothing.
LookUp(u) ==
    LET s == SchemeOf[u] IN
    /\ pc = "running"
    /\ LooksUpInstalled(s) => ~Conflicting(s)
    /\ loaded' = IF LooksUpInstalled(s) THEN loaded \cup {s} ELSE loaded

Changed(u) ==
    /\ LookUp(u)
    /\ ~SameSource(u)
    /\ UNCHANGED <<overrides, session, exits, pc>>

Cached(u, o) ==
    /\ LookUp(u)
    /\ SameSource(u)
    /\ cache[<<u, o>>] # None
    /\ UNCHANGED <<overrides, session, exits, pc>>

CanBuild(s) == Source(s) = FSSPEC => s \in Fsspec

\* Faulty variant: a backend is entered each time it is built.
MaybeEnter_Always(b) ==
    /\ entered' = entered \cup ({b} \cap Managed)
    /\ stack' = IF b \in Managed THEN Append(stack, b) ELSE stack

\* maybe_enter: a context manager is entered once, whatever returns it.
MaybeEnter(b) ==
    IF b \in Managed \ entered
    THEN entered' = entered \cup {b} /\ stack' = Append(stack, b)
    ELSE UNCHANGED <<entered, stack>>

\* ditto's own mappings are new objects and nothing to enter; a factory may
\* return any object, one it has returned before included.
Builds(u, b) ==
    \/ Source(SchemeOf[u]) \in Factories
    \/ b \notin Managed

Build(u, o, b) ==
    /\ LookUp(u)
    /\ SameSource(u)
    /\ cache[<<u, o>>] = None
    /\ CanBuild(SchemeOf[u])
    /\ Builds(u, b)
    /\ MaybeEnter(b)
    /\ cache' = [cache EXCEPT ![<<u, o>>] = b]
    /\ sources' = [sources EXCEPT ![u] = Source(SchemeOf[u])]
    /\ builder' = [builder EXCEPT ![<<u, o>>] = Source(SchemeOf[u])]
    /\ UNCHANGED <<overrides, exits, pc>>

\* Faulty variant: the source is noted before the backend is built.
BuildRaises_Noted(u, o) ==
    /\ LookUp(u)
    /\ SameSource(u)
    /\ cache[<<u, o>>] = None
    /\ sources' = [sources EXCEPT ![u] = Source(SchemeOf[u])]
    /\ UNCHANGED <<overrides, cache, entered, stack, builder, exits, pc>>

\* The factory raises, or entering what it returned does, or there is none.
BuildRaises(u, o) ==
    /\ LookUp(u)
    /\ SameSource(u)
    /\ cache[<<u, o>>] = None
    /\ UNCHANGED <<overrides, session, exits, pc>>

----------------------------------------------------------------------------
(* pytest_unconfigure: exit_stack.close()                                  *)

Unconfigure ==
    /\ pc = "running"
    /\ pc' = "closing"
    /\ UNCHANGED <<overrides, loaded, session, exits>>

\* Faulty variant: an exit that raises stops the others.
Exit_First ==
    /\ pc = "closing" /\ stack # <<>>
    /\ exits' = Append(exits, Last(stack))
    /\ \/ stack' = Front(stack) /\ UNCHANGED pc
       \/ stack' = <<>> /\ pc' = "closed"
    /\ UNCHANGED <<overrides, loaded, cache, sources, entered, builder>>

\* Last in, first out, and an exit that raises does not stop the others.
Exit ==
    /\ pc = "closing" /\ stack # <<>>
    /\ exits' = Append(exits, Last(stack))
    /\ stack' = Front(stack)
    /\ UNCHANGED <<overrides, loaded, cache, sources, entered, builder, pc>>

Closed ==
    /\ pc = "closing" /\ stack = <<>>
    /\ pc' = "closed"
    /\ UNCHANGED <<overrides, loaded, session, exits>>

Next ==
    \/ \E s \in Schemes, f \in Factories : Override(s, f)
    \/ \E s \in Schemes : Unset(s)
    \/ \E u \in Uris : Changed(u)
    \/ \E u \in Uris, o \in Opts : Cached(u, o) \/ BuildRaises(u, o)
    \/ \E u \in Uris, o \in Opts, b \in Objects : Build(u, o, b)
    \/ Unconfigure \/ Exit \/ Closed

Spec == Init /\ [][Next]_vars

----------------------------------------------------------------------------

\* All the backends of a URI were built by one source, the one that still
\* answers for it: a session never records some of a target's snapshots
\* through one plugin and some through another.
OneSource ==
    \A u \in Uris, o \in Opts :
        cache[<<u, o>>] # None => builder[<<u, o>>] = sources[u]

\* A resolution that failed leaves no trace: only a URI with a backend is bound
\* to its source, so another factory may be tried.
BoundMeansBuilt ==
    \A u \in Uris : sources[u] # None => \E o \in Opts : cache[<<u, o>>] # None

\* While tests run and the session is finished, every backend that needs to be
\* entered has been, exactly once, though several URIs and options share it.
EnteredOnce ==
    /\ IsInjective(stack)
    /\ pc = "running" =>
          ToSet(stack) = {cache[c] : c \in Cells} \cap Managed

\* At the end each of them has been exited, exactly once.
ExitedOnce ==
    pc = "closed" => ToSet(exits) = entered /\ IsInjective(exits)

============================================================================
