----------------------------- MODULE Selection -----------------------------
(***************************************************************************)
(* The snapshot fixture, up to the backend a test is given: which recorder *)
(* and target its marks, its fixtures and the ini file select, what is     *)
(* refused, and the resolution of the URI they come to (Targets).          *)
(***************************************************************************)
EXTENDS Targets, Naturals

CONSTANTS
    Tests,
    Suite,     \* [Tests -> what a test's marks and fixtures say]
    Dirs,      \* the directories of test files
    RawUris,   \* URIs as they are written
    Canonical, \* [RawUris \X Dirs -> Uris]
    PartsOf,   \* [RawUris -> Seq(Parts)]: an fsspec chain's parts
    Parts,
    Secret,    \* the parts with a password or a secret query parameter
    Exposed,   \* the canonical URIs that show a secret
    Default,   \* "file://.ditto"
    Profiles,  \* names of target profiles
    Static,    \* the profiles of pyproject.toml
    Usable,    \* the recorders that are registered and can be imported
    Recorders, \* names of recorders
    Options,   \* storage options, as given
    Empty,     \* none
    Freeze,    \* [Options -> Opts \cup {None}]; None: freeze_options raises
    Alike,     \* [Options -> SUBSET Options]: those that are the same to a factory
    Inis       \* the ini files: records of target and target_profile

\* "string", "mapping", or a shape that resolve_profile refuses.
ProfileValues == [shape : {"string", "mapping", "invalid"}, uri : RawUris, options : Options]
IsTable(f) == DOMAIN f \subseteq Profiles /\ \A p \in DOMAIN f : f[p] \in ProfileValues
Marks == [recorder : Recorders \cup {None}, target : RawUris \cup {None},
          profile : Profiles \cup {None}]

ASSUME SelectionAssumption ==
    /\ Canonical \in [RawUris \X Dirs -> Uris]
    /\ PartsOf \in [RawUris -> Seq(Parts)]
    /\ Secret \subseteq Parts
    /\ \A r \in RawUris, d \in Dirs :   \* making it canonical adds none
          Canonical[<<r, d>>] \in Exposed => \E i \in DOMAIN PartsOf[r] : PartsOf[r][i] \in Secret
    /\ Default \in RawUris
    /\ IsTable(Static)
    /\ Usable \subseteq Recorders
    /\ Empty \in Options
    /\ Freeze \in [Options -> Opts \cup {None}]
    /\ Alike \in [Options -> SUBSET Options]
    /\ Inis \subseteq [target : RawUris \cup {None}, profile : Profiles \cup {None}]
    /\ Exposed \subseteq Uris
    /\ None \notin [test : Tests, cell : Cells]
    /\ None \notin Opts \cup Options \cup RawUris \cup Profiles \cup Recorders
    /\ \A t \in Tests :
          /\ Suite[t].marks \in Seq(Marks)
          /\ Suite[t].dir \in Dirs
          /\ Suite[t].storage \in [Schemes -> Options]
          /\ IsTable(Suite[t].profiles)
          /\ {Suite[t].outside, Suite[t].legacy} \subseteq BOOLEAN

VARIABLES
    ini,   \* the ini options
    given, \* the last test that was given a backend, and its cell
    made   \* the options each cached backend was built with

\* The types: what the fixture is given, and how its backend was built.
SelectionTypeOK ==
    /\ ini \in Inis
    /\ given \in [test : Tests, cell : Cells] \cup {None}
    /\ made \in [Cells -> Options \cup {None}]

selection == <<ini, given, made>>

SelectionInit ==
    /\ Init
    /\ ini \in Inis
    /\ given = None
    /\ made = [c \in Cells |-> None]

----------------------------------------------------------------------------

\* Faulty variant: of a chain, the first part alone is looked at.
HasCredentials_First(r) == PartsOf[r][1] \in Secret

\* uri_credentials_error
HasCredentials(r) == \E i \in DOMAIN PartsOf[r] : PartsOf[r][i] \in Secret

\* pytest_configure: validate_ini_options; otherwise no test runs.
Configured ==
    /\ ini.target = None \/ ini.profile = None
    /\ ini.target # None => ~HasCredentials(ini.target)

\* resolve_recorder: at most one record mark, with a recorder that works.
RecorderFound(t) ==
    LET marks == Suite[t].marks IN
    marks = <<>> \/ (Len(marks) = 1 /\ marks[1].recorder \in Usable)

\* parse_mark_target_selection
MarkTarget(t) == IF Suite[t].marks = <<>> THEN None ELSE Suite[t].marks[1].target
MarkProfile(t) == IF Suite[t].marks = <<>> THEN None ELSE Suite[t].marks[1].profile
MarkAmbiguous(t) == MarkTarget(t) # None /\ MarkProfile(t) # None

\* The profile the test uses: its mark's, or the ini file's.
ProfileName(t) ==
    IF MarkTarget(t) # None THEN None
    ELSE IF MarkProfile(t) # None THEN MarkProfile(t)
    ELSE ini.profile

\* load_target_profiles: no name may be in both tables.
ProfilesClash(t) == DOMAIN Suite[t].profiles \cap DOMAIN Static # {}
Profile(t, name) == IF name \in DOMAIN Static THEN Static[name] ELSE Suite[t].profiles[name]

\* resolve_profile raises.
ProfileRefused(t, name) ==
    \/ ProfilesClash(t)
    \/ name \notin DOMAIN Static \cup DOMAIN Suite[t].profiles
    \/ Profile(t, name).shape = "invalid"

SchemeOptions(t, r) == Suite[t].storage[SchemeOf[Canonical[<<r, Suite[t].dir>>]]]

\* _select_target, when the profile it needs can be resolved.
Selected(t) ==
    LET name == ProfileName(t)
        profile == Profile(t, name)
        r == IF name # None THEN profile.uri
             ELSE IF MarkTarget(t) # None THEN MarkTarget(t)
             ELSE IF ini.target # None THEN ini.target
             ELSE Default
    IN [uri |-> r,
        options |-> IF name = None THEN SchemeOptions(t, r)
                    ELSE IF profile.shape = "string" THEN Empty
                    ELSE profile.options]

\* What the fixture checks before the URI is resolved, in the code's order.
Refused(t) ==
    \/ Suite[t].outside
    \/ ~RecorderFound(t)
    \/ MarkAmbiguous(t)
    \/ Suite[t].legacy
    \/ ProfileName(t) # None /\ ProfileRefused(t, ProfileName(t))
    \/ LET target == Selected(t) IN
       HasCredentials(target.uri) \/ Freeze[target.options] = None

\* _canonicalize_uri and _cache_key
Cell(t, target) == <<Canonical[<<target.uri, Suite[t].dir>>], Freeze[target.options]>>

----------------------------------------------------------------------------

\* The fixture raises, before anything is looked up.
FixtureRaises(t) ==
    /\ pc = "running" /\ Configured
    /\ Refused(t)
    /\ UNCHANGED <<vars, selection>>

GivenTo(t, cell) == given' = [test |-> t, cell |-> cell]

\* resolve_uri for what the test selects; if it returns, the fixture has its
\* backend.
Resolve(t) ==
    /\ pc = "running" /\ Configured
    /\ ~Refused(t)
    /\ LET target == Selected(t)
           cell == Cell(t, target)
       IN \/ /\ Changed(cell[1]) \/ BuildRaises(cell[1], cell[2])
             /\ UNCHANGED <<given, made>>
          \/ /\ Cached(cell[1], cell[2])
             /\ GivenTo(t, cell)
             /\ UNCHANGED made
          \/ /\ \E b \in Objects : Build(cell[1], cell[2], b)
             /\ GivenTo(t, cell)
             /\ made' = [made EXCEPT ![cell] = target.options]
    /\ UNCHANGED ini

SelectionNext ==
    \/ /\ Configured
       /\ \E s \in Schemes, f \in Factories : Override(s, f) \/ Unset(s)
       /\ UNCHANGED selection
    \/ \E t \in Tests : FixtureRaises(t) \/ Resolve(t)
    \/ (Unconfigure \/ Exit \/ Closed) /\ UNCHANGED selection

SelectionSpec == SelectionInit /\ [][SelectionNext]_<<vars, selection>>

----------------------------------------------------------------------------

\* Target URIs are recorded in ditto.lock, which is committed: whichever mark,
\* profile or ini option a URI comes from, and whatever wraps it, no backend is
\* ever built, and no test given one, for a URI that shows a secret.
SecretsStayOut ==
    /\ \A u \in Exposed, o \in Opts : cache[<<u, o>>] = None
    /\ given # None => given.cell[1] \notin Exposed

\* What names a test's target, the most specific first.
Offers(t) ==
    LET mark == Suite[t].marks IN
    <<IF mark = <<>> THEN None ELSE mark[1].target,
      IF mark = <<>> THEN None ELSE mark[1].profile,
      ini.profile, ini.target, Default>>

FirstOffer(t) ==
    CHOOSE n \in 1..5 : Offers(t)[n] # None /\ \A m \in 1..(n - 1) : Offers(t)[m] = None

\* What the first of them stands for: the second and third name profiles.
Wanted(t) ==
    LET i == FirstOffer(t)
        name == Offers(t)[i]
        profile == IF name \in DOMAIN Static THEN Static[name] ELSE Suite[t].profiles[name]
    IN IF i \in {2, 3}
       THEN [uri |-> profile.uri,
             options |-> IF profile.shape = "mapping" THEN profile.options ELSE Empty]
       ELSE [uri |-> name,
             options |-> Suite[t].storage[SchemeOf[Canonical[<<name, Suite[t].dir>>]]]]

\* A test that is given a backend, cached or not, gets one built for the URI of
\* the first source that names its target, from its own directory, and with that
\* source's options (the profile's, or else those of ditto_storage_options for the
\* scheme) or with such as differ from them in nothing but what freeze_options
\* leaves out: a list for a tuple, True for 1, a mapping for its items.
SharedWithAlike ==
    given # None =>
        LET wanted == Wanted(given.test)
        IN /\ given.cell[1] = Canonical[<<wanted.uri, Suite[given.test].dir>>]
           /\ made[given.cell] \in Alike[wanted.options]

\* "The same URI with two different sets of storage options gets two separate
\* mappings": the backend a test is given was built with its own options.
OwnOptions == given # None => made[given.cell] = Wanted(given.test).options

============================================================================
