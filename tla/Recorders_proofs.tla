-------------------------- MODULE Recorders_proofs --------------------------
(* Theorems about Recorders, and about Doctor, which runs it.              *)
EXTENDS Doctor, TLAPS

\* Adding a name that is in no problem leaves every other problem as it was.
LEMMA AddingKeepsProblems ==
    ASSUME RecordersAssumption, NEW found, found \subseteq EntryPoints,
           NEW local, local \subseteq Names,
           NEW n \in Names, n \notin local, n \notin Conflicts(found, local \cup {n})
    PROVE  Conflicts(found, local \cup {n}) = Conflicts(found, local)
<1> DEFINE before == (Discovered(found) \cup local) \cap Valid
           after == (Discovered(found) \cup (local \cup {n})) \cap Valid
<1>1. n \in Valid
  BY Zenon DEF Conflicts, NameProblems
<1>2. n \notin Discovered(found)
  <2>1. ~Duplicated(n, found, local \cup {n})
    BY <1>1, Zenon DEF Conflicts, NameProblems
  <2> QED BY <2>1 DEF Duplicated
<1>3. after = before \cup {n} /\ n \notin before
  BY <1>1, <1>2
<1>4. \A s \in after : Ambiguous(s, after) # {} => s # n /\ n \notin Ambiguous(s, after)
  <2> TAKE s \in after
  <2> HAVE Ambiguous(s, after) # {}
  <2>1. {s} \cup Ambiguous(s, after) \in NameProblems(found, local \cup {n})
    BY Zenon DEF NameProblems
  <2>2. ({s} \cup Ambiguous(s, after)) \subseteq Conflicts(found, local \cup {n})
    BY <2>1 DEF Conflicts
  <2> QED BY <2>2
<1>5. \A s \in before : Ambiguous(s, after) = Ambiguous(s, before)
  BY <1>3, <1>4 DEF Ambiguous
<1>6. \A m : m # n => (Duplicated(m, found, local \cup {n}) <=> Duplicated(m, found, local))
  BY DEF Duplicated
<1>7. ~Duplicated(n, found, local \cup {n}) /\ ~Duplicated(n, found, local)
  BY <1>2 DEF Duplicated, Discovered
<1>8. Namespace[n] \notin Reserved
  BY <1>1, Zenon DEF Conflicts, NameProblems
<1>9. /\ {{m} : m \in (Discovered(found) \cup (local \cup {n})) \ Valid}
           = {{m} : m \in (Discovered(found) \cup local) \ Valid}
      /\ {{m} : m \in {r \in after : Duplicated(r, found, local \cup {n})}}
           = {{m} : m \in {r \in before : Duplicated(r, found, local)}}
      /\ {{m} : m \in {r \in after : Namespace[r] \in Reserved}}
           = {{m} : m \in {r \in before : Namespace[r] \in Reserved}}
  <2>1. (Discovered(found) \cup (local \cup {n})) \ Valid = (Discovered(found) \cup local) \ Valid
    BY <1>1
  <2>2. {r \in after : Duplicated(r, found, local \cup {n})}
          = {r \in before : Duplicated(r, found, local)}
    <3> HIDE DEF before, after
    <3> QED BY <1>3, <1>6, <1>7
  <2>3. {r \in after : Namespace[r] \in Reserved} = {r \in before : Namespace[r] \in Reserved}
    <3> HIDE DEF before, after
    <3> QED BY <1>3, <1>8
  <2> QED BY <2>1, <2>2, <2>3, Zenon
<1>10. {{s} \cup Ambiguous(s, after) : s \in {r \in after : Ambiguous(r, after) # {}}}
         = {{s} \cup Ambiguous(s, before) : s \in {r \in before : Ambiguous(r, before) # {}}}
  <2>1. {r \in after : Ambiguous(r, after) # {}} = {r \in before : Ambiguous(r, before) # {}}
    <3> HIDE DEF before, after
    <3> QED BY <1>3, <1>4, <1>5
  <2>2. \A s \in {r \in before : Ambiguous(r, before) # {}} :
          {s} \cup Ambiguous(s, after) = {s} \cup Ambiguous(s, before)
    BY <1>5
  <2> HIDE DEF before, after
  <2> QED BY <2>1, <2>2
<1>11. NameProblems(found, local \cup {n}) = NameProblems(found, local)
  BY <1>9, <1>10, Zenon DEF NameProblems
<1> QED BY <1>11, Zenon DEF Conflicts

\* What the started session was built on.
Started == session = "started" => conflicts = {}

Inv == TypeOK /\ ProblemsAreComplete /\ OneRecorderPerName /\ Started

\* A duplicated name is a conflict, valid or not.
LEMMA DuplicatesConflict ==
    ASSUME NEW found, NEW local, NEW n, Duplicated(n, found, local)
    PROVE  n \in Conflicts(found, local)
<1>1. n \in Discovered(found) \cup local
  BY DEF Duplicated, Discovered
<1>2. {n} \in NameProblems(found, local)
  <2>1. CASE n \in Valid
    BY <1>1, <2>1, Zenon DEF NameProblems
  <2>2. CASE n \notin Valid
    BY <1>1, <2>2, Zenon DEF NameProblems
  <2> QED BY <2>1, <2>2
<1> QED BY <1>2, Zenon DEF Conflicts

\* Problems are problems of names.
LEMMA ConflictsAreNames ==
    ASSUME RecordersAssumption, NEW found, found \subseteq EntryPoints,
           NEW local, local \subseteq Names
    PROVE  Conflicts(found, local) \subseteq Names
<1>1. Discovered(found) \subseteq Names
  BY DEF Discovered, RecordersAssumption
<1>2. \A P \in NameProblems(found, local) : P \subseteq Names
  <2> TAKE P \in NameProblems(found, local)
  <2> DEFINE names == (Discovered(found) \cup local) \cap Valid
  <2>1. CASE \E n \in Discovered(found) \cup local : P = {n}
    BY <1>1, <2>1
  <2>2. CASE \E s \in names : P = {s} \cup Ambiguous(s, names)
    BY <1>1, <2>2 DEF Ambiguous
  <2> QED BY <2>1, <2>2, Zenon DEF NameProblems
<1> QED BY <1>2, Zenon DEF Conflicts

LEMMA InitInv == Init => Inv
<1> SUFFICES ASSUME Init PROVE Inv
  OBVIOUS
<1>1. conflicts \subseteq Names
  BY ConflictsAreNames, RecordersAssumption DEF Init
<1> QED BY <1>1 DEF Init, Inv, TypeOK, ProblemsAreComplete, OneRecorderPerName, Started

LEMMA NextInv ==
    ASSUME Inv, [Next]_vars
    PROVE  Inv'
<1>0. TypeOK /\ ProblemsAreComplete /\ OneRecorderPerName /\ Started BY DEF Inv
<1>1. CASE Configure
  BY <1>0, <1>1 DEF Configure, Inv, TypeOK, ProblemsAreComplete, OneRecorderPerName, Started
<1>2. ASSUME NEW n \in Names, Register(n)
      PROVE  Inv'
  <2>1. n \notin registered /\ n \notin Conflicts(installed, registered \cup {n})
    BY <1>2 DEF Register, Rejected
  <2>2. Conflicts(installed, registered \cup {n}) = Conflicts(installed, registered)
    BY <1>0, <2>1, AddingKeepsProblems, RecordersAssumption DEF TypeOK
  <2>3. \A m : ~Duplicated(m, installed, registered \cup {n})
                  \/ Duplicated(m, installed, registered)
    BY <2>1, DuplicatesConflict DEF Duplicated
  <2>4. OneRecorderPerName'
    <3>1. ~Duplicated(n, installed, registered \cup {n})
      BY <2>1, DuplicatesConflict
    <3> QED BY <1>0, <1>2, <2>3, <3>1 DEF Register, OneRecorderPerName
  <2> QED BY <1>0, <1>2, <2>2, <2>4 DEF Register, Inv, TypeOK, ProblemsAreComplete, Started
<1>3. ASSUME NEW n \in Names, Lookup(n)
      PROVE  Inv'
  <2>1. ~Duplicated(n, installed, registered)
    BY <1>0, <1>3, DuplicatesConflict DEF Lookup, Importable, ProblemsAreComplete
  <2> QED BY <1>0, <1>3, <2>1 DEF Lookup, Inv, TypeOK, ProblemsAreComplete, OneRecorderPerName, Started
<1>4. CASE UNCHANGED vars
  BY <1>0, <1>4 DEF vars, Inv, TypeOK, ProblemsAreComplete, OneRecorderPerName, Started
<1> QED BY <1>1, <1>2, <1>3, <1>4 DEF Next

\* The registry's invariant.
LEMMA Invariant == Spec => []Inv
<1>1. Init => Inv BY InitInv
<1>2. Inv /\ [Next]_vars => Inv' BY NextInv
<1> QED BY <1>1, <1>2, PTL DEF Spec

\* Every reachable state is typed.
THEOREM TypeCorrect == Spec => []TypeOK
<1>1. Inv => TypeOK BY DEF Inv
<1> QED BY <1>1, Invariant, PTL

\* The problems worked out when the registry is built are all its problems,
\* whatever names are registered in code: a registration never makes an earlier
\* one unusable.
THEOREM ProblemsAreCompleteHolds == Spec => []ProblemsAreComplete
<1>1. Inv => ProblemsAreComplete BY DEF Inv
<1> QED BY <1>1, Invariant, PTL

\* No recorder is handed out under a name that another registration has too.
THEOREM OneRecorderPerNameHolds == Spec => []OneRecorderPerName
<1>1. Inv => OneRecorderPerName BY DEF Inv
<1> QED BY <1>1, Invariant, PTL

\* In a session that starts, ditto.<name> is the mark of each recorder there is.
THEOREM NamespacesAreClearHolds == Spec => []NamespacesAreClear
<1>1. Inv => NamespacesAreClear
  <2> SUFFICES ASSUME Inv, session = "started", NEW n \in Registry
               PROVE  IsMark(n)
    BY DEF NamespacesAreClear
  <2> DEFINE names == Registry \cap Valid
             s == Namespace[n]
  <2>1. Conflicts(installed, registered) = {}
    BY DEF Inv, ProblemsAreComplete, Started
  <2>2. \A P \in NameProblems(installed, registered) : P = {}
    BY <2>1 DEF Conflicts
  <2>3. Registry \subseteq Valid
    <3>1. \A m \in Registry \ Valid : {m} \in NameProblems(installed, registered)
      BY Zenon DEF NameProblems, Registry
    <3> QED BY <2>2, <3>1
  <2>4. s \notin Reserved
    <3>1. SUFFICES ASSUME s \in Reserved PROVE FALSE
      OBVIOUS
    <3>2. {n} \in NameProblems(installed, registered)
      BY <2>3, <3>1, Zenon DEF NameProblems, Registry
    <3> QED BY <2>2, <3>2
  <2>5. n = s \/ s \notin Registry
    <3>1. SUFFICES ASSUME n # s, s \in Registry PROVE FALSE
      OBVIOUS
    <3>2. Ambiguous(s, names) # {}
      BY <2>3, <3>1 DEF Ambiguous
    <3>3. {s} \cup Ambiguous(s, names) \in NameProblems(installed, registered)
      BY <2>3, <3>1, <3>2, Zenon DEF NameProblems, Registry
    <3> QED BY <2>2, <3>3
  <2> QED BY <2>4, <2>5 DEF IsMark, HasFormats
<1> QED BY <1>1, Invariant, PTL

----------------------------------------------------------------------------
(* Doctor: the registry behaves as it does without, so what was proved of  *)
(* it holds; and the verdict follows from what the environment holds.      *)

LEMMA DoctorStepMaps ==
    ASSUME [DoctorNext]_<<vars, doctorVars>>
    PROVE  [Next]_vars
<1>1. ASSUME NEW n \in Names, Add(n) \/ Fetch(n) \/ UseRecorder(n)
      PROVE  [Next]_vars
  BY <1>1 DEF Add, Fetch, UseRecorder, Next
<1> QED
  BY <1>1 DEF DoctorNext, Doctor, LoadPlugin, Start, UseBackend, Next

\* Beside doctor, and in a session that pytest starts, the registry takes the
\* steps of Recorders and no others.
THEOREM DoctorImplementsRecorders == DoctorSpec => Spec
<1>1. DoctorInit => Init BY DEF DoctorInit
<1>2. [DoctorNext]_<<vars, doctorVars>> => [Next]_vars BY DoctorStepMaps
<1> QED BY <1>1, <1>2, PTL DEF DoctorSpec, Spec

RecorderFails(n) ==
    n \in Discovered(installed)
        /\ (n \in Conflicts(installed, {}) \/ EntryOf(n) \in Broken)
BackendFails(s) == s \in Reached /\ (s \in SchemeProblems \/ BackendOf(s) \in Broken)

\* What is tried fails exactly when there is a reason in the environment.
TriedAsFound ==
    /\ tried \subseteq Discovered(installed) \cup (Reached \ {"file"})
    /\ failed = {x \in tried : RecorderFails(x) \/ BackendFails(x)}

PluginAsFound ==
    /\ plugin = "absent" => \A e \in plugins \cap Ours : e \in Broken \/ Clash(e)
    /\ plugin = "loaded" => \E e \in plugins \cap Ours : e \notin Broken

SessionAsFound ==
    /\ conflicts = Conflicts(installed, {})
    /\ session = "started" => conflicts = {} /\ legacy = {}
    /\ session = "refused" => conflicts # {} \/ legacy # {}

Verdict ==
    /\ doctor = "ok" => PluginCheck /\ RecorderChecks /\ BackendChecks
    /\ doctor = "failed" => ~(PluginCheck /\ RecorderChecks /\ BackendChecks)

DoctorInv ==
    /\ installed \subseteq EntryPoints /\ backends \subseteq BackendPoints
    /\ TriedAsFound /\ PluginAsFound /\ SessionAsFound /\ Verdict

LEMMA NamesApart ==
    ASSUME RecordersAssumption, DoctorAssumption,
           installed \subseteq EntryPoints, backends \subseteq BackendPoints
    PROVE  /\ Discovered(installed) \subseteq Names
           /\ Reached \subseteq Schemes
           /\ Discovered(installed) \cap Reached = {}
BY DEF RecordersAssumption, DoctorAssumption, Discovered, Reached

\* Nothing but the verdict depends on what the session does.
LEMMA EnvironmentStays ==
    ASSUME UNCHANGED <<installed, legacy, environment>>
    PROVE  /\ PluginCheck' = PluginCheck
           /\ RecorderChecks' = RecorderChecks
           /\ BackendChecks' = BackendChecks
           /\ Discovered(installed)' = Discovered(installed)
           /\ Reached' = Reached
           /\ \A x : RecorderFails(x)' = RecorderFails(x)
           /\ \A x : BackendFails(x)' = BackendFails(x)
           /\ \A e : Clash(e)' = Clash(e)
BY DEF environment, PluginCheck, RecorderChecks, BackendChecks, Discovered, Reached,
       RecorderFails, BackendFails, Clash, SchemeProblems, EntryOf, BackendOf,
       Conflicts, NameProblems, Duplicated, Ambiguous

LEMMA DoctorInitInv == DoctorInit => DoctorInv
BY DEF DoctorInit, Init, DoctorInv, TriedAsFound, PluginAsFound, SessionAsFound, Verdict

LEMMA DoctorNextInv ==
    ASSUME DoctorInv, Inv, [DoctorNext]_<<vars, doctorVars>>
    PROVE  DoctorInv'
<1> USE DEF DoctorInv
<1>0. UNCHANGED <<installed, legacy, environment, conflicts>>
  BY DEF DoctorNext, Doctor, LoadPlugin, Start, Add, Fetch, UseRecorder, UseBackend, doctorVars,
         environment, vars, Configure, Register, Lookup
<1>1. CASE Doctor
  <2>1. Verdict'
    BY <1>0, <1>1, EnvironmentStays DEF Doctor, Verdict
  <2> QED BY <1>0, <1>1, <2>1, EnvironmentStays
          DEF Doctor, vars, environment, TriedAsFound, PluginAsFound, SessionAsFound
<1>2. CASE LoadPlugin
  BY <1>0, <1>2, EnvironmentStays
  DEF LoadPlugin, vars, environment, TriedAsFound, PluginAsFound, SessionAsFound, Verdict
<1>3. CASE Start
  BY <1>0, <1>3, EnvironmentStays
  DEF Start, Configure, doctorVars, environment, TriedAsFound, PluginAsFound,
      SessionAsFound, Verdict
<1>4. ASSUME NEW n \in Names, Add(n) \/ Fetch(n)
      PROVE  DoctorInv'
  BY <1>0, <1>4, EnvironmentStays
  DEF Add, Fetch, Register, Lookup, doctorVars, environment, TriedAsFound, PluginAsFound,
      SessionAsFound, Verdict
<1>5. ASSUME NEW n \in Names, UseRecorder(n)
      PROVE  DoctorInv'
  <2>1. n \in Discovered(installed) /\ tried' = tried \cup {n}
    BY <1>5 DEF UseRecorder
  <2>2. n \notin registered
    BY <2>1 DEF Inv, OneRecorderPerName, Duplicated
  <2>3. ~BackendFails(n)
    BY <2>1, NamesApart, RecordersAssumption, DoctorAssumption DEF BackendFails
  <2>4. failed' = IF RecorderFails(n) THEN failed \cup {n} ELSE failed
    BY <1>5, <2>1, <2>2 DEF UseRecorder, Importable, RecorderFails, SessionAsFound
  <2>5. failed' = {x \in tried' : RecorderFails(x) \/ BackendFails(x)}
    BY <2>1, <2>3, <2>4 DEF TriedAsFound
  <2>6. TriedAsFound'
    BY <1>0, <2>1, <2>5, EnvironmentStays DEF TriedAsFound
  <2> QED BY <1>0, <1>5, <2>6, EnvironmentStays
          DEF UseRecorder, Lookup, vars, environment, PluginAsFound, SessionAsFound, Verdict
<1>6. ASSUME NEW s \in Schemes, UseBackend(s)
      PROVE  DoctorInv'
  <2>1. s \in Reached \ {"file"} /\ tried' = tried \cup {s}
    BY <1>6 DEF UseBackend
  <2>2. ~RecorderFails(s)
    BY <2>1, NamesApart, RecordersAssumption, DoctorAssumption DEF RecorderFails
  <2>3. failed' = IF BackendFails(s) THEN failed \cup {s} ELSE failed
    BY <1>6, <2>1 DEF UseBackend, BackendFails
  <2>4. failed' = {x \in tried' : RecorderFails(x) \/ BackendFails(x)}
    BY <2>1, <2>2, <2>3 DEF TriedAsFound
  <2>5. TriedAsFound'
    BY <1>0, <2>1, <2>4, EnvironmentStays DEF TriedAsFound
  <2> QED BY <1>0, <1>6, <2>5, EnvironmentStays
          DEF UseBackend, vars, environment, PluginAsFound, SessionAsFound, Verdict
<1>7. CASE UNCHANGED <<vars, doctorVars>>
  BY <1>0, <1>7, EnvironmentStays
  DEF vars, doctorVars, environment, TriedAsFound, PluginAsFound, SessionAsFound, Verdict
<1> QED BY <1>1, <1>2, <1>3, <1>4, <1>5, <1>6, <1>7 DEF DoctorNext

LEMMA NoConflictNoProblem ==
    ASSUME NEW found, Conflicts(found, {}) = {}
    PROVE  NameProblems(found, {}) = {}
<1>1. \A P \in NameProblems(found, {}) : P = {}
  BY DEF Conflicts
<1>2. \A P \in NameProblems(found, {}) : P # {}
  BY Zenon DEF NameProblems
<1> QED BY <1>1, <1>2

LEMMA NoProblemNoConflict ==
    ASSUME NEW found, NameProblems(found, {}) = {}
    PROVE  Conflicts(found, {}) = {}
BY DEF Conflicts

LEMMA DoctorAgreesInInv == DoctorInv => DoctorAgrees
<1> SUFFICES ASSUME DoctorInv PROVE DoctorAgrees
  OBVIOUS
<1> USE DEF DoctorInv
<1>1. ASSUME doctor = "ok"
      PROVE  plugin # "absent" /\ session # "refused" /\ failed = {}
  <2>1. PluginCheck /\ RecorderChecks /\ BackendChecks
    BY <1>1 DEF Verdict
  <2>2. plugin # "absent"
    BY <2>1 DEF PluginAsFound, PluginCheck
  <2>3. Conflicts(installed, {}) = {} /\ legacy = {}
    BY <2>1, NoProblemNoConflict DEF RecorderChecks
  <2>4. \A x : ~RecorderFails(x) /\ ~BackendFails(x)
    BY <2>1, <2>3 DEF RecorderChecks, BackendChecks, RecorderFails, BackendFails
  <2> QED BY <2>2, <2>3, <2>4 DEF SessionAsFound, TriedAsFound
<1>2. ASSUME doctor = "failed", plugin = "loaded", session = "started",
             tried = Discovered(installed) \cup (Reached \ {"file"}),
             failed = {}, "file" \notin Reached, \A e \in plugins \cap Ours : ~Clash(e)
      PROVE  FALSE
  <2>1. \A x \in tried : ~RecorderFails(x) /\ ~BackendFails(x)
    BY <1>2 DEF TriedAsFound
  <2>2. PluginCheck
    <3>1. plugins \cap Ours # {} /\ Ours \cap Broken = {}
      BY <1>2, DoctorAssumption DEF PluginAsFound, DoctorAssumption
    <3> QED BY <1>2, <3>1 DEF PluginCheck
  <2>3. RecorderChecks
    <3>1. NameProblems(installed, {}) = {} /\ legacy = {}
      BY <1>2, NoConflictNoProblem DEF SessionAsFound
    <3> QED BY <1>2, <2>1, <3>1 DEF RecorderChecks, RecorderFails
  <2>4. BackendChecks
    <3>1. \A s \in Reached : s \notin SchemeProblems /\ BackendOf(s) \notin Broken
      BY <1>2, <2>1 DEF BackendFails
    <3>2. SchemeProblems \subseteq Reached
      BY DEF SchemeProblems
    <3> QED BY <3>1, <3>2 DEF BackendChecks
  <2> QED BY <1>2, <2>2, <2>3, <2>4 DEF Verdict
<1> QED BY <1>1, <1>2 DEF DoctorAgrees

\* Whatever is installed, what doctor says of it is what sessions find.
THEOREM DoctorAgreesHolds == DoctorSpec => []DoctorAgrees
<1>1. DoctorSpec => []Inv BY DoctorImplementsRecorders, Invariant, PTL
<1>2. DoctorInit => DoctorInv BY DoctorInitInv
<1>3. DoctorInv /\ Inv /\ [DoctorNext]_<<vars, doctorVars>> => DoctorInv' BY DoctorNextInv
<1>4. DoctorInv => DoctorAgrees BY DoctorAgreesInInv
<1> QED BY <1>1, <1>2, <1>3, <1>4, PTL DEF DoctorSpec

\* Every reachable state of doctor and of the session beside it is typed.
THEOREM DoctorTypeCorrect == DoctorSpec => []DoctorTypeOK
<1>1. DoctorInit => DoctorTypeOK BY DEF DoctorInit, DoctorTypeOK
<1>2. DoctorTypeOK /\ [DoctorNext]_<<vars, doctorVars>> => DoctorTypeOK'
  BY DEF DoctorTypeOK, DoctorNext, Doctor, LoadPlugin, Start, Add, Fetch, UseRecorder, UseBackend,
         doctorVars, environment
<1> QED BY <1>1, <1>2, PTL DEF DoctorSpec

============================================================================
