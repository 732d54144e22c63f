-------------------------- MODULE Recording_proofs --------------------------
(***************************************************************************)
(* Theorems about Recording.  The argument: the locals of a call say what  *)
(* it has seen, and, when no key has two processes, what it has seen about *)
(* its key only ever changes from stored to lost.                          *)
(***************************************************************************)
EXTENDS Recording, TLAPS

\* Apart: a storage key belongs to the tests of one process.
Apart == \A p, q \in Procs : KeysOf[p] \cap KeysOf[q] # {} => p = q

InCall(p) == pc[p] \in {"exists", "load", "trip", "write"}

\* What the locals of p's call say.
Locals(p) ==
    /\ InCall(p) => key[p] \in KeysOf[p] /\ data[p] \in Data /\ answer[p] = None
    /\ pc[p] = "load" => mode[p] # "UPDATE"
    /\ pc[p] = "write" =>
          mode[p] # "VERIFY" /\ RoundTrips(data[p]) /\ raw[p] = Dumps[data[p]]

\* A call that is to save, or to miss, still has nothing to replace.
Unseen(p) ==
    pc[p] \in {"trip", "write"} /\ mode[p] # "UPDATE" => stored[key[p]] = None

Inv == TypeOK /\ Readable /\ \A p \in Procs : Locals(p)

\* What RoundTrips says of a value: its bytes are bytes and restore to data.
LEMMA RoundTripTypes ==
    ASSUME NEW d \in Data, RoundTrips(d)
    PROVE  Dumps[d] \in Bytes /\ Loads[Dumps[d]] \in Data /\ Loads[Dumps[d]] # Raises
BY RecordingAssumption DEF RoundTrips

\* The values of the constants that are not data, bytes or keys.
LEMMA NothingIsNone == None \notin Data /\ None \notin Bytes /\ None \notin Keys
BY RecordingAssumption

LEMMA InitInv == Init => Inv
BY RecordingAssumption DEF Init, Inv, TypeOK, Readable, Locals, InCall, Modes

LEMMA CallInv ==
    ASSUME Inv, NEW p \in Procs, CallStep(p)
    PROVE  Inv'
<1> USE DEF Inv
<1>1. CASE Exists(p)
  BY <1>1 DEF Exists, TypeOK, Readable, Locals, InCall, call
<1>2. CASE LoadStored(p)
  <2>1. key[p] \in Keys /\ stored[key[p]] \in Bytes
    BY <1>2, RecordingAssumption DEF LoadStored, TypeOK, Locals, InCall
  <2>2. Loads[stored[key[p]]] \in Data
    BY <1>2, <2>1, RecordingAssumption DEF LoadStored
  <2> QED BY <1>2, <2>2 DEF LoadStored, Return, TypeOK, Readable, Locals, InCall, call
<1>3. CASE RoundTripMissing(p)
  <2>1. Loads[Dumps[data[p]]] \in Data
    BY <1>3, RoundTripTypes DEF RoundTripMissing, Locals, InCall
  <2> QED BY <1>3, <2>1 DEF RoundTripMissing, Return, TypeOK, Readable, Locals, InCall, call
<1>4. CASE RoundTrip(p)
  <2>1. data[p] \in Data /\ Dumps[data[p]] \in Bytes
    BY <1>4, RoundTripTypes DEF RoundTrip, Locals, InCall
  <2> QED BY <1>4, <2>1 DEF RoundTrip, TypeOK, Readable, Locals, InCall
<1>5. ASSUME pc[p] = "write"
      PROVE  /\ key[p] \in Keys
             /\ raw[p] \in Bytes /\ Loads[raw[p]] \in Data /\ Loads[raw[p]] # Raises
  BY <1>5, RoundTripTypes, RecordingAssumption DEF Locals, InCall
<1>6. CASE Write(p)
  BY <1>5, <1>6 DEF Write, Return, TypeOK, Readable, Locals, InCall, call
<1>7. CASE CallRaises(p)
  BY <1>7 DEF CallRaises, Fails, TypeOK, Readable, Locals, InCall, call
<1>8. CASE WriteRaises(p)
  BY <1>5, <1>8 DEF WriteRaises, Fails, TypeOK, Readable, Locals, InCall, call
<1> QED BY <1>1, <1>2, <1>3, <1>4, <1>6, <1>7, <1>8 DEF CallStep

LEMMA NextInv ==
    ASSUME Inv, [Next]_vars
    PROVE  Inv'
<1> USE DEF Inv
<1>1. ASSUME NEW p \in Procs, NEW m \in Modes, StartRun(p, m)
      PROVE  Inv'
  BY <1>1, RecordingAssumption DEF StartRun, TypeOK, Readable, Locals, InCall, call
<1>2. ASSUME NEW p \in Procs, NEW k \in Keys, NEW d \in Data, Call(p, k, d)
      PROVE  Inv'
  BY <1>2 DEF Call, TypeOK, Readable, Locals, InCall
<1>3. ASSUME NEW p \in Procs, EndRun(p)
      PROVE  Inv'
  BY <1>3 DEF EndRun, TypeOK, Readable, Locals, InCall, call
<1>4. ASSUME NEW k \in Keys, Lose(k)
      PROVE  Inv'
  BY <1>4 DEF Lose, TypeOK, Readable, Locals, InCall, call
<1>5. CASE UNCHANGED vars
  BY <1>5 DEF vars, call, TypeOK, Readable, Locals, InCall
<1> QED BY <1>1, <1>2, <1>3, <1>4, <1>5, CallInv DEF Next

\* The invariant holds in every reachable state, whoever shares keys.
LEMMA Invariant == Spec => []Inv
<1>1. Init => Inv BY InitInv
<1>2. Inv /\ [Next]_vars => Inv' BY NextInv
<1> QED BY <1>1, <1>2, PTL DEF Spec

\* Every reachable state is typed.
THEOREM TypeCorrect == Spec => []TypeOK
<1>1. Inv => TypeOK BY DEF Inv
<1> QED BY <1>1, Invariant, PTL

\* Nothing a recorder cannot read back is ever stored, whatever processes race.
THEOREM ReadableHolds == Spec => []Readable
<1>1. Inv => Readable BY DEF Inv
<1> QED BY <1>1, Invariant, PTL

----------------------------------------------------------------------------

\* Only the process that has the key stores under it, so what a call has not
\* seen stays absent.
LEMMA NextUnseen ==
    ASSUME Apart, Inv, \A p \in Procs : Unseen(p), [Next]_vars, NEW q \in Procs
    PROVE  Unseen(q)'
<1>1. InCall(q) => key[q] \in KeysOf[q] /\ key[q] \in Keys
  BY RecordingAssumption DEF Inv, Locals
<1>2. ASSUME NEW p \in Procs, CallStep(p), pc'[q] \in {"trip", "write"},
             mode'[q] # "UPDATE"
      PROVE  stored'[key'[q]] = None
  <2>1. InCall(q) /\ mode'[q] = mode[q] /\ key'[q] = key[q]
    BY <1>2 DEF CallStep, Exists, LoadStored, RoundTripMissing, RoundTrip, Write,
                CallRaises, WriteRaises, Fails, Return, call, Inv, TypeOK, InCall
  <2>2. stored[key[q]] = None
    <3>1. CASE p = q /\ Exists(p)
      BY <1>2, <2>1, <3>1 DEF Exists, Inv, TypeOK
    <3>2. CASE ~(p = q /\ Exists(p))
      <4>1. pc[q] \in {"trip", "write"}
        BY <1>2, <3>2 DEF CallStep, Exists, LoadStored, RoundTripMissing, RoundTrip,
                Write, CallRaises, WriteRaises, Fails, Return, Inv, TypeOK
      <4> QED BY <1>2, <2>1, <4>1 DEF Unseen
    <3> QED BY <3>1, <3>2
  <2>3. CASE stored' = stored
    BY <2>1, <2>2, <2>3
  <2>4. CASE stored' # stored
    <3>1. /\ pc[p] = "write" /\ pc'[p] = "test"
          /\ stored' = [stored EXCEPT ![key[p]] = raw[p]]
      BY <1>2, <2>4 DEF CallStep, Exists, LoadStored, RoundTripMissing, RoundTrip,
                Write, CallRaises, WriteRaises, Fails, Return, Inv, TypeOK
    <3>2. p # q
      BY <1>2, <3>1
    <3>3. key[p] \in KeysOf[p]
      BY <3>1 DEF Inv, Locals, InCall
    <3>4. key[p] # key[q]
      BY <1>1, <2>1, <3>2, <3>3 DEF Apart
    <3> QED BY <1>1, <2>1, <2>2, <3>1, <3>4 DEF Inv, TypeOK
  <2> QED BY <2>3, <2>4
<1>3. ASSUME NEW p \in Procs, CallStep(p)
      PROVE  Unseen(q)'
  BY <1>2, <1>3 DEF Unseen
<1>4. ASSUME NEW p \in Procs, NEW m \in Modes, StartRun(p, m)
      PROVE  Unseen(q)'
  BY <1>4 DEF StartRun, Unseen, Inv, TypeOK, call
<1>5. ASSUME NEW p \in Procs, NEW k \in Keys, NEW d \in Data, Call(p, k, d)
      PROVE  Unseen(q)'
  BY <1>5 DEF Call, Unseen, Inv, TypeOK
<1>6. ASSUME NEW p \in Procs, EndRun(p)
      PROVE  Unseen(q)'
  BY <1>6 DEF EndRun, Unseen, Inv, TypeOK, call
<1>7. ASSUME NEW k \in Keys, Lose(k)
      PROVE  Unseen(q)'
  BY <1>1, <1>7 DEF Lose, Unseen, Inv, TypeOK, call, InCall
<1>8. CASE UNCHANGED vars
  BY <1>8 DEF vars, call, Unseen
<1> QED BY <1>3, <1>4, <1>5, <1>6, <1>7, <1>8 DEF Next

Told(s) == [k \in Keys |-> IF s[k] = None THEN None ELSE Loads[s[k]]]

\* Storing bytes that restore to v makes v what readers are told.
LEMMA ToldWrite ==
    ASSUME TypeOK, NEW k \in Keys, NEW b \in Bytes
    PROVE  Told([stored EXCEPT ![k] = b]) = [Told(stored) EXCEPT ![k] = Loads[b]]
BY NothingIsNone DEF Told, TypeOK

\* Each step of the processes is a step of SnapshotStore, or none.
LEMMA StepMaps ==
    ASSUME Inv, \A p \in Procs : Unseen(p), [Next]_vars
    PROVE  [Promise!Next]_(Promise!vars)
<1>0. TypeOK BY DEF Inv
<1>a. /\ Promise!vars = <<Told(stored), mode, answer>>
      /\ Promise!vars' = <<Told(stored'), mode', answer'>>
  BY DEF Promise!vars, Told
<1>1. ASSUME NEW p \in Procs, NEW m \in Modes, StartRun(p, m)
      PROVE  Promise!StartRun(p, m)
  BY <1>1 DEF StartRun, Promise!StartRun, Promise!Tell, call
<1>2. ASSUME NEW p \in Procs, NEW k \in Keys, NEW d \in Data, Call(p, k, d)
      PROVE  Promise!Forget(p)
  BY <1>2 DEF Call, Promise!Forget, Promise!Tell
<1>3. ASSUME NEW p \in Procs, EndRun(p)
      PROVE  Promise!Forget(p)
  BY <1>3 DEF EndRun, Promise!Forget, Promise!Tell, call
<1>4. ASSUME NEW k \in Keys, Lose(k)
      PROVE  Promise!Lose(k)
  BY <1>0, <1>4 DEF Lose, Promise!Lose, TypeOK, call
<1>5. ASSUME NEW p \in Procs, CallStep(p)
      PROVE  [Promise!Next]_(Promise!vars)
  <2>0. InCall(p) /\ key[p] \in Keys /\ data[p] \in Data /\ answer[p] = None
    BY <1>5, RecordingAssumption DEF Inv, Locals, InCall, CallStep, Exists, LoadStored,
        RoundTripMissing, RoundTrip, Write, CallRaises, WriteRaises, Fails
  <2>1. CASE Exists(p) \/ RoundTrip(p) \/ CallRaises(p)
    <3>1. stored' = stored /\ mode' = mode /\ answer' = answer
      BY <2>1 DEF Exists, RoundTrip, CallRaises, Fails
    <3> QED BY <1>a, <3>1
  <2>2. CASE LoadStored(p)
    <3>1. stored[key[p]] # None /\ stored[key[p]] \in Bytes
      BY <1>0, <2>0, <2>2 DEF LoadStored, TypeOK
    <3>2. Loads[stored[key[p]]] # None
      BY <2>2, <3>1, RecordingAssumption DEF LoadStored
    <3>3. Promise!Load(p, key[p])
      BY <2>0, <2>2, <3>1, <3>2 DEF LoadStored, Return, Promise!Load, Promise!Tell,
          Inv, Locals
    <3> QED BY <2>0, <3>3 DEF Promise!Next
  <2>3. CASE RoundTripMissing(p)
    <3>1. Promise!Miss(p, key[p], Loads[Dumps[data[p]]])
      BY <2>0, <2>3 DEF RoundTripMissing, Return, Promise!Miss, Promise!Tell, Unseen
    <3>2. Loads[Dumps[data[p]]] \in {Loads[Dumps[d]] : d \in {e \in Data : RoundTrips(e)}}
      BY <2>0, <2>3 DEF RoundTripMissing
    <3> QED BY <2>0, <3>1, <3>2 DEF Promise!Next
  <2>4. ASSUME pc[p] = "write", stored' = [stored EXCEPT ![key[p]] = raw[p]],
               mode' = mode,
               \/ answer' = [answer EXCEPT ![p] = Loads[raw[p]]]
               \/ answer' = [answer EXCEPT ![p] = None]
        PROVE  Promise!Next
    <3>1. raw[p] = Dumps[data[p]] /\ RoundTrips(data[p]) /\ raw[p] \in Bytes
      BY <2>0, <2>4, RoundTripTypes DEF Inv, Locals
    <3>2. PICK k \in Keys, v \in Data : k = key[p] /\ v = Loads[raw[p]]
      BY <2>0, <3>1, RoundTripTypes
    <3>3. Told(stored') = [Told(stored) EXCEPT ![k] = v]
      BY <1>0, <2>4, <3>1, <3>2, ToldWrite
    <3>4. mode[p] = "UPDATE" \/ (mode[p] = "RECORD" /\ Told(stored)[k] = None)
      BY <1>0, <2>0, <2>4, <3>2 DEF Inv, Locals, Unseen, TypeOK, Modes, Told
    <3>5. Promise!Save(p, k, v)
      BY <2>4, <3>2, <3>3, <3>4 DEF Promise!Save, Promise!Tell, Told
    <3>6. v \in {Loads[Dumps[d]] : d \in {e \in Data : RoundTrips(e)}}
      BY <2>0, <3>1, <3>2
    <3> QED BY <3>5, <3>6 DEF Promise!Next
  <2>5. CASE Write(p)
    BY <2>4, <2>5 DEF Write, Return
  <2>6. CASE WriteRaises(p)
    <3>1. answer' = [answer EXCEPT ![p] = None]
      BY <1>0, <2>0, <2>6 DEF WriteRaises, Fails, TypeOK
    <3> QED BY <2>4, <2>6, <3>1 DEF WriteRaises, Fails
  <2> QED BY <1>5, <2>1, <2>2, <2>3, <2>5, <2>6 DEF CallStep
<1>6. CASE UNCHANGED vars
  BY <1>6 DEF vars, Promise!vars
<1> QED BY <1>1, <1>2, <1>3, <1>4, <1>5, <1>6 DEF Next, Promise!Next, Modes

\* When every storage key belongs to one process, as under pytest-xdist,
\* resolve_snapshot implements a snapshot store whose calls take one instant,
\* however its steps interleave, fail, or are cut off by a kill.
THEOREM Implements == Apart => (Spec => ImplementsSnapshotStore)
<1> SUFFICES ASSUME Apart PROVE Spec => ImplementsSnapshotStore
  OBVIOUS
<1>1. Init => Promise!Init /\ (\A p \in Procs : Unseen(p))
  BY DEF Init, Promise!Init, Unseen
<1>2. Inv /\ (\A p \in Procs : Unseen(p)) /\ [Next]_vars
        => (\A p \in Procs : Unseen(p))'
  BY NextUnseen
<1>3. Inv /\ (\A p \in Procs : Unseen(p)) /\ [Next]_vars
        => [Promise!Next]_(Promise!vars)
  BY StepMaps
<1> QED BY <1>1, <1>2, <1>3, Invariant, PTL DEF Spec, ImplementsSnapshotStore, Promise!Spec

============================================================================
