----------------------------- MODULE Recording -----------------------------
(***************************************************************************)
(* resolve_snapshot, one backend or recorder call at a time, in several    *)
(* pytest processes that share a store: xdist workers, or runs of two      *)
(* checkouts.  Session treats a call as one step on keys; here are its     *)
(* values and the windows between its steps.                               *)
(***************************************************************************)
EXTENDS Naturals

CONSTANTS
    Procs, Keys,
    Data,        \* what tests pass, and what recorders restore
    Bytes,
    Dumps,       \* [Data -> Bytes \cup {Raises}]: recorder.dumps
    Loads,       \* [Bytes -> Data \cup {Raises}]: recorder.loads
    KeysOf,      \* [Procs -> SUBSET Keys]: the storage keys of a process's tests
    Losing,      \* whether another process deletes snapshots meanwhile
    MaxRuns,     \* bound on the number of runs
    Raises, None

Modes == {"RECORD", "UPDATE", "VERIFY"}

ASSUME RecordingAssumption ==
    /\ Dumps \in [Data -> Bytes \cup {Raises}]
    /\ Loads \in [Bytes -> Data \cup {Raises}]
    /\ KeysOf \in [Procs -> SUBSET Keys]
    /\ Losing \in BOOLEAN
    /\ MaxRuns \in Nat
    /\ Raises \notin Data \cup Bytes
    /\ None \notin Data \cup Bytes \cup Keys

VARIABLES
    stored,   \* stored[k]: the bytes the backend holds for k, or None
    pc,       \* where each process is in its call, if it is in one
    mode,     \* snapshot.mode
    used,     \* tracker.used_keys
    key, data, raw,  \* the locals of the call
    answer,   \* what the last call returned, or None while it runs or if it raised
    runs

call == <<key, data, raw>>
vars == <<stored, pc, mode, used, call, answer, runs>>

TypeOK ==
    /\ stored \in [Keys -> Bytes \cup {None}]
    /\ pc \in [Procs -> {"out", "test", "exists", "load", "trip", "write"}]
    /\ mode \in [Procs -> Modes]
    /\ used \in [Procs -> SUBSET Keys]
    /\ key \in [Procs -> Keys \cup {None}]
    /\ data \in [Procs -> Data \cup {None}]
    /\ raw \in [Procs -> Bytes \cup {None}]
    /\ answer \in [Procs -> Data \cup {None}]
    /\ runs \in 0..MaxRuns

Init ==
    /\ stored = [k \in Keys |-> None]
    /\ pc = [p \in Procs |-> "out"]
    /\ mode = [p \in Procs |-> "RECORD"]
    /\ used = [p \in Procs |-> {}]
    /\ key = [p \in Procs |-> None]
    /\ data = [p \in Procs |-> None]
    /\ raw = [p \in Procs |-> None]
    /\ answer = [p \in Procs |-> None]
    /\ runs = 0

StartRun(p, m) ==
    /\ pc[p] = "out" /\ runs < MaxRuns
    /\ runs' = runs + 1
    /\ pc' = [pc EXCEPT ![p] = "test"]
    /\ mode' = [mode EXCEPT ![p] = m]
    /\ used' = [used EXCEPT ![p] = {}]
    /\ answer' = [answer EXCEPT ![p] = None]
    /\ UNCHANGED <<stored, call>>

\* A second call for a key raises before it touches the store.
Call(p, k, d) ==
    /\ pc[p] = "test"
    /\ k \in KeysOf[p] \ used[p]
    /\ pc' = [pc EXCEPT ![p] = "exists"]
    /\ used' = [used EXCEPT ![p] = @ \cup {k}]
    /\ key' = [key EXCEPT ![p] = k]
    /\ data' = [data EXCEPT ![p] = d]
    /\ raw' = [raw EXCEPT ![p] = None]
    /\ answer' = [answer EXCEPT ![p] = None]
    /\ UNCHANGED <<stored, mode, runs>>

\* `storage_key in backend`, and the branch it decides.
Exists(p) ==
    /\ pc[p] = "exists"
    /\ pc' = [pc EXCEPT ![p] = IF stored[key[p]] # None /\ mode[p] # "UPDATE"
                               THEN "load" ELSE "trip"]
    /\ UNCHANGED <<stored, mode, used, call, answer, runs>>

Return(p, v) ==
    /\ pc' = [pc EXCEPT ![p] = "test"]
    /\ answer' = [answer EXCEPT ![p] = v]

\* The stored bytes may be gone by now, or not be the recorder's.
LoadStored(p) ==
    /\ pc[p] = "load"
    /\ stored[key[p]] # None
    /\ Loads[stored[key[p]]] # Raises
    /\ Return(p, Loads[stored[key[p]]])
    /\ UNCHANGED <<stored, mode, used, call, runs>>

\* Faulty variant: the bytes to write are not read back first.
RoundTrips_DumpsOnly(d) == Dumps[d] # Raises

\* _round_trip succeeds.
RoundTrips(d) == Dumps[d] # Raises /\ Loads[Dumps[d]] # Raises

\* Faulty variant: the bytes are returned, not what they restore.
RoundTripMissing_Raw(p) ==
    /\ pc[p] = "trip" /\ mode[p] = "VERIFY"
    /\ RoundTrips(data[p])
    /\ Return(p, Dumps[data[p]])
    /\ UNCHANGED <<stored, mode, used, call, runs>>

\* A key that is missing under VERIFY: the value is restored, not stored.
RoundTripMissing(p) ==
    /\ pc[p] = "trip" /\ mode[p] = "VERIFY"
    /\ RoundTrips(data[p])
    /\ Return(p, Loads[Dumps[data[p]]])
    /\ UNCHANGED <<stored, mode, used, call, runs>>

RoundTrip(p) ==
    /\ pc[p] = "trip" /\ mode[p] # "VERIFY"
    /\ RoundTrips(data[p])
    /\ raw' = [raw EXCEPT ![p] = Dumps[data[p]]]
    /\ pc' = [pc EXCEPT ![p] = "write"]
    /\ UNCHANGED <<stored, mode, used, key, data, answer, runs>>

\* Faulty variant: the caller gets its own data back.
Write_ReturnsData(p) ==
    /\ pc[p] = "write"
    /\ stored' = [stored EXCEPT ![key[p]] = raw[p]]
    /\ Return(p, data[p])
    /\ UNCHANGED <<mode, used, call, runs>>

Write(p) ==
    /\ pc[p] = "write"
    /\ stored' = [stored EXCEPT ![key[p]] = raw[p]]
    /\ Return(p, Loads[raw[p]])
    /\ UNCHANGED <<mode, used, call, runs>>

\* Faulty variant: a call that raises is tried again.
Fails_Retry(p) ==
    /\ pc[p] \in {"exists", "load", "trip", "write"}
    /\ pc' = [pc EXCEPT ![p] = "exists"]
    /\ UNCHANGED <<mode, used, call, answer, runs>>

Fails(p) ==
    /\ pc[p] \in {"exists", "load", "trip", "write"}
    /\ pc' = [pc EXCEPT ![p] = "test"]
    /\ UNCHANGED <<mode, used, call, answer, runs>>

\* The backend or the recorder raises and nothing has changed.
CallRaises(p) == Fails(p) /\ UNCHANGED stored

\* The backend stored the value and then raised.
WriteRaises(p) ==
    /\ pc[p] = "write"
    /\ Fails(p)
    /\ stored' = [stored EXCEPT ![key[p]] = raw[p]]

\* The run ends, or its process is killed at any point of a call.
EndRun(p) ==
    /\ pc[p] # "out"
    /\ pc' = [pc EXCEPT ![p] = "out"]
    /\ answer' = [answer EXCEPT ![p] = None]
    /\ UNCHANGED <<stored, mode, used, call, runs>>

\* Another process's prune, or a `ditto clean`.
Lose(k) ==
    /\ Losing
    /\ stored[k] # None
    /\ stored' = [stored EXCEPT ![k] = None]
    /\ UNCHANGED <<pc, mode, used, call, answer, runs>>

CallStep(p) ==
    \/ Exists(p) \/ LoadStored(p) \/ RoundTripMissing(p) \/ RoundTrip(p) \/ Write(p)
    \/ CallRaises(p) \/ WriteRaises(p)

Next ==
    \/ \E p \in Procs, m \in Modes : StartRun(p, m)
    \/ \E p \in Procs, k \in Keys, d \in Data : Call(p, k, d)
    \/ \E p \in Procs : CallStep(p) \/ EndRun(p)
    \/ \E k \in Keys : Lose(k)

\* Backend and recorder calls return or raise.
Spec == Init /\ [][Next]_vars /\ \A p \in Procs : WF_vars(CallStep(p))

----------------------------------------------------------------------------

\* Nothing unreadable is ever stored: bytes are read back before they are
\* written, so a recorder that cannot restore what it dumps fails its test and
\* leaves the previous snapshot in place.
Readable == \A k \in Keys : stored[k] # None => Loads[stored[k]] # Raises

\* When no two processes have a key in common (xdist: a key belongs to one
\* test), the steps of resolve_snapshot add up to calls at one instant.
Promise ==
    INSTANCE SnapshotStore WITH
        Restored <- {Loads[Dumps[d]] : d \in {e \in Data : RoundTrips(e)}},
        value <- [k \in Keys |-> IF stored[k] = None THEN None ELSE Loads[stored[k]]]

ImplementsSnapshotStore == Promise!Spec

\* Every call returns or raises.
EveryCallEnds == \A p \in Procs : pc[p] = "exists" ~> pc[p] \in {"test", "out"}

============================================================================
