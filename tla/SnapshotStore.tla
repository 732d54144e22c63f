--------------------------- MODULE SnapshotStore ---------------------------
(***************************************************************************)
(* What calling `snapshot(data, key)` promises, each call at one instant:  *)
(* RECORD keeps a stored value, UPDATE replaces it, VERIFY changes nothing,*)
(* and the caller is told what the store holds.                            *)
(***************************************************************************)
CONSTANTS
    Procs, Keys,
    Restored,      \* the values a recorder can read back
    None

VARIABLES
    value,   \* value[k]: what a reader of k would be told, or None
    mode,    \* mode[p]: the mode of p's run
    answer   \* answer[p]: what p's last call returned, or None

vars == <<value, mode, answer>>

Init ==
    /\ value = [k \in Keys |-> None]
    /\ mode \in [Procs -> {"RECORD", "UPDATE", "VERIFY"}]
    /\ answer = [p \in Procs |-> None]

Tell(p, v) == answer' = [answer EXCEPT ![p] = v]

Load(p, k) ==
    /\ mode[p] # "UPDATE"
    /\ value[k] # None
    /\ Tell(p, value[k])
    /\ UNCHANGED <<value, mode>>

Save(p, k, v) ==
    /\ mode[p] = "UPDATE" \/ (mode[p] = "RECORD" /\ value[k] = None)
    /\ value' = [value EXCEPT ![k] = v]
    /\ Tell(p, v) \/ Tell(p, None)   \* None: the write raised after it took effect
    /\ UNCHANGED mode

Miss(p, k, v) ==
    /\ mode[p] = "VERIFY"
    /\ value[k] = None
    /\ Tell(p, v)
    /\ UNCHANGED <<value, mode>>

Forget(p) == Tell(p, None) /\ UNCHANGED <<value, mode>>

StartRun(p, m) ==
    /\ mode' = [mode EXCEPT ![p] = m]
    /\ Tell(p, None)
    /\ UNCHANGED value

Lose(k) ==
    /\ value' = [value EXCEPT ![k] = None]
    /\ UNCHANGED <<mode, answer>>

Next ==
    \/ \E p \in Procs, k \in Keys : Load(p, k)
    \/ \E p \in Procs, k \in Keys, v \in Restored : Save(p, k, v) \/ Miss(p, k, v)
    \/ \E p \in Procs : Forget(p)
    \/ \E p \in Procs, m \in {"RECORD", "UPDATE", "VERIFY"} : StartRun(p, m)
    \/ \E k \in Keys : Lose(k)

Spec == Init /\ [][Next]_vars

============================================================================
