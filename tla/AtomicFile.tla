---------------------------- MODULE AtomicFile ----------------------------
(***************************************************************************)
(* What write_atomically promises its callers (snapshot files and          *)
(* ditto.lock alike): a file whose whole contents are replaced by one      *)
(* call at one instant, or not at all.  A call that returns has replaced   *)
(* them; one that raises, or whose process dies, may or may not have.      *)
(***************************************************************************)
CONSTANTS
    Calls,    \* the calls of write_atomically on one path
    DataOf,   \* [Calls -> data]: the bytes each call writes
    Absent    \* the value of a path where there is no file

VARIABLES
    value,    \* the contents a reader of the path sees
    status    \* where each call stands

vars == <<value, status>>

Written == {DataOf[c] : c \in Calls}

Init ==
    /\ value \in Written \cup {Absent}
    /\ status = [c \in Calls |-> "running"]

Goto(c, from, to) ==
    /\ status[c] \in from
    /\ status' = [status EXCEPT ![c] = to]

\* The instant the file changes, all of it at once.
Commit(c) ==
    /\ Goto(c, {"running"}, "committed")
    /\ value' = DataOf[c]

\* A call returns only once its data is the file's.
Return(c) ==
    /\ Goto(c, {"committed"}, "returned")
    /\ UNCHANGED value

\* A call that raises, or is killed, may have committed or not.
Stop(c) ==
    /\ Goto(c, {"running", "committed"}, "stopped")
    /\ UNCHANGED value

Next == \E c \in Calls : Commit(c) \/ Return(c) \/ Stop(c)

Spec == Init /\ [][Next]_vars

============================================================================
