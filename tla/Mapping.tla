------------------------------ MODULE Mapping ------------------------------
(***************************************************************************)
(* What ditto takes its stores to be: MutableMappings whose values are     *)
(* whole and change one key at a time.  Several may change in one step,    *)
(* being views of one thing, but each by one key only.                     *)
(***************************************************************************)
CONSTANTS Views, Values
VARIABLE contents      \* contents[v]: a function from some keys to values

Init == contents = [v \in Views |-> [k \in {} |-> {}]]

\* One key of v is set, replaced or deleted; all others keep their values.
Change(v, k) ==
    /\ DOMAIN contents'[v] \ {k} = DOMAIN contents[v] \ {k}
    /\ \A j \in DOMAIN contents[v] \ {k} : contents'[v][j] = contents[v][j]
    /\ k \in DOMAIN contents'[v] => contents'[v][k] \in Values

Next ==
    \A v \in Views :
        \/ contents'[v] = contents[v]
        \/ \E k \in DOMAIN contents[v] \cup DOMAIN contents'[v] : Change(v, k)

Spec == Init /\ [][Next]_contents

============================================================================
