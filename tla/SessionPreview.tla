--------------------------- MODULE SessionPreview ---------------------------
(***************************************************************************)
(* Session, with a memory of the last `ditto prune --check` that nothing   *)
(* has disturbed since: no edit of the suite, no change of storage or lock *)
(* from outside, no other session.                                         *)
(***************************************************************************)
EXTENDS Session

CONSTANT NoCheck

VARIABLE checked   \* what that check saw and listed, or NoCheck

PreviewInit == Init /\ checked = NoCheck

\* The prune that the check previews: the same suite and options, in full.
SamePrune ==
    /\ suite' = checked.suite
    /\ placement' = checked.placement
    /\ opt' = [checked.opt EXCEPT !.prune = "DELETE"]
    /\ todo' = suite'

\* `unsynced` is what the check created and the lock does not hold: a run that
\* prunes appends nothing to it.
Remember ==
    checked' =
        IF pc = "closing" /\ opt.prune = "DRY_RUN" /\ ok
        THEN [suite |-> suite, placement |-> placement, opt |-> opt,
              registered |-> registered, accessed |-> accessed, collection |-> collection,
              unsynced |-> created \ lock, listed |-> preview]
        ELSE NoCheck

\* Only the previewed session's own steps keep the memory.
PreviewNext ==
    /\ Next
    /\ \/ pc # "idle" /\ pc' # "idle" /\ UNCHANGED checked
       \/ pc = "idle" /\ pc' # "idle"
            /\ checked' = IF checked # NoCheck /\ SamePrune THEN checked ELSE NoCheck
       \/ pc = "idle" /\ pc' = "idle" /\ checked' = NoCheck
       \/ pc # "idle" /\ pc' = "idle" /\ Remember

PreviewSpec == PreviewInit /\ [][PreviewNext]_<<vars, checked>>

----------------------------------------------------------------------------

\* This run went as the check did: the same targets, snapshots and results, and
\* no call of it raised.
SameRun ==
    /\ checked # NoCheck
    /\ checked.registered = registered
    /\ checked.accessed = accessed
    /\ checked.collection = collection
    /\ \A q \in used : <<TargetOf[q[1]], q[2]>> \in accessed

\* "`--check` previews exactly what `ditto prune` would delete": a prune that
\* follows a check, with nothing in between, and goes as the check did, deletes
\* only what the check listed.
PruneDeletesWhatCheckListed ==
    [][\A o \in pending : DeleteOrphan(o) /\ SameRun => o \in checked.listed]_<<vars, checked>>

\* What such a prune is about to delete is what the check listed, in the targets
\* it can read, and beyond that at most what the check left unsynced.
CheckForetells ==
    [][\A unreadable \in SUBSET Targets :
        PruneDelete(unreadable) /\ SameRun =>
            LET listed == {o \in checked.listed : o[1] \notin unreadable}
            IN  /\ listed \subseteq pending'
                /\ pending' \ listed \subseteq
                       {<<p[1], KeyOf[p[2]]>> : p \in checked.unsynced}]_<<vars, checked>>

============================================================================
