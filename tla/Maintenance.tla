---------------------------- MODULE Maintenance ----------------------------
(***************************************************************************)
(* `ditto clean` and an inventory command on one checkout, at the same     *)
(* time, with sessions and users that go on changing it.                   *)
(***************************************************************************)
EXTENDS Clean, Inventory

VARIABLE diverted \* history: a link has come above a directory of the preview

vars == <<disk, changes, clean, diverted, inventory, history>>

Init ==
    /\ \E tree \in Layouts : kind = tree.kind /\ closed = tree.closed
    /\ files = {f \in Snapshots : f[1] \in Dirs => kind[f[1]] = "dir"}
    /\ lock \in Locks
    /\ readable = TRUE
    /\ changes = 0
    /\ WellFormed
    /\ CleanInit
    /\ diverted = FALSE
    /\ InventoryInit

\* The history of an inventory command that runs.
Watch ==
    IF step \in {"idle", "done"} THEN UNCHANGED history
    ELSE /\ seen' = seen \cup Visible'
         /\ stayed' = stayed \cap IF live THEN Reachable(TRUE)' ELSE Reachable(FALSE)'
         /\ calm' = (calm /\ disk' = disk)

\* Whether a directory of the preview, or the way to it, is not what it was.
Disturbs ==
    /\ cleaning \in {"asking", "removing"}
    /\ \E d \in chosen :
          \/ \E e \in Within[d] : kind'[e] # kind[e]
          \/ \E e \in Within[d], n \in Names : (<<e, n>> \in files) # (<<e, n>> \in files')
          \/ \E e \in Within[d] \cup Above[d] : (e \in closed) # (e \in closed')

\* Whether the way to one now leads through a link.
Diverts ==
    /\ cleaning \in {"asking", "removing"}
    /\ \E d \in chosen : \E a \in Above[d] : kind'[a] = "link"

\* What rmtree has opened is lost to it once it is removed.
Change ==
    /\ Changing
    /\ ChangeDisk
    /\ trouble' = (trouble \/ Disturbs)
    /\ diverted' = (diverted \/ Diverts)
    /\ inside' = IF inside # NoDir /\ kind'[inside] # "dir" THEN NoDir ELSE inside
    /\ Watch
    /\ UNCHANGED <<cleaning, chosen, removed, failed, removing, status, inventory>>

\* Something in the tree can be removed no more.
Protect ==
    /\ Changing
    /\ trouble' = TRUE
    /\ UNCHANGED <<disk, cleaning, chosen, removed, failed, removing, inside, status,
                   diverted, inventory, history>>

CleanRuns == CleanStep /\ UNCHANGED <<changes, diverted, inventory>>
Answers == CleanAnswer /\ UNCHANGED <<changes, diverted, inventory>>
Starts == InventoryStart /\ UNCHANGED <<changes, clean, diverted>>
InventoryRuns == InventoryStep /\ UNCHANGED <<changes, clean, diverted>>

Next ==
    \/ Change \/ Protect
    \/ (CleanRuns \/ Answers) /\ Watch
    \/ Starts \/ InventoryRuns

\* The commands run; the user need not start or answer, nor others do anything.
Spec ==
    /\ Init /\ [][Next]_vars
    /\ WF_<<disk, clean>>(CleanRuns) /\ WF_inventory(InventoryRuns)

----------------------------------------------------------------------------

TypeOK ==
    TreeTypeOK /\ WellFormed /\ CleanTypeOK /\ InventoryTypeOK /\ diverted \in BOOLEAN

\* ditto clean reports each directory it listed, once, as deleted or as failed,
\* and exits 0 when none failed; if nobody else touches them or the way to them,
\* and all can be listed, none fails.
CleanReports ==
    cleaning = "done" /\ removed \cup failed # {} =>
        /\ removed \cup failed = chosen /\ removed \cap failed = {}
        /\ status = (IF failed = {} THEN 0 ELSE 1)
        /\ ~trouble => failed = {}

\* In a .ditto directory, and below PATH unless the way there has changed.
InDitto(d) == (\E e \in DotDitto : d \in Within[e]) /\ (d \in InPath \/ diverted)

\* What is deleted is in such a directory; of one reported as deleted nothing is left.
KeepsToDitto ==
    /\ \A f \in files \ files' : InDitto(f[1])
    /\ \A e \in Dirs : kind'[e] # kind[e] => InDitto(e)
    /\ \A d \in removed' \ removed : \A e \in Within[Spot(d)] : kind'[e] = "none"
    /\ UNCHANGED <<lock, readable>>

\* "Local only: remote snapshots and ditto.lock aren't touched."  A clean deletes
\* only in .ditto directories, and only below PATH, unless a link has taken the
\* place of a directory above a listed one since; rmtree goes through that one.
\* Links at a listed directory or within it are never followed.  What is reported
\* as deleted is gone with all that was in it.
CleanKeepsToDitto == [][changes' = changes => KeepsToDitto]_vars

\* What the walk of a tree that stays as it is meets; it enters no link.
Walked ==
    {Resolve(d) : d \in {e \in InPath \cap DotDitto :
                           kind[e] # "none" /\ IsDir(e) /\ ~Hidden(e)}}

\* What an inventory of PATH has to find: all that the directories below it hold,
\* also through links and lock entries, and what its tests have stored elsewhere;
\* not what is behind a directory that cannot be searched.
InView(f) ==
    IF live THEN
        /\ f[1] \in Live
        /\ f[1] \in Dirs => Listable(f[1])
        /\ f[1] \in Buckets => f[1] \notin closed
    ELSE \/ f[1] \in Walked
         \/ \E e \in known :
              /\ TargetOf[e] \in FileTargets /\ ~Hidden(DirOf[TargetOf[e]])
              /\ Resolve(DirOf[TargetOf[e]]) = f[1]
              /\ f[1] \in InPath \/ (KeyOf[e] = f[2] /\ f[2] \in Owned)

\* The places an inventory looks at whatever the lock and the links say.
Direct == IF live THEN Live ELSE InPath \cap DotDitto

Flawed(f) == f[2] \in BadNames \/ f \in Empty

\* What --test leaves unsaid: the snapshots of other tests.
Unselected(f) == tests # {} /\ f[2] \notin Picked(tests)

Ended == result = "none" /\ result' \in {"complete", "valid"}

\* A command that exits 0 has reported every snapshot that was there, with no
\* directory above it closed, all the time, except those --test does not select,
\* and none that never was where it is shown; what --test could not match is
\* counted; a lint finds nothing to say only if none is flawed.
NothingIsHidden ==
    Ended =>
        /\ printed' \subseteq seen \cup PairsOf(declared)
        /\ \A f \in stayed : f[1] \in Direct =>
              /\ f \in printed' \cup leftOut' \/ Unselected(f)'
              /\ result' = "valid" => ~Flawed(f)

\* When nothing changed meanwhile, a command has found exactly what it has to, and
\* nothing it knows of through the lock alone counts as unknown to the lock.
FoundExactly ==
    Ended /\ calm =>
        /\ shown = {f \in Visible : InView(f)}
        /\ live \/ \A f \in shown \cap leftOut' : f[1] \in whole

\* The inventory commands hide nothing they can reach, and find exactly that.
ReachableIsShown == [][NothingIsHidden /\ FoundExactly]_vars

\* "A permission failure is reported instead of yielding a partial inventory": what
\* exits 0, when nothing changed, has reported all the .ditto directories hold.
EverythingIsShown ==
    [][Ended /\ calm /\ ~live => \A f \in files : f[1] \in Direct =>
          f \in printed' \cup leftOut' \/ Unselected(f)']_vars

\* Once the user has agreed, a clean ends; an inventory always does.
CommandsEnd ==
    /\ cleaning = "removing" ~> cleaning = "done"
    /\ step # "idle" ~> step = "done"

============================================================================
