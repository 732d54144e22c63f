------------------------------- MODULE Clean -------------------------------
(***************************************************************************)
(* `ditto clean`: finds the .ditto directories below PATH, shows them,     *)
(* asks, and removes them one by one, an entry at a time.  Between the     *)
(* preview and the last removal anything may happen to the tree.           *)
(***************************************************************************)
EXTENDS Tree

CONSTANT NoDir

ASSUME CleanAssumption == NoDir \notin Dirs

VARIABLES
    cleaning, \* where the command is
    chosen,   \* dirs: what the preview lists
    removed,  \* the directories reported as deleted
    failed,   \* those reported as failed
    removing, \* the directory rmtree was called for
    inside,   \* what it has opened there, NoDir before that or once it is gone
    trouble,  \* whether a removal may raise: something is protected or has changed
    status    \* the exit status

clean == <<cleaning, chosen, removed, failed, removing, inside, trouble, status>>

CleanTypeOK ==
    /\ cleaning \in {"idle", "asking", "removing", "done"}
    /\ chosen \subseteq Dirs
    /\ removed \subseteq Dirs
    /\ failed \subseteq Dirs
    /\ removing \in Dirs \cup {NoDir}
    /\ inside \in Dirs \cup {NoDir}
    /\ trouble \in BOOLEAN
    /\ status \in {0, 1}

CleanInit ==
    /\ cleaning = "idle"
    /\ chosen = {} /\ removed = {} /\ failed = {}
    /\ removing = NoDir /\ inside = NoDir
    /\ trouble = FALSE
    /\ status = 0

Exits(n) == cleaning' = "done" /\ status' = n

----------------------------------------------------------------------------
(* _find_ditto_dirs: links are named, not followed; what is below a        *)
(* directory that cannot be listed is passed over; a directory in another  *)
(* that is removed goes with it.                                           *)

Candidates ==
    {d \in InPath \cap DotDitto : kind[d] = "dir" /\ Above[d] \cap closed = {}}

\* Faulty variant: nested directories are listed on their own.
Selected_All == Candidates

Selected == {d \in Candidates : Above[d] \cap Candidates = {}}

\* A link as PATH, or a tree that cannot be walked.
Refuse ==
    /\ cleaning = "idle"
    /\ Exits(1)
    /\ UNCHANGED <<disk, chosen, removed, failed, removing, inside, trouble>>

Find ==
    /\ cleaning = "idle"
    /\ chosen' = Selected
    /\ IF Selected = {} THEN Exits(0) ELSE cleaning' = "asking" /\ UNCHANGED status
    /\ trouble' = (trouble \/ \E d \in Selected : Within[d] \cap closed # {})
    /\ UNCHANGED <<disk, removed, failed, removing, inside>>

\* --yes, or an answer at a terminal.
Agree ==
    /\ cleaning = "asking"
    /\ cleaning' = "removing"
    /\ UNCHANGED <<disk, chosen, removed, failed, removing, inside, trouble, status>>

\* No is an answer; having no terminal to ask at is an error.
Decline(terminal) ==
    /\ cleaning = "asking"
    /\ Exits(IF terminal THEN 0 ELSE 1)
    /\ UNCHANGED <<disk, chosen, removed, failed, removing, inside, trouble>>

----------------------------------------------------------------------------
(* shutil.rmtree, on the tree as it now is.  It refuses a link at the path *)
(* itself, but goes through one put above it; it opens the directory, goes *)
(* by that, and raises at the first entry it cannot remove.  A link within *)
(* is removed, not followed.  At last, rmdir goes by the path again.       *)

Left == chosen \ (removed \cup failed)

Opens(d) == kind[Spot(d)] = "dir" /\ Listable(d)

Start(d) ==
    /\ cleaning = "removing" /\ removing = NoDir
    /\ d \in Left /\ Opens(d)
    /\ removing' = d /\ inside' = Spot(d)
    /\ UNCHANGED <<disk, cleaning, chosen, removed, failed, trouble, status>>

\* Faulty variant: links in the directory are followed.
Entered_Links(d) == Within[d] \cup {Resolve(e) : e \in Below[d]}

\* What of a directory is gone through.
Entered(d) == Within[d]

\* Nothing from the opened directory down to d stands in the way.
Reaches(d) ==
    /\ cleaning = "removing" /\ inside # NoDir
    /\ d \in Entered(inside)
    /\ ({d} \cup Above[d]) \cap Within[inside] \cap closed = {}

Unlink(f) ==
    /\ f \in files /\ f[1] \in Dirs /\ Reaches(f[1])
    /\ files' = files \ {f}
    /\ UNCHANGED <<kind, closed, lock, readable, clean>>

Holds(d) == (\E e \in Below[d] : kind[e] # "none") \/ \E f \in files : f[1] = d

\* A nested link, or a nested directory once it is empty.
RemoveNested(d) ==
    /\ d # inside /\ Reaches(d)
    /\ kind[d] # "none" /\ ~Holds(d)
    /\ kind' = [kind EXCEPT ![d] = "none"]
    /\ UNCHANGED <<closed, files, lock, readable, clean>>

RemoveDir ==
    /\ cleaning = "removing" /\ removing # NoDir
    /\ LET d == Spot(removing) IN
       /\ kind[d] = "dir" /\ ~Hidden(removing) /\ ~Holds(d)
       /\ kind' = [kind EXCEPT ![d] = "none"]
       /\ closed' = closed \ {d}
    /\ removed' = removed \cup {removing}
    /\ removing' = NoDir /\ inside' = NoDir
    /\ UNCHANGED <<files, lock, readable, cleaning, chosen, failed, trouble, status>>

\* Faulty variant: a directory that could not be removed is tried again.
Fail_Retries(d) ==
    /\ removing' = NoDir /\ inside' = NoDir
    /\ UNCHANGED <<disk, cleaning, chosen, removed, failed, trouble, status>>

\* rmtree raised OSError; the next directory follows.
Fail(d) ==
    /\ failed' = failed \cup {d}
    /\ removing' = NoDir /\ inside' = NoDir
    /\ UNCHANGED <<disk, cleaning, chosen, removed, trouble, status>>

\* A link is at the path itself, or nothing is, or it cannot be listed.
StartRaises(d) ==
    /\ cleaning = "removing" /\ removing = NoDir
    /\ d \in Left /\ ~Opens(d)
    /\ Fail(d)

RemoveRaises ==
    /\ cleaning = "removing" /\ removing # NoDir
    /\ trouble
    /\ Fail(removing)

Finish ==
    /\ cleaning = "removing" /\ removing = NoDir
    /\ Left = {}
    /\ Exits(IF failed = {} THEN 0 ELSE 1)
    /\ UNCHANGED <<disk, chosen, removed, failed, removing, inside, trouble>>

CleanStep ==
    \/ Refuse \/ Find
    \/ \E d \in Dirs : Start(d) \/ RemoveNested(d) \/ StartRaises(d)
    \/ \E f \in files : Unlink(f)
    \/ RemoveDir \/ RemoveRaises \/ Finish

CleanAnswer == Agree \/ \E terminal \in BOOLEAN : Decline(terminal)

============================================================================
