------------------------- MODULE Maintenance_proofs -------------------------
(* Theorems about Maintenance: what ditto clean removes and reports, and    *)
(* that the inventory commands hide nothing they can reach and find exactly *)
(* what there is.                                                           *)
EXTENDS Maintenance, TLAPS

----------------------------------------------------------------------------
(* Paths.                                                                  *)

TreeOK ==
    /\ kind \in Kinds
    /\ closed \subseteq Places
    /\ files \subseteq Snapshots
    /\ lock \subseteq Entries
    /\ readable \in BOOLEAN
    /\ WellFormed

\* Nothing is above itself, and what is above is so for all below.
LEMMA AboveIsOrder ==
    /\ \A d \in Dirs : Above[d] \subseteq Dirs /\ d \notin Above[d]
    /\ \A d \in Dirs : \A e \in Above[d] : Above[e] \subseteq Above[d]
BY TreeAssumption DEF TreeAssumption

LEMMA BelowIsDown ==
    /\ \A d \in Dirs : \A e : e \in Below[d] <=> e \in Dirs /\ d \in Above[e]
    /\ \A d \in Dirs : \A e : e \in Within[d] <=> e = d \/ e \in Below[d]
    /\ \A d \in Dirs : Within[d] \subseteq Dirs
BY DEF Below, Within

LEMMA WithinGoesDown ==
    ASSUME NEW d \in Dirs, NEW e \in Within[d]
    PROVE  Within[e] \subseteq Within[d]
BY BelowIsDown, AboveIsOrder

\* A path with no link above it leads to itself; a .ditto to a .ditto.
LEMMA SpotLeads ==
    ASSUME TreeOK, NEW d \in Dirs
    PROVE  /\ Spot(d) \in Dirs /\ Resolve(d) \in Dirs
           /\ (\A a \in Above[d] : kind[a] # "link") => Spot(d) = d
           /\ d \in DotDitto => Spot(d) \in DotDitto
           /\ kind[d] # "none" => Spot(d) = d
           /\ kind[d] = "dir" => Resolve(d) = d /\ IsDir(d)
<1>1. ASSUME NEW path, path \subseteq Within[d] \cup Above[d],
             \E a \in path : kind[a] = "link"
      PROVE  \E a \in path : /\ a \in Linkable /\ kind[a] = "link"
                             /\ Followed(d, path) = Lead[a][d]
  <2>1. PICK a \in path : a = CHOOSE b \in path : kind[b] = "link"
    BY <1>1
  <2>2. kind[a] = "link"
    BY <1>1, <2>1
  <2>3. a \in Dirs
    BY <1>1, AboveIsOrder, BelowIsDown
  <2> QED BY <1>1, <2>1, <2>2, <2>3 DEF Followed, TreeOK, WellFormed
<1>2. \A a \in Linkable : Lead[a][d] \in Dirs
  BY TreeAssumption DEF TreeAssumption
<1>3. Above[d] \subseteq Within[d] \cup Above[d] /\ {d} \cup Above[d] \subseteq Within[d] \cup Above[d]
  BY BelowIsDown
<1>4. Spot(d) \in Dirs
  <2>1. CASE \E a \in Above[d] : kind[a] = "link"
    BY <1>1, <1>2, <1>3, <2>1 DEF Spot
  <2> QED BY <2>1 DEF Spot, Followed
<1>5. Resolve(d) \in Dirs
  <2>1. CASE \E a \in {d} \cup Above[d] : kind[a] = "link"
    BY <1>1, <1>2, <1>3, <2>1 DEF Resolve
  <2> QED BY <2>1 DEF Resolve, Followed
<1>6. (\A a \in Above[d] : kind[a] # "link") => Spot(d) = d
  BY DEF Spot, Followed
<1>7. d \in DotDitto => Spot(d) \in DotDitto
  <2> HAVE d \in DotDitto
  <2>1. CASE \E a \in Above[d] : kind[a] = "link"
    <3>1. PICK a \in Above[d] : a \in Linkable /\ Spot(d) = Lead[a][d]
      BY <1>1, <1>3, <2>1 DEF Spot
    <3>2. d \in Within[a] /\ d # a
      BY <3>1, AboveIsOrder, BelowIsDown
    <3> QED BY <3>1, <3>2, TreeAssumption DEF TreeAssumption
  <2> QED BY <1>6, <2>1
<1>8. kind[d] # "none" => \A a \in Above[d] : kind[a] = "dir"
  BY DEF TreeOK, WellFormed
<1>9. kind[d] = "dir" => Resolve(d) = d
  BY <1>8 DEF Resolve, Followed
<1> QED BY <1>4, <1>5, <1>6, <1>7, <1>8, <1>9 DEF IsDir

\* Where the disk is as it was, so is what its paths lead to.
LEMMA PathsStand ==
    ASSUME UNCHANGED disk
    PROVE  /\ UNCHANGED <<kind, closed, files, lock>>
           /\ \A d : Resolve(d)' = Resolve(d) /\ (Hidden(d) <=> Hidden(d)')
           /\ \A d : (IsDir(d) <=> IsDir(d)') /\ (Listable(d) <=> Listable(d)')
           /\ Visible' = Visible
<1>1. UNCHANGED <<kind, closed, files, lock>>
  BY DEF disk
<1>2. \A d : Resolve(d)' = Resolve(d)
  BY <1>1 DEF Resolve, Followed
<1>3. \A d : Hidden(d) <=> Hidden(d)'
  BY <1>1, <1>2 DEF Hidden
<1>4. \A p : Located(p)' = Located(p)
  BY <1>2 DEF Located
<1>5. \A d : (IsDir(d) <=> IsDir(d)') /\ (Listable(d) <=> Listable(d)')
  BY <1>1, <1>2, <1>3 DEF IsDir, Listable
<1>6. Visible' = Visible
  BY <1>1, <1>4 DEF Visible
<1> QED BY <1>1, <1>2, <1>3, <1>5, <1>6

----------------------------------------------------------------------------
(* ditto clean                                                             *)

\* What the removal goes by: .ditto directories below PATH, none in another; each
\* is left, or reported once; rmtree is in what the path of one leads to, and that
\* is the path itself unless a link has come above it; left ones are as the preview
\* found them unless others have been at them.
CleanInv ==
    /\ CleanTypeOK /\ diverted \in BOOLEAN
    /\ chosen \subseteq InPath \cap DotDitto
    /\ \A d, e \in chosen : d \notin Above[e]
    /\ removed \cup failed \subseteq chosen /\ removed \cap failed = {}
    /\ removing # NoDir => cleaning = "removing" /\ removing \in Left
    /\ inside # NoDir => removing # NoDir /\ inside \in DotDitto
    /\ cleaning \in {"idle", "asking"} => removed \cup failed = {}
    /\ cleaning = "done" /\ removed \cup failed # {} =>
          Left = {} /\ status = (IF failed = {} THEN 0 ELSE 1)
    /\ ~diverted =>
          /\ inside \in {NoDir, removing}
          /\ cleaning \in {"asking", "removing"} =>
                \A d \in chosen : \A a \in Above[d] : kind[a] # "link"
    /\ ~trouble =>
          /\ failed = {}
          /\ inside \in {NoDir, removing}
          /\ cleaning \in {"asking", "removing"} =>
                \A d \in Left : kind[d] = "dir" /\ (Within[d] \cup Above[d]) \cap closed = {}

LEMMA InitClean == Init => CleanInv
BY DEF Init, CleanInit, CleanInv, CleanTypeOK, Left

\* What others do leaves the command alone, and shows if it matters to it.
LEMMA OthersClean ==
    ASSUME TreeOK, CleanInv,
           UNCHANGED <<cleaning, chosen, removed, failed, removing, status>>,
           inside' \in {inside, NoDir},
           trouble' \in BOOLEAN, trouble => trouble', Disturbs => trouble',
           diverted' \in BOOLEAN, diverted => diverted', Diverts => diverted'
    PROVE  CleanInv'
<1>0. chosen \subseteq Dirs
  BY DEF CleanInv, CleanTypeOK
<1>1. ASSUME ~trouble', cleaning \in {"asking", "removing"}, NEW d \in Left
      PROVE  kind'[d] = "dir" /\ (Within[d] \cup Above[d]) \cap closed' = {}
  <2>1. d \in chosen /\ d \in Within[d]
    BY <1>0, <1>1, BelowIsDown DEF Left
  <2>2. kind'[d] = kind[d]
    BY <1>1, <2>1 DEF Disturbs
  <2>3. \A e \in Within[d] \cup Above[d] : e \in closed <=> e \in closed'
    BY <1>1, <2>1 DEF Disturbs
  <2>4. kind[d] = "dir" /\ (Within[d] \cup Above[d]) \cap closed = {}
    BY <1>1 DEF CleanInv
  <2> QED BY <2>2, <2>3, <2>4
<1>2. ASSUME ~diverted', cleaning \in {"asking", "removing"}, NEW d \in chosen, NEW a \in Above[d]
      PROVE  kind'[a] # "link"
  BY <1>2 DEF Diverts
<1> QED BY <1>1, <1>2 DEF CleanInv, CleanTypeOK, Left

\* Nothing changes but what a step of the command says.
LEMMA CleanStands ==
    ASSUME CleanInv, diverted' = diverted, CleanTypeOK',
           \/ UNCHANGED <<kind, closed, clean>>
           \/ UNCHANGED <<kind, closed, chosen, removed, failed, removing, inside, trouble>>
                 /\ cleaning = "asking" /\ cleaning' \in {"removing", "done"}
    PROVE  CleanInv'
BY DEF CleanInv, Left, clean

LEMMA StepClean ==
    ASSUME TreeOK, CleanInv, CleanStep \/ CleanAnswer, diverted' = diverted
    PROVE  CleanInv'
<1>0. /\ CleanTypeOK /\ chosen \subseteq Dirs /\ NoDir \notin Dirs
      /\ \A d \in Dirs : Spot(d) \in Dirs /\ (d \in DotDitto => Spot(d) \in DotDitto)
      /\ \A d \in Dirs : kind[d] = "dir" => Spot(d) = d
  BY SpotLeads, CleanAssumption DEF CleanInv, CleanTypeOK, CleanAssumption
<1>1. CASE Refuse
  BY <1>1 DEF Refuse, Exits, CleanInv, CleanTypeOK, Left, disk
<1>2. CASE Find
  <2>1. Selected \subseteq InPath \cap DotDitto /\ Selected \subseteq Dirs
    BY TreeAssumption DEF Selected, Candidates, TreeAssumption
  <2>2. \A d, e \in Selected : d \notin Above[e]
    BY DEF Selected
  <2>3. \A d \in Selected : kind[d] = "dir" /\ Above[d] \cap closed = {}
    BY DEF Selected, Candidates
  <2>4. \A d \in Selected : \A a \in Above[d] : kind[a] # "link"
    BY <2>1, <2>3 DEF TreeOK, WellFormed
  <2> QED BY <1>2, <2>1, <2>2, <2>3, <2>4 DEF Find, Exits, CleanInv, CleanTypeOK, Left, disk
<1>3. CASE Agree
  BY <1>0, <1>3, CleanStands DEF Agree, CleanTypeOK, disk
<1>4. ASSUME NEW terminal \in BOOLEAN, Decline(terminal)
      PROVE  CleanInv'
  BY <1>0, <1>4, CleanStands DEF Decline, Exits, CleanTypeOK, disk
<1>5. ASSUME NEW d \in Dirs, Start(d)
      PROVE  CleanInv'
  <2>1. /\ d \in Left /\ removing' = d /\ inside' = Spot(d) /\ cleaning = "removing"
        /\ UNCHANGED <<kind, closed, cleaning, chosen, removed, failed, trouble, status>>
    BY <1>5 DEF Start, disk
  <2>2. d \in chosen /\ d \in DotDitto
    BY <2>1 DEF CleanInv, Left
  <2>3. Spot(d) \in DotDitto /\ Spot(d) \in Dirs
    BY <1>0, <2>2
  <2>4. ~diverted => Spot(d) = d
    BY <2>1, <2>2, SpotLeads DEF CleanInv
  <2>5. ~trouble => Spot(d) = d
    BY <1>0, <2>1 DEF CleanInv
  <2>6. Left' = Left
    BY <2>1 DEF Left
  <2> QED BY <1>0, <2>1, <2>2, <2>3, <2>4, <2>5, <2>6 DEF CleanInv, CleanTypeOK
<1>6. ASSUME NEW d \in Dirs, RemoveNested(d)
      PROVE  CleanInv'
  <2>1. /\ d \in Below[inside] /\ inside \in Dirs /\ inside # NoDir
        /\ kind' = [kind EXCEPT ![d] = "none"] /\ UNCHANGED <<closed, clean>>
    BY <1>0, <1>6, BelowIsDown DEF RemoveNested, Reaches, Entered, CleanTypeOK
  <2>2. inside = removing /\ inside \in chosen => d \notin chosen
    BY <2>1, BelowIsDown DEF CleanInv
  <2>3. ~trouble => d \notin chosen
    BY <2>1, <2>2 DEF CleanInv, Left
  <2>4. \A e \in Dirs : e # d => kind'[e] = kind[e]
    BY <2>1 DEF TreeOK, Kinds
  <2>5. \A e \in Dirs : kind'[e] \in {kind[e], "none"}
    BY <2>1 DEF TreeOK, Kinds
  <2>6. \A e \in chosen : Above[e] \subseteq Dirs
    BY <1>0, AboveIsOrder
  <2>7. Left' = Left /\ Left \subseteq chosen
    BY <2>1 DEF Left, clean
  <2> QED BY <1>0, <2>1, <2>3, <2>4, <2>5, <2>6, <2>7 DEF CleanInv, CleanTypeOK, clean
<1>7. ASSUME NEW d \in Dirs, StartRaises(d)
      PROVE  CleanInv'
  <2>1. d \in Left /\ cleaning = "removing" /\ ~Opens(d)
    BY <1>7 DEF StartRaises
  <2>2. trouble
    <3> SUFFICES ASSUME ~trouble PROVE FALSE
      OBVIOUS
    <3>1. kind[d] = "dir" /\ (Within[d] \cup Above[d]) \cap closed = {} /\ d \in Within[d]
      BY <2>1, BelowIsDown DEF CleanInv
    <3>2. Spot(d) = d /\ Resolve(d) = d /\ IsDir(d)
      BY <3>1, SpotLeads
    <3> QED BY <2>1, <3>1, <3>2 DEF Opens, Listable, Hidden
  <2> QED BY <1>0, <1>7, <2>1, <2>2 DEF StartRaises, Fail, CleanInv, CleanTypeOK, Left, disk
<1>8. ASSUME NEW f \in files, Unlink(f)
      PROVE  CleanInv'
  BY <1>0, <1>8, CleanStands DEF Unlink, CleanTypeOK, clean
<1>9. CASE RemoveDir
  <2> DEFINE s == Spot(removing)
  <2>1. /\ removing \in Left /\ removing \in Dirs /\ cleaning = "removing"
        /\ kind' = [kind EXCEPT ![s] = "none"] /\ closed' = closed \ {s}
        /\ removed' = removed \cup {removing} /\ removing' = NoDir /\ inside' = NoDir
        /\ UNCHANGED <<cleaning, chosen, failed, trouble, status>>
    BY <1>0, <1>9 DEF RemoveDir, CleanInv, CleanTypeOK
  <2>2. s \in Dirs /\ (~trouble => s = removing)
    BY <1>0, <2>1 DEF CleanInv
  <2> HIDE DEF s
  <2>3. Left' = Left \ {removing}
    BY <2>1 DEF Left
  <2>4. \A e \in Dirs : kind'[e] \in {kind[e], "none"} /\ (e # s => kind'[e] = kind[e])
    BY <2>1, <2>2 DEF TreeOK, Kinds
  <2>5. ~trouble => \A d \in Left' : kind'[d] = kind[d]
    BY <1>0, <2>2, <2>3, <2>4 DEF Left
  <2>6. removed' \cup failed' \subseteq chosen' /\ removed' \cap failed' = {}
    BY <2>1 DEF CleanInv, Left
  <2>7. CleanTypeOK'
    BY <1>0, <2>1 DEF CleanTypeOK
  <2>8. \A e \in chosen : Above[e] \subseteq Dirs
    BY <1>0, AboveIsOrder
  <2>9. ~trouble => failed = {} /\ \A d \in Left : kind[d] = "dir" /\ (Within[d] \cup Above[d]) \cap closed = {}
    BY <2>1 DEF CleanInv
  <2>10. ~trouble' => /\ failed' = {}
                      /\ \A d \in Left' : kind'[d] = "dir" /\ (Within[d] \cup Above[d]) \cap closed' = {}
    BY <2>1, <2>3, <2>5, <2>9
  <2>11. ~diverted' => \A d \in chosen : \A a \in Above[d] : kind'[a] # "link"
    BY <2>1, <2>4, <2>8 DEF CleanInv
  <2> QED BY <2>1, <2>6, <2>7, <2>10, <2>11 DEF CleanInv
<1>10. CASE RemoveRaises
  BY <1>0, <1>10 DEF RemoveRaises, Fail, CleanInv, CleanTypeOK, Left, disk
<1>11. CASE Finish
  BY <1>0, <1>11 DEF Finish, Exits, CleanInv, CleanTypeOK, Left, disk
<1> QED BY <1>1, <1>2, <1>3, <1>4, <1>5, <1>6, <1>7, <1>8, <1>9, <1>10, <1>11
        DEF CleanStep, CleanAnswer

----------------------------------------------------------------------------
(* Every step leaves a tree.                                               *)

LEMMA CutKeepsTree ==
    ASSUME TreeOK, NEW d \in Dirs, NEW new \in {"none", "link"}, Replace(d, new),
           new = "link" => d \in Linkable /\ \A e \in Above[d] : kind[e] = "dir"
    PROVE  TreeOK'
<1>1. /\ kind \in Kinds /\ closed \subseteq Places /\ files \subseteq Snapshots
      /\ UNCHANGED <<lock, readable>>
  BY DEF TreeOK, Replace
<1>2. /\ kind' = [e \in Dirs |-> IF e = d THEN new
                                 ELSE IF e \in Below[d] THEN "none" ELSE kind[e]]
      /\ closed' = closed \ Within[d]
      /\ files' = {f \in files : f[1] \notin Within[d]}
  BY DEF Replace
<1>3. \A e \in Dirs : e \notin Within[d] => kind'[e] = kind[e]
  BY <1>2, BelowIsDown
<1>4. \A e \in Dirs : e \in Within[d] /\ e # d => kind'[e] = "none"
  BY <1>2, BelowIsDown
<1>5. kind'[d] = new
  BY <1>2
<1>6. kind' \in Kinds
  BY <1>1, <1>2 DEF Kinds
<1>7. ASSUME NEW e \in Dirs, kind'[e] # "none", NEW a \in Above[e]
      PROVE  kind'[a] = "dir"
  <2>1. e = d \/ e \notin Within[d]
    BY <1>4, <1>7
  <2>2. a \in Dirs /\ a \notin Within[d]
    <3>1. a \in Dirs /\ a # e
      BY <1>7, AboveIsOrder
    <3>2. a \in Within[d] => e \in Below[d]
      BY <1>7, AboveIsOrder, BelowIsDown
    <3>3. d \notin Below[d]
      BY AboveIsOrder, BelowIsDown
    <3> QED BY <2>1, <3>1, <3>2, <3>3, BelowIsDown
  <2>3. kind[a] = "dir"
    <3>1. CASE e = d
      BY <1>5, <1>7, <3>1
    <3>2. CASE e \notin Within[d]
      BY <1>3, <1>7, <3>2 DEF TreeOK, WellFormed
    <3> QED BY <2>1, <3>1, <3>2
  <2> QED BY <1>3, <2>2, <2>3
<1>8. \A e \in Dirs : kind'[e] = "link" => e \in Linkable
  BY <1>3, <1>4, <1>5 DEF TreeOK, WellFormed
<1>9. \A e \in closed' \cap Dirs : kind'[e] = "dir"
  BY <1>2, <1>3 DEF TreeOK, WellFormed
<1>10. \A f \in files' : f[1] \in Dirs => kind'[f[1]] = "dir"
  BY <1>2, <1>3 DEF TreeOK, WellFormed
<1>11. WellFormed'
  BY <1>7, <1>8, <1>9, <1>10 DEF WellFormed
<1> QED BY <1>1, <1>2, <1>6, <1>11 DEF TreeOK

LEMMA StoreKeepsTree ==
    ASSUME TreeOK, NEW p \in Places, NEW n \in Names, Store(p, n)
    PROVE  TreeOK'
<1> DEFINE way == {p} \cup Above[p]
<1>1. /\ kind \in Kinds /\ files' = files \cup {<<p, n>>} /\ files' \subseteq Snapshots
      /\ UNCHANGED <<closed, lock, readable>>
  BY DEF TreeOK, Store
<1>2. CASE p \in Stores
  <2>1. p \notin Dirs
    BY <1>2, TreeAssumption DEF TreeAssumption
  <2>2. UNCHANGED kind
    BY <2>1 DEF Store
  <2> QED BY <1>1, <2>1, <2>2 DEF TreeOK, WellFormed
<1>3. CASE p \in Dirs
  <2>1. /\ kind' = [e \in Dirs |-> IF e \in way THEN "dir" ELSE kind[e]]
        /\ \A e \in way : kind[e] # "link"
    BY <1>3, TreeAssumption DEF Store, TreeAssumption
  <2>2. \A e \in way : Above[e] \subseteq way
    BY <1>3, AboveIsOrder
  <2>3. \A e \in Dirs : Above[e] \subseteq Dirs
    BY AboveIsOrder
  <2> HIDE DEF way
  <2>4. \A e \in Dirs : kind'[e] # "none" => \A a \in Above[e] : kind'[a] = "dir"
    BY <2>1, <2>2, <2>3 DEF TreeOK, WellFormed
  <2>5. \A e \in Dirs : kind[e] = "dir" => kind'[e] = "dir"
    BY <2>1
  <2>6. p \in way
    BY DEF way
  <2>7. kind' \in Kinds
    BY <1>1, <2>1 DEF Kinds
  <2>8. \A e \in Dirs : kind'[e] = "link" => e \in Linkable
    BY <2>1 DEF TreeOK, WellFormed
  <2>9. \A f \in files' : f[1] \in Dirs => kind'[f[1]] = "dir"
    BY <1>1, <1>3, <2>1, <2>5, <2>6 DEF TreeOK, WellFormed
  <2>10. \A e \in closed \cap Dirs : kind'[e] = "dir"
    BY <2>5 DEF TreeOK, WellFormed
  <2>11. WellFormed'
    BY <1>1, <2>4, <2>8, <2>9, <2>10 DEF WellFormed
  <2> QED BY <1>1, <2>7, <2>11 DEF TreeOK
<1> QED BY <1>2, <1>3 DEF Places

LEMMA ChangeKeepsTree ==
    ASSUME TreeOK, ChangeDisk
    PROVE  TreeOK'
<1>1. ASSUME NEW f \in files, Delete(f)
      PROVE  TreeOK'
  BY <1>1 DEF Delete, TreeOK, WellFormed
<1>2. ASSUME NEW d \in Dirs, Take(d)
      PROVE  TreeOK'
  BY <1>2, CutKeepsTree DEF Take
<1>3. ASSUME NEW d \in Dirs, PutLink(d)
      PROVE  TreeOK'
  BY <1>3, CutKeepsTree DEF PutLink
<1>4. ASSUME NEW e \in Entries, WriteLock(e)
      PROVE  TreeOK'
  BY <1>4 DEF WriteLock, TreeOK, WellFormed
<1>5. CASE BreakLock
  BY <1>5 DEF BreakLock, TreeOK, WellFormed
<1>6. ASSUME NEW p \in Places, Turn(p)
      PROVE  TreeOK'
  <2>1. p \in Dirs => kind[p] = "dir"
    BY <1>6, TreeAssumption DEF Turn, TreeAssumption
  <2>2. closed' \subseteq closed \cup {p} /\ UNCHANGED <<kind, files, lock, readable>>
    BY <1>6 DEF Turn
  <2> QED BY <2>1, <2>2 DEF TreeOK, WellFormed
<1> QED BY <1>1, <1>2, <1>3, <1>4, <1>5, <1>6, StoreKeepsTree DEF ChangeDisk

\* What is removed is empty.
LEMMA RmdirKeepsTree ==
    ASSUME TreeOK, NEW d \in Dirs, ~Holds(d), kind' = [kind EXCEPT ![d] = "none"],
           closed' \subseteq closed \ {d}, UNCHANGED <<files, lock, readable>>
    PROVE  TreeOK'
<1>1. /\ kind' \in Kinds /\ kind'[d] = "none"
      /\ \A e \in Dirs : e # d => kind'[e] = kind[e]
  BY DEF TreeOK, Kinds
<1>2. \A e \in Below[d] : kind[e] = "none"
  BY DEF Holds
<1>3. \A f \in files : f[1] # d
  BY DEF Holds
<1>4. ASSUME NEW e \in Dirs, kind'[e] # "none", NEW a \in Above[e]
      PROVE  kind'[a] = "dir"
  <2>1. e # d /\ kind[e] # "none" /\ a \in Dirs
    BY <1>1, <1>4, AboveIsOrder
  <2>2. a # d
    BY <1>2, <1>4, <2>1, BelowIsDown
  <2>3. kind[a] = "dir"
    BY <1>4, <2>1 DEF TreeOK, WellFormed
  <2> QED BY <1>1, <2>1, <2>2, <2>3
<1>5. WellFormed'
  BY <1>1, <1>3, <1>4 DEF TreeOK, WellFormed
<1> QED BY <1>1, <1>5 DEF TreeOK

LEMMA CleanKeepsTree ==
    ASSUME TreeOK, CleanTypeOK, CleanStep \/ CleanAnswer
    PROVE  TreeOK'
<1> USE DEF disk
<1>1. ASSUME NEW d \in Dirs, RemoveNested(d)
      PROVE  TreeOK'
  <2>1. /\ ~Holds(d) /\ kind' = [kind EXCEPT ![d] = "none"]
        /\ UNCHANGED <<closed, files, lock, readable>>
    BY <1>1 DEF RemoveNested
  <2>2. d \notin closed
    BY <1>1 DEF RemoveNested, Reaches, Entered
  <2>3. closed' \subseteq closed \ {d}
    BY <2>1, <2>2
  <2> QED BY <2>1, <2>3, RmdirKeepsTree
<1>2. CASE RemoveDir
  <2>1. removing \in Dirs
    BY <1>2 DEF RemoveDir, CleanTypeOK
  <2>2. Spot(removing) \in Dirs
    BY <2>1, SpotLeads
  <2>3. /\ ~Holds(Spot(removing)) /\ kind' = [kind EXCEPT ![Spot(removing)] = "none"]
        /\ closed' = closed \ {Spot(removing)} /\ UNCHANGED <<files, lock, readable>>
    BY <1>2 DEF RemoveDir
  <2> QED BY <2>2, <2>3, RmdirKeepsTree
<1>3. ASSUME NEW f \in files, Unlink(f)
      PROVE  TreeOK'
  BY <1>3 DEF Unlink, TreeOK, WellFormed
<1>4. ASSUME UNCHANGED disk
      PROVE  TreeOK'
  BY <1>4 DEF TreeOK, WellFormed
<1>5. ASSUME NEW d \in Dirs, Start(d) \/ StartRaises(d)
      PROVE  TreeOK'
  BY <1>4, <1>5 DEF Start, StartRaises, Fail
<1>6. ASSUME NEW terminal \in BOOLEAN, Decline(terminal)
      PROVE  TreeOK'
  BY <1>4, <1>6 DEF Decline
<1>7. CASE Refuse \/ Find \/ RemoveRaises \/ Finish \/ Agree
  BY <1>4, <1>7 DEF Refuse, Find, RemoveRaises, Fail, Finish, Agree
<1> HIDE DEF disk
<1> QED BY <1>1, <1>2, <1>3, <1>5, <1>6, <1>7 DEF CleanStep, CleanAnswer

----------------------------------------------------------------------------
(* Every step keeps the types.                                             *)

LEMMA Shapes ==
    ASSUME TreeOK
    PROVE  /\ Visible \subseteq Places \X Names
           /\ Reachable(TRUE) \subseteq Reachable(FALSE)
           /\ Reachable(FALSE) \subseteq Visible
           /\ lock \subseteq Entries
           /\ \A d \in Dirs : Resolve(d) \in Dirs /\ Children[d] \subseteq Dirs
<1>1. files \subseteq Places \X Names
  BY TreeAssumption DEF TreeAssumption, TreeOK
<1>2. ASSUME NEW f \in files
      PROVE  f \in Visible
  <2>1. PICK p \in Places, n \in Names : f = <<p, n>>
    BY <1>1
  <2>2. Located(p) = p
    <3>1. p \in Dirs => kind[p] = "dir"
      BY <1>2, <2>1 DEF TreeOK, WellFormed
    <3> QED BY <3>1, SpotLeads DEF Located
  <2> QED BY <1>2, <2>1, <2>2 DEF Visible
<1>3. \A d \in Dirs : Resolve(d) \in Dirs /\ Children[d] \subseteq Dirs
  BY SpotLeads, BelowIsDown DEF Children
<1> QED BY <1>2, <1>3 DEF Visible, Reachable, TreeOK

LEMMA PairsTyped ==
    ASSUME TreeOK, NEW es, es \subseteq Entries
    PROVE  PairsOf(es) \subseteq Places \X Names
<1>1. ASSUME NEW e \in es, TargetOf[e] \in FileTargets
      PROVE  Resolve(DirOf[TargetOf[e]]) \in Dirs
  BY <1>1, Shapes, TreeAssumption DEF TreeAssumption
<1>2. ASSUME NEW e \in es, TargetOf[e] \notin FileTargets
      PROVE  StoreOf[TargetOf[e]] \in Stores
  BY <1>2, TreeAssumption DEF TreeAssumption
<1>3. \A e \in es : KeyOf[e] \in Names
  BY TreeAssumption DEF TreeAssumption
<1> QED BY <1>1, <1>2, <1>3 DEF PairsOf, Places

LEMMA EndTyped ==
    ASSUME NEW ts, NEW s, NEW u, NEW r, Ends(ts, s, u, r),
           ts \in Selections \cup {{}}, s \subseteq Places \X Names, u \subseteq Places \X Names,
           r \in {"complete", "valid", "issues", "empty", "incomplete"}
    PROVE  /\ InventoryTypeOK' /\ UNCHANGED disk /\ step' = "done"
           /\ tests' = ts /\ printed' = s /\ leftOut' = u /\ result' = r
BY DEF Ends, InventoryTypeOK, Steps

\* A report is about what is in the manifest.
LEMMA ReportTyped ==
    ASSUME TreeOK, InventoryTypeOK, Report
    PROVE  /\ step = "identify" /\ InventoryTypeOK' /\ UNCHANGED disk /\ step' = "done"
           /\ printed' \subseteq Manifest
           /\ result' \in {"complete", "valid", "issues", "empty", "incomplete"}
<1>1. Manifest \subseteq Places \X Names
  BY PairsTyped DEF Manifest, InventoryTypeOK
<1>2. ASSUME NEW ts \in Selections, List(ts)
      PROVE  /\ InventoryTypeOK' /\ UNCHANGED disk /\ step' = "done"
             /\ printed' \subseteq Manifest
             /\ result' \in {"complete", "valid", "issues", "empty", "incomplete"}
  <2>1. Selection(ts) \subseteq Manifest
    BY DEF Selection, Recorded
  <2>2. (IF ts = {} THEN {} ELSE Manifest \ Recorded) \subseteq Manifest
    OBVIOUS
  <2>3. Ending(Selection(ts) = {}, "complete")
           \in {"complete", "valid", "issues", "empty", "incomplete"}
    BY DEF Ending
  <2> QED BY <1>1, <1>2, <2>1, <2>2, <2>3, EndTyped DEF List
<1>3. ASSUME NEW r, r \in {"complete", "valid", "issues", "empty", "incomplete"},
             Ends({}, Manifest, {}, r)
      PROVE  /\ InventoryTypeOK' /\ UNCHANGED disk /\ step' = "done"
             /\ printed' \subseteq Manifest
             /\ result' \in {"complete", "valid", "issues", "empty", "incomplete"}
  BY <1>1, <1>3, EndTyped
<1>4. CASE Status \/ Stats
  <2>1. \A b : Ending(b, "complete") \in {"complete", "valid", "issues", "empty", "incomplete"}
    BY DEF Ending
  <2> QED BY <1>3, <1>4, <2>1 DEF Status, Stats, Report
<1>5. CASE Lint
  <2>1. Ending(FALSE, IF LintIssues = {} THEN "valid" ELSE "issues")
           \in {"complete", "valid", "issues", "empty", "incomplete"}
    BY DEF Ending
  <2> QED BY <1>3, <1>5, <2>1 DEF Lint, Report
<1>6. CASE Fails
  <2>1. Ends({}, {}, {}, "incomplete")
    BY <1>6 DEF Fails
  <2>2. /\ InventoryTypeOK' /\ UNCHANGED disk /\ step' = "done"
        /\ printed' = {} /\ result' = "incomplete"
    BY <2>1, EndTyped
  <2> QED BY <2>2 DEF Report
<1>7. step = "identify"
  BY DEF Report
<1> QED BY <1>2, <1>4, <1>5, <1>6, <1>7 DEF Report

LEMMA InventoryTyped ==
    ASSUME TreeOK, InventoryTypeOK, InventoryStart \/ InventoryStep
    PROVE  InventoryTypeOK' /\ UNCHANGED disk
<1>0. /\ Visible \subseteq Places \X Names
      /\ Reachable(FALSE) \subseteq Visible /\ Reachable(TRUE) \subseteq Visible
      /\ lock \subseteq Entries
      /\ \A d \in Dirs : Resolve(d) \in Dirs /\ Children[d] \subseteq Dirs
  BY Shapes
<1>1. CASE Fails
  BY <1>1, EndTyped DEF Fails
<1>2. CASE BeginFails \/ LookRaises \/ DirRaises
  BY <1>1, <1>2 DEF BeginFails, LookRaises, DirRaises, ReadRaises
<1> USE DEF InventoryTypeOK, outcome, history, Places, Steps
<1>3. CASE Begin
  BY <1>0, <1>3, TreeAssumption DEF Begin, TreeAssumption
<1>4. CASE BeginLive
  BY <1>0, <1>4, InventoryAssumption DEF BeginLive, InventoryAssumption
<1>5. ASSUME NEW d \in Dirs, Walk(d)
      PROVE  InventoryTypeOK' /\ UNCHANGED disk
  <2>1. met' \subseteq met \cup Children[d] /\ unread' \subseteq unread \cup Children[d]
    BY <1>5 DEF Walk, Found
  <2> QED BY <1>0, <1>5, <2>1 DEF Walk
<1>6. ASSUME NEW d \in Dirs, Check(d)
      PROVE  InventoryTypeOK' /\ UNCHANGED disk
  BY <1>0, <1>6 DEF Check
<1>7. CASE TakeTargets
  BY <1>7, TreeAssumption DEF TakeTargets, TreeAssumption
<1>8. ASSUME NEW t \in FileTargets, SelectTarget(t)
      PROVE  InventoryTypeOK' /\ UNCHANGED disk
  <2>1. Resolve(DirOf[t]) \in Dirs
    BY <1>0, TreeAssumption DEF TreeAssumption
  <2>2. OwnKeys(t) \subseteq Names
    BY TreeAssumption DEF OwnKeys, TreeAssumption
  <2>3. whole' \subseteq Dirs /\ some' \in [Dirs -> SUBSET Names]
    BY <1>8, <2>1, <2>2 DEF SelectTarget
  <2> QED BY <1>8, <2>3 DEF SelectTarget
<1>9. CASE StartReading
  BY <1>9 DEF StartReading, Wanted
<1>10. ASSUME NEW d \in Dirs, ListDir(d)
      PROVE  InventoryTypeOK' /\ UNCHANGED disk
  BY <1>10 DEF ListDir
<1>11. ASSUME NEW n \in Names, StatFile(n)
      PROVE  InventoryTypeOK' /\ UNCHANGED disk
  <2>1. <<at, n>> \in Places \X Names
    BY <1>11 DEF StatFile
  <2> QED BY <1>11, <2>1 DEF StatFile
<1>12. ASSUME NEW n \in Names, ReadKey(n)
       PROVE  InventoryTypeOK' /\ UNCHANGED disk
  <2>1. <<at, n>> \in Places \X Names
    BY <1>12 DEF ReadKey
  <2> QED BY <1>12, <2>1 DEF ReadKey
<1>13. CASE LeaveDir \/ LeaveStore
  BY <1>13 DEF LeaveDir, LeaveStore
<1>14. CASE EndReading
  BY <1>14 DEF EndReading
<1>15. ASSUME NEW p \in Places, Enumerate(p)
       PROVE  InventoryTypeOK' /\ UNCHANGED disk
  <2>1. shown' \subseteq shown \cup Visible
    BY <1>15 DEF Enumerate
  <2> QED BY <1>0, <1>15, <2>1 DEF Enumerate
<1>16. ASSUME NEW s \in Stores, ListKeys(s) \/ BackendRaises(s)
       PROVE  InventoryTypeOK' /\ UNCHANGED disk
  BY <1>16 DEF ListKeys, BackendRaises
<1> HIDE DEF InventoryTypeOK, outcome, history, Places, Steps
<1>17. CASE Report
  BY <1>17, ReportTyped
<1> QED BY <1>2, <1>3, <1>4, <1>5, <1>6, <1>7, <1>8, <1>9, <1>10, <1>11, <1>12, <1>13,
           <1>14, <1>15, <1>16, <1>17 DEF InventoryStart, InventoryStep

LEMMA InitTyped == Init => TypeOK
<1> SUFFICES ASSUME Init PROVE TypeOK
  OBVIOUS
<1>1. TreeTypeOK
  <2>1. PICK tree \in Layouts : kind = tree.kind /\ closed = tree.closed
    BY DEF Init
  <2>2. tree \in [kind : Kinds, closed : SUBSET Dirs]
    BY TreeAssumption DEF TreeAssumption
  <2>3. kind \in Kinds /\ closed \subseteq Dirs
    BY <2>1, <2>2
  <2> QED BY <2>3, TreeAssumption DEF Init, TreeTypeOK, TreeAssumption, Places
<1> QED BY <1>1 DEF Init, TypeOK, CleanInit, CleanTypeOK, InventoryInit, InventoryTypeOK, Steps

LEMMA WatchTyped ==
    ASSUME InventoryTypeOK, TreeOK', Watch
    PROVE  /\ seen' \subseteq Places \X Names /\ stayed' \subseteq seen'
           /\ calm' \in BOOLEAN
<1>1. Visible' \subseteq Places \X Names
  BY DEF Visible
<1> QED BY <1>1 DEF Watch, history, InventoryTypeOK

\* Where others or a clean take a step, the inventory takes none.
LEMMA InventoryStays ==
    ASSUME InventoryTypeOK, UNCHANGED inventory,
           seen' \subseteq Places \X Names, stayed' \subseteq seen', calm' \in BOOLEAN
    PROVE  InventoryTypeOK'
BY DEF InventoryTypeOK, inventory, scan, outcome

Typed == TreeOK /\ changes \in 0..MaxChanges /\ InventoryTypeOK

Inv == Typed /\ CleanInv

LEMMA InvIsTyped == Inv => TypeOK
BY DEF Inv, Typed, CleanInv, TypeOK, TreeTypeOK, TreeOK

LEMMA TypedIsInv == TypeOK => Typed
BY DEF Typed, TypeOK, TreeTypeOK, TreeOK

LEMMA NextInv ==
    ASSUME Inv, [Next]_vars
    PROVE  Inv'
<1>0. Typed /\ CleanInv /\ TreeOK /\ InventoryTypeOK /\ CleanTypeOK
  BY DEF Inv, Typed, CleanInv
<1>1. CASE Change
  <2>1. TreeOK'
    BY <1>0, <1>1, ChangeKeepsTree DEF Change
  <2>2. CleanInv'
    <3>1. /\ UNCHANGED <<cleaning, chosen, removed, failed, removing, status>>
          /\ inside' \in {inside, NoDir}
      BY <1>1 DEF Change
    <3>2. /\ trouble' = (trouble \/ Disturbs) /\ trouble \in BOOLEAN
          /\ diverted' = (diverted \/ Diverts) /\ diverted \in BOOLEAN
      BY <1>0, <1>1 DEF Change, CleanTypeOK, CleanInv
    <3>3. /\ trouble' \in BOOLEAN /\ (trouble => trouble') /\ (Disturbs => trouble')
          /\ diverted' \in BOOLEAN /\ (diverted => diverted') /\ (Diverts => diverted')
      <4>1. Disturbs \in BOOLEAN
        BY DEF Disturbs
      <4>2. Diverts \in BOOLEAN
        BY DEF Diverts
      <4> QED BY <3>2, <4>1, <4>2
    <3> QED BY <1>0, <3>1, <3>3, OthersClean
  <2>3. InventoryTypeOK'
    BY <1>0, <1>1, <2>1, WatchTyped, InventoryStays DEF Change
  <2>4. (changes \in 0..MaxChanges)'
    BY <1>0, <1>1, TreeAssumption DEF Change, Changing, Typed, TreeAssumption
  <2> QED BY <2>1, <2>2, <2>3, <2>4 DEF Inv, Typed
<1>2. CASE Protect
  <2>1. TreeOK'
    BY <1>0, <1>2 DEF Protect, TreeOK, WellFormed, disk
  <2>2. CleanInv'
    BY <1>0, <1>2 DEF Protect, CleanInv, CleanTypeOK, Left, disk
  <2>3. InventoryTypeOK'
    BY <1>0, <1>2, InventoryStays DEF Protect, InventoryTypeOK, history
  <2>4. (changes \in 0..MaxChanges)'
    BY <1>0, <1>2, TreeAssumption DEF Protect, Changing, Typed, TreeAssumption
  <2> QED BY <2>1, <2>2, <2>3, <2>4 DEF Inv, Typed
<1>3. CASE (CleanRuns \/ Answers) /\ Watch
  <2>1. CleanStep \/ CleanAnswer
    BY <1>3 DEF CleanRuns, Answers
  <2>2. UNCHANGED <<changes, diverted, inventory>> /\ Watch
    BY <1>3 DEF CleanRuns, Answers
  <2>3. TreeOK' /\ CleanInv'
    BY <1>0, <2>1, <2>2, CleanKeepsTree, StepClean
  <2>4. InventoryTypeOK'
    BY <1>0, <2>2, <2>3, WatchTyped, InventoryStays
  <2> QED BY <1>0, <2>2, <2>3, <2>4 DEF Inv, Typed
<1>4. CASE Starts \/ InventoryRuns
  <2>1. UNCHANGED <<changes, clean, diverted>> /\ (InventoryStart \/ InventoryStep)
    BY <1>4 DEF Starts, InventoryRuns
  <2>2. InventoryTypeOK' /\ UNCHANGED disk
    BY <1>0, <2>1, InventoryTyped
  <2>3. TreeOK'
    BY <1>0, <2>2 DEF disk, TreeOK, WellFormed
  <2>4. CleanInv'
    BY <1>0, <2>1, <2>2, CleanStands DEF disk, clean, CleanTypeOK
  <2> QED BY <1>0, <2>1, <2>2, <2>3, <2>4 DEF Inv, Typed
<1>5. CASE UNCHANGED vars
  <2>1. UNCHANGED <<disk, changes, clean, diverted, inventory, history>>
    BY <1>5 DEF vars
  <2>2. TreeOK'
    BY <1>0, <2>1 DEF disk, TreeOK, WellFormed
  <2>3. CleanInv'
    BY <1>0, <2>1, CleanStands DEF disk, clean, CleanTypeOK
  <2>4. InventoryTypeOK'
    BY <1>0, <2>1, InventoryStays DEF history, InventoryTypeOK
  <2> QED BY <1>0, <2>1, <2>2, <2>3, <2>4 DEF Inv, Typed
<1> QED BY <1>1, <1>2, <1>3, <1>4, <1>5 DEF Next

LEMMA Invariant == Spec => []Inv
<1>1. Init => Inv BY InitTyped, TypedIsInv, InitClean DEF Inv
<1>2. Inv /\ [Next]_vars => Inv' BY NextInv
<1> QED BY <1>1, <1>2, PTL DEF Spec

\* Every reachable state is typed, and the tree is one: what there is, is in
\* directories that exist.
THEOREM TypeCorrect == Spec => []TypeOK
<1> QED BY Invariant, InvIsTyped, PTL

\* Whatever others do meanwhile, clean reports each directory it listed once, and
\* fails on none that nobody touched and that it could list.
THEOREM CleanReportsHolds == Spec => []CleanReports
<1>1. Inv => CleanReports
  BY DEF Inv, CleanInv, CleanReports, Left
<1> QED BY <1>1, Invariant, PTL

----------------------------------------------------------------------------
(* What a clean removes.                                                   *)

LEMMA StepKeepsToDitto ==
    ASSUME Inv, CleanStep \/ CleanAnswer
    PROVE  KeepsToDitto
<1> USE DEF disk
<1>0. /\ TreeOK /\ CleanInv /\ CleanTypeOK /\ kind \in Kinds
      /\ InPath = Within[Root] /\ Root \in Dirs
  BY TreeAssumption DEF Inv, Typed, CleanInv, TreeOK, InPath, TreeAssumption
<1>1. removing # NoDir => removing \in Dirs /\ removing \in InPath /\ removing \in DotDitto
  BY <1>0 DEF CleanInv, CleanTypeOK, Left
<1>2. ASSUME inside # NoDir, NEW d \in Within[inside]
      PROVE  d \in Dirs /\ InDitto(d)
  <2>1. inside \in Dirs /\ inside \in DotDitto /\ (diverted \/ inside \in InPath)
    BY <1>0, <1>1, <1>2 DEF CleanInv, CleanTypeOK
  <2>2. d \in Dirs
    BY <1>2, <2>1, BelowIsDown
  <2>3. inside \in InPath => d \in InPath
    BY <1>0, <1>2, <2>1, WithinGoesDown
  <2> QED BY <1>2, <2>1, <2>2, <2>3 DEF InDitto
<1>3. CASE RemoveDir
  <2> DEFINE s == Spot(removing)
  <2>1. removing \in Dirs /\ removing \in InPath /\ removing \in DotDitto
    BY <1>1, <1>3 DEF RemoveDir
  <2>2. s \in Dirs /\ s \in DotDitto /\ (~diverted => s = removing)
    <3>1. ~diverted => \A a \in Above[removing] : kind[a] # "link"
      BY <1>0, <1>3 DEF RemoveDir, CleanInv, Left
    <3> QED BY <1>0, <2>1, <3>1, SpotLeads
  <2>3. /\ ~Holds(s) /\ kind' = [kind EXCEPT ![s] = "none"]
        /\ removed' = removed \cup {removing} /\ UNCHANGED <<files, lock, readable>>
    BY <1>3 DEF RemoveDir
  <2>4. \A d \in removed' \ removed : Spot(d) = s
    BY <2>3
  <2> HIDE DEF s
  <2>5. InDitto(s)
    BY <2>1, <2>2, BelowIsDown DEF InDitto
  <2>6. \A e \in Dirs : kind'[e] # kind[e] => e = s
    BY <1>0, <2>3 DEF Kinds
  <2>7. \A e \in Within[s] : kind'[e] = "none"
    <3>1. kind'[s] = "none"
      BY <1>0, <2>2, <2>3 DEF Kinds
    <3>2. \A e \in Below[s] : kind[e] = "none" /\ e \in Dirs
      BY <2>2, <2>3, BelowIsDown DEF Holds
    <3> QED BY <2>2, <2>6, <3>1, <3>2, BelowIsDown
  <2> QED BY <2>3, <2>4, <2>5, <2>6, <2>7 DEF KeepsToDitto
<1>4. ASSUME NEW d \in Dirs, RemoveNested(d)
      PROVE  KeepsToDitto
  <2>1. /\ inside # NoDir /\ d \in Within[inside] /\ kind' = [kind EXCEPT ![d] = "none"]
        /\ UNCHANGED <<files, lock, readable, removed>>
    BY <1>4 DEF RemoveNested, Reaches, Entered, clean
  <2>2. InDitto(d)
    BY <1>2, <2>1
  <2>3. \A e \in Dirs : kind'[e] # kind[e] => e = d
    BY <1>0, <2>1 DEF Kinds
  <2> QED BY <2>1, <2>2, <2>3 DEF KeepsToDitto
<1>5. ASSUME NEW f \in files, Unlink(f)
      PROVE  KeepsToDitto
  <2>1. /\ inside # NoDir /\ f[1] \in Within[inside] /\ files' = files \ {f}
        /\ UNCHANGED <<kind, lock, readable, removed>>
    BY <1>5 DEF Unlink, Reaches, Entered, clean
  <2>2. InDitto(f[1])
    BY <1>2, <2>1
  <2> QED BY <2>1, <2>2 DEF KeepsToDitto
<1>6. ASSUME UNCHANGED <<disk, removed>>
      PROVE  KeepsToDitto
  BY <1>6 DEF KeepsToDitto
<1>7. ASSUME NEW d \in Dirs, Start(d) \/ StartRaises(d)
      PROVE  KeepsToDitto
  BY <1>6, <1>7 DEF Start, StartRaises, Fail
<1>8. ASSUME NEW terminal \in BOOLEAN, Decline(terminal)
      PROVE  KeepsToDitto
  BY <1>6, <1>8 DEF Decline
<1>9. CASE Refuse \/ Find \/ RemoveRaises \/ Finish \/ Agree
  BY <1>6, <1>9 DEF Refuse, Find, RemoveRaises, Fail, Finish, Agree
<1> HIDE DEF disk
<1> QED BY <1>3, <1>4, <1>5, <1>7, <1>8, <1>9 DEF CleanStep, CleanAnswer

\* Links at a listed directory or within it are never followed: unless one has come
\* above a listed directory, a clean deletes nothing outside the .ditto directories
\* below PATH, and nothing outside .ditto directories even then.
THEOREM CleanKeepsToDittoHolds == Spec => CleanKeepsToDitto
<1>1. Inv /\ [Next]_vars => [changes' = changes => KeepsToDitto]_vars
  <2> SUFFICES ASSUME Inv, Next, changes' = changes
               PROVE  KeepsToDitto
    BY DEF vars
  <2>1. ~Change /\ ~Protect
    BY DEF Change, Protect, Changing, Inv, Typed
  <2>2. CASE CleanRuns \/ Answers
    BY <2>2, StepKeepsToDitto DEF CleanRuns, Answers
  <2>3. CASE Starts \/ InventoryRuns
    <3>1. UNCHANGED disk
      BY <2>3, InventoryTyped DEF Starts, InventoryRuns, Inv, Typed
    <3> QED BY <2>3, <3>1 DEF Starts, InventoryRuns, disk, clean, KeepsToDitto
  <2> QED BY <2>1, <2>2, <2>3 DEF Next
<1>2. CleanKeepsToDitto <=> [][changes' = changes => KeepsToDitto]_vars
  BY DEF CleanKeepsToDitto
<1> QED BY <1>1, <1>2, Invariant, PTL DEF Spec

----------------------------------------------------------------------------
(* What an inventory shows.  On the way, a snapshot that is there all the  *)
(* time, and can be reached, is still to be found, or to be read, or shown, *)
(* or given up with all of its backend.                                    *)

Still == IF live THEN Reachable(TRUE) ELSE Reachable(FALSE)

Awaited(f) ==
    \/ f \in shown
    \/ partial
    \/ f[1] \in unread
    \/ f[1] = at /\ f[2] \in listing

\* The walk has been there, or is on its way.
Approached(d) == d \in whole \/ d \in met \/ \E a \in Above[d] : a \in unread

ShowInv ==
    /\ step \notin {"idle", "done"} => stayed \subseteq Still /\ Visible \subseteq seen
    /\ shown \subseteq seen
    /\ step = "live" => live /\ at \in (Stores \ Buckets) \cup {Nowhere}
    /\ step \in {"idle", "walk", "targets", "read"} => ~live
    /\ step = "read" => at \in Dirs \cup {Nowhere}
    /\ step = "walk" => \A f \in stayed : f[1] \in Direct => Approached(f[1])
    /\ step \in {"targets", "read"} => \A f \in stayed : f[1] \in Direct => f[1] \in whole
    /\ step \in {"read", "live", "identify"} => \A f \in stayed : f[1] \in Direct => Awaited(f)
    /\ step = "identify" => unread = {} /\ at = Nowhere
    /\ result # "none" => step = "done"
    /\ step \in {"idle", "walk", "targets"} => shown = {} /\ at = Nowhere

LEMMA ShowInit == Init => ShowInv
BY DEF Init, InventoryInit, ShowInv

\* Where the inventory stands still, less and less has stayed.
LEMMA ShowStays ==
    ASSUME Inv, ShowInv, UNCHANGED inventory,
           \/ Watch
           \/ UNCHANGED <<disk, history>>
    PROVE  ShowInv'
<1>0. UNCHANGED <<step, live, met, whole, unread, at, listing, shown, partial, result>>
  BY DEF inventory, scan, outcome
<1>1. /\ stayed' \subseteq stayed /\ seen \subseteq seen'
      /\ step \notin {"idle", "done"} => stayed' \subseteq Still' /\ Visible' \subseteq seen'
  <2>1. CASE Watch
    BY <1>0, <2>1 DEF Watch, history, Still
  <2>2. CASE UNCHANGED <<disk, history>>
    <3>1. UNCHANGED <<closed, files, Visible>> /\ UNCHANGED history
      BY <2>2, PathsStand
    <3>2. Still' = Still
      BY <1>0, <3>1 DEF Still, Reachable
    <3> QED BY <1>0, <3>1, <3>2 DEF ShowInv, history
  <2> QED BY <2>1, <2>2
<1>2. Direct' = Direct /\ \A f : Awaited(f)' <=> Awaited(f)
  BY <1>0 DEF Direct, Awaited
<1>3. \A d : Approached(d)' <=> Approached(d)
  BY <1>0 DEF Approached
<1> QED BY <1>0, <1>1, <1>2, <1>3 DEF ShowInv

\* A step that ends the command leaves nothing to account for.
LEMMA ShowEnds ==
    ASSUME NEW ts, NEW s, NEW u, NEW r, Ends(ts, s, u, r)
    PROVE  ShowInv'
BY DEF Ends, ShowInv

\* What can be reached is where it seems to be.
LEMMA ReachedIsPlain ==
    ASSUME Inv, ShowInv, step \notin {"idle", "done"}, NEW f \in stayed
    PROVE  /\ f \in files /\ f \in Visible /\ f = <<f[1], f[2]>>
           /\ f[1] \in Places /\ f[2] \in Names /\ f[1] # Nowhere
           /\ f[1] \in Dirs =>
                 /\ kind[f[1]] = "dir" /\ Resolve(f[1]) = f[1]
                 /\ \A a \in Above[f[1]] : a \in Dirs /\ a \notin closed /\ kind[a] = "dir"
                 /\ IsDir(f[1]) /\ ~Hidden(f[1])
           /\ live /\ f[1] \in Dirs \cup Buckets => f[1] \notin closed
<1>1. f \in Still /\ TreeOK
  BY DEF ShowInv, Inv, Typed
<1>2. f \in files /\ f \in Visible
  BY <1>1, Shapes DEF Still, Reachable
<1>3. f \in Places \X Names
  BY <1>2 DEF Visible
<1>4. f = <<f[1], f[2]>> /\ f[1] \in Places /\ f[2] \in Names /\ f[1] # Nowhere
  BY <1>3, InventoryAssumption DEF InventoryAssumption
<1>5. f[1] \in Dirs => Above[f[1]] \cap closed = {}
  BY <1>1 DEF Still, Reachable
<1>6. f[1] \in Dirs => kind[f[1]] = "dir"
  BY <1>1, <1>2 DEF TreeOK, WellFormed
<1>7. f[1] \in Dirs => \A a \in Above[f[1]] : a \in Dirs /\ kind[a] = "dir"
  BY <1>1, <1>6, AboveIsOrder DEF TreeOK, WellFormed
<1>8. f[1] \in Dirs => Resolve(f[1]) = f[1] /\ IsDir(f[1])
  BY <1>1, <1>6, SpotLeads
<1>9. f[1] \in Dirs => ~Hidden(f[1])
  BY <1>5, <1>8 DEF Hidden
<1>10. live /\ f[1] \in Dirs \cup Buckets => f[1] \notin closed
  BY <1>1 DEF Still, Reachable
<1> QED BY <1>2, <1>4, <1>5, <1>6, <1>7, <1>8, <1>9, <1>10

LEMMA WalkApproaches ==
    ASSUME Inv, ShowInv, NEW d \in Dirs, Walk(d), NEW f \in stayed, f[1] \in Direct
    PROVE  Approached(f[1])'
<1>1. /\ step = "walk" /\ d \in unread /\ UNCHANGED whole /\ TreeOK
      /\ met \subseteq met' /\ unread \ {d} \subseteq unread'
  BY DEF Walk, Inv, Typed
<1>2. f[1] \in Dirs /\ f[1] \in DotDitto
  BY <1>1, TreeAssumption DEF Direct, ShowInv, TreeAssumption
<1>3. Approached(f[1])
  BY <1>1 DEF ShowInv
<1>4. CASE d \in Above[f[1]]
  <2>1. PICK c \in Children[d] : f[1] \in Within[c]
    BY <1>2, <1>4, TreeAssumption DEF TreeAssumption
  <2>2. /\ kind[f[1]] = "dir"
        /\ \A a \in Above[f[1]] : a \in Dirs /\ a \notin closed /\ kind[a] = "dir"
    BY <1>1, <1>2, ReachedIsPlain
  <2>3. Listable(d)
    <3>1. kind[d] = "dir" /\ d \notin closed
      BY <1>4, <2>2
    <3>2. Resolve(d) = d /\ IsDir(d)
      BY <1>1, <3>1, SpotLeads
    <3>3. Above[d] \cap closed = {}
      BY <1>2, <1>4, <2>2, AboveIsOrder
    <3> QED BY <3>1, <3>2, <3>3 DEF Listable, Hidden
  <2>4. c \in Dirs /\ (c = f[1] \/ c \in Above[f[1]])
    BY <2>1, BelowIsDown DEF Children
  <2>5. kind[c] = "dir" /\ Spot(c) = c
    BY <1>1, <2>2, <2>4, SpotLeads
  <2>6. c \in Found(d)
    BY <2>1, <2>5 DEF Found
  <2>7. CASE c = f[1]
    <3>1. c \in met'
      BY <1>2, <2>1, <2>3, <2>5, <2>7 DEF Walk
    <3> QED BY <2>7, <3>1 DEF Approached
  <2>8. CASE c \in Above[f[1]]
    <3>1. c \in unread'
      BY <2>1, <2>3, <2>6 DEF Walk
    <3> QED BY <2>8, <3>1 DEF Approached
  <2> QED BY <2>4, <2>7, <2>8
<1>5. CASE d \notin Above[f[1]]
  BY <1>1, <1>3, <1>5 DEF Approached
<1> QED BY <1>4, <1>5

LEMMA ShowStep ==
    ASSUME Inv, ShowInv, InventoryStart \/ InventoryStep
    PROVE  ShowInv'
<1>0. /\ TreeOK /\ InventoryTypeOK
      /\ UNCHANGED disk /\ Visible' = Visible /\ UNCHANGED <<kind, closed, files>>
  BY InventoryTyped, PathsStand DEF Inv, Typed
<1>r. ASSUME NEW f \in stayed, step \notin {"idle", "done"}
      PROVE  f \in Visible /\ f = <<f[1], f[2]>> /\ f[1] \in Places /\ f[2] \in Names /\ f[1] # Nowhere
  BY <1>r, ReachedIsPlain
<1>s. Reachable(TRUE)' = Reachable(TRUE) /\ Reachable(FALSE)' = Reachable(FALSE)
  BY <1>0 DEF Reachable
<1>1. CASE Fails
  BY <1>1, ShowEnds DEF Fails
<1>2. CASE BeginFails \/ LookRaises \/ DirRaises
  BY <1>1, <1>2 DEF BeginFails, LookRaises, DirRaises, ReadRaises
<1>3. CASE Report
  <2>1. ASSUME NEW ts \in Selections, List(ts)
        PROVE  ShowInv'
    BY <2>1, ShowEnds DEF List
  <2>2. CASE Status \/ Stats \/ Lint
    BY <2>2, ShowEnds DEF Status, Stats, Lint
  <2> QED BY <1>1, <1>3, <2>1, <2>2 DEF Report
<1>4. CASE Begin
  <2>1. /\ step' = "walk" /\ live' = live /\ step = "idle" /\ met' = {Root} \cap DotDitto
        /\ unread' = {Root} /\ seen' = Visible /\ stayed' = Reachable(FALSE)
        /\ UNCHANGED <<whole, at, shown, result>>
    BY <1>4 DEF Begin, outcome
  <2>2. ~live /\ shown = {} /\ at = Nowhere /\ result = "none"
    BY <2>1 DEF ShowInv
  <2>3. Still' = Reachable(FALSE)'
    BY <2>1, <2>2 DEF Still
  <2>4. \A f \in stayed' : f[1] \in Direct' => Approached(f[1])'
    <3> TAKE f \in stayed'
    <3> HAVE f[1] \in Direct'
    <3>1. f[1] \in InPath /\ f[1] \in DotDitto
      BY <2>1, <2>2 DEF Direct
    <3>2. f[1] = Root \/ Root \in Above[f[1]]
      BY <3>1, BelowIsDown, TreeAssumption DEF InPath, TreeAssumption
    <3> QED BY <2>1, <3>1, <3>2 DEF Approached
  <2> QED BY <1>0, <1>s, <2>1, <2>2, <2>3, <2>4 DEF ShowInv
<1>5. CASE BeginLive
  <2>1. /\ step' = "live" /\ live' = TRUE /\ step = "idle" /\ unread' = Live
        /\ seen' = Visible /\ stayed' = Reachable(TRUE)
        /\ UNCHANGED <<at, shown, result>>
    BY <1>5 DEF BeginLive, outcome
  <2>2. shown = {} /\ at = Nowhere /\ result = "none"
    BY <2>1 DEF ShowInv
  <2>3. Still' = Reachable(TRUE)'
    BY <2>1 DEF Still
  <2>4. \A f : f[1] \in Direct' => Awaited(f)'
    BY <2>1 DEF Direct, Awaited
  <2> QED BY <1>0, <1>s, <2>1, <2>2, <2>3, <2>4 DEF ShowInv
<1>6. ASSUME UNCHANGED <<live, history, result>>, step \notin {"idle", "done"}, result = "none",
             step' \notin {"idle", "done"}
      PROVE  /\ step' \notin {"idle", "done"} => stayed' \subseteq Still' /\ Visible' \subseteq seen'
             /\ Direct' = Direct /\ stayed' = stayed /\ seen' = seen
  <2>1. UNCHANGED <<stayed, seen>>
    BY <1>6 DEF history
  <2>2. Still' = Still
    BY <1>6, <1>s DEF Still
  <2> QED BY <1>0, <1>6, <2>1, <2>2 DEF ShowInv, Direct
<1>7. ASSUME NEW d \in Dirs, Walk(d)
      PROVE  ShowInv'
  <2>1. /\ step = "walk" /\ UNCHANGED <<step, live, history, result, whole, at, shown>>
    BY <1>7 DEF Walk, outcome
  <2>2. result = "none" /\ shown = {} /\ at = Nowhere /\ ~live
    BY <2>1 DEF ShowInv
  <2>3. \A f \in stayed : f[1] \in Direct => Approached(f[1])'
    BY <1>7, WalkApproaches
  <2> QED BY <1>6, <2>1, <2>2, <2>3 DEF ShowInv
<1>8. ASSUME NEW d \in Dirs, Check(d)
      PROVE  ShowInv'
  <2>1. /\ step = "walk" /\ met' = met \ {d} /\ unread = {}
        /\ whole' = IF Hidden(d) \/ ~IsDir(d) THEN whole ELSE whole \cup {Resolve(d)}
        /\ UNCHANGED <<step, live, history, result, unread, at, shown>>
    BY <1>8 DEF Check, outcome
  <2>2. result = "none" /\ shown = {} /\ at = Nowhere /\ ~live
    BY <2>1 DEF ShowInv
  <2>3. ASSUME NEW f \in stayed, f[1] \in Direct
        PROVE  Approached(f[1])'
    <3>1. f[1] \in whole \/ f[1] \in met
      BY <2>1, <2>3 DEF ShowInv, Approached
    <3>2. CASE f[1] = d
      <4>1. ~Hidden(d) /\ IsDir(d) /\ Resolve(d) = d
        BY <1>8, <2>1, <3>2, ReachedIsPlain
      <4> QED BY <2>1, <3>2, <4>1 DEF Approached
    <3> QED BY <2>1, <3>1, <3>2 DEF Approached
  <2> QED BY <1>6, <2>1, <2>2, <2>3 DEF ShowInv
<1>9. CASE TakeTargets
  <2>1. /\ step = "walk" /\ step' = "targets" /\ unread = {} /\ met = {}
        /\ UNCHANGED <<live, history, result, whole, at, shown>>
    BY <1>9 DEF TakeTargets, outcome
  <2>2. result = "none" /\ shown = {} /\ at = Nowhere /\ ~live
    BY <2>1 DEF ShowInv
  <2>3. \A f \in stayed : f[1] \in Direct => f[1] \in whole
    BY <2>1 DEF ShowInv, Approached
  <2> QED BY <1>6, <2>1, <2>2, <2>3 DEF ShowInv
<1>10. ASSUME NEW t \in FileTargets, SelectTarget(t)
      PROVE  ShowInv'
  <2>1. /\ step = "targets" /\ whole \subseteq whole'
        /\ UNCHANGED <<step, live, history, result, at, shown>>
    BY <1>10 DEF SelectTarget, outcome
  <2>2. result = "none" /\ shown = {} /\ at = Nowhere /\ ~live
    BY <2>1 DEF ShowInv
  <2> QED BY <1>6, <2>1, <2>2 DEF ShowInv
<1>11. CASE StartReading
  <2>1. /\ step = "targets" /\ step' = "read" /\ unread' = Wanted
        /\ UNCHANGED <<live, history, result, whole, at, shown>>
    BY <1>11 DEF StartReading, outcome
  <2>2. result = "none" /\ shown = {} /\ at = Nowhere /\ ~live
    BY <2>1 DEF ShowInv
  <2>3. \A f \in stayed : f[1] \in Direct => f[1] \in whole /\ Awaited(f)'
    BY <2>1 DEF ShowInv, Wanted, Awaited
  <2> QED BY <1>6, <2>1, <2>2, <2>3 DEF ShowInv
<1>12. ASSUME NEW d \in Dirs, ListDir(d)
      PROVE  ShowInv'
  <2>1. /\ step = "read" /\ at = Nowhere /\ at' = d /\ unread' = unread \ {d}
        /\ listing' = {n \in Names : <<Resolve(d), n>> \in files}
        /\ UNCHANGED <<step, live, history, result, whole, shown, partial>>
    BY <1>12 DEF ListDir, outcome
  <2>2. result = "none" /\ ~live
    BY <2>1 DEF ShowInv
  <2>3. ASSUME NEW f \in stayed, f[1] \in Direct
        PROVE  Awaited(f)'
    <3>1. Awaited(f) /\ f[1] # at
      BY <1>r, <2>1, <2>3 DEF ShowInv
    <3>2. f[1] = d => f[2] \in listing'
      <4> HAVE f[1] = d
      <4>1. f \in files /\ f = <<d, f[2]>> /\ f[2] \in Names /\ Resolve(d) = d
        BY <2>1, ReachedIsPlain
      <4> QED BY <2>1, <4>1
    <3> QED BY <2>1, <3>1, <3>2 DEF Awaited
  <2> QED BY <1>6, <2>1, <2>2, <2>3 DEF ShowInv
<1>13. ASSUME NEW n \in Names, StatFile(n)
      PROVE  ShowInv'
  <2>1. /\ step = "read" /\ at # Nowhere /\ listing' = listing \ {n}
        /\ shown' = IF <<Resolve(at), n>> \in files /\ InScope(at, n)
                     THEN shown \cup {<<at, n>>} ELSE shown
        /\ UNCHANGED <<step, live, history, result, whole, unread, at, partial>>
    BY <1>13 DEF StatFile, outcome
  <2>2. result = "none" /\ ~live /\ at \in Dirs
    BY <2>1 DEF ShowInv
  <2>3. shown \subseteq shown' /\ shown' \subseteq seen
    <3>1. <<Resolve(at), n>> \in files => <<at, n>> \in Visible
      BY <2>2 DEF Visible, Located, Places
    <3> QED BY <2>1, <3>1 DEF ShowInv
  <2>4. ASSUME NEW f \in stayed, f[1] \in Direct
        PROVE  Awaited(f)'
    <3>1. Awaited(f) /\ f[1] \in whole
      BY <2>1, <2>4 DEF ShowInv
    <3>2. CASE f[1] = at /\ f[2] = n
      <4>1. f \in files /\ f = <<at, n>> /\ Resolve(at) = at
        BY <2>1, <2>2, <3>2, ReachedIsPlain
      <4>2. InScope(at, n)
        BY <3>1, <3>2 DEF InScope
      <4> QED BY <2>1, <4>1, <4>2 DEF Awaited
    <3>3. CASE ~(f[1] = at /\ f[2] = n)
      BY <2>1, <2>3, <3>1, <3>3 DEF Awaited
    <3> QED BY <3>2, <3>3
  <2> QED BY <1>6, <2>1, <2>2, <2>3, <2>4 DEF ShowInv
<1>14. CASE LeaveDir \/ LeaveStore
  <2>1. /\ step \in {"read", "live"} /\ listing = {} /\ at' = Nowhere
        /\ UNCHANGED <<step, live, history, result, whole, unread, listing, shown, partial>>
    BY <1>14 DEF LeaveDir, LeaveStore, outcome
  <2>2. \A f : Awaited(f) => Awaited(f)'
    BY <2>1 DEF Awaited
  <2>3. result = "none"
    BY <2>1 DEF ShowInv
  <2> QED BY <1>6, <2>1, <2>2, <2>3 DEF ShowInv
<1>15. CASE EndReading
  <2>1. /\ step \in {"read", "live"} /\ step' = "identify" /\ unread = {} /\ at = Nowhere
        /\ UNCHANGED <<live, history, result, whole, unread, at, listing, shown, partial>>
    BY <1>15 DEF EndReading, outcome
  <2>2. \A f : Awaited(f) => Awaited(f)'
    BY <2>1 DEF Awaited
  <2>3. result = "none"
    BY <2>1 DEF ShowInv
  <2> QED BY <1>6, <2>1, <2>2, <2>3 DEF ShowInv
<1>16. ASSUME NEW p \in Places, Enumerate(p)
      PROVE  ShowInv'
  <2>1. /\ step = "live" /\ at = Nowhere /\ p \in Dirs \cup Buckets /\ unread' = unread \ {p}
        /\ shown' = IF IF p \in Dirs THEN Listable(p) ELSE p \notin closed
                     THEN shown \cup {f \in Visible : f[1] = p} ELSE shown
        /\ UNCHANGED <<step, live, history, result, at, listing, partial>>
    BY <1>16 DEF Enumerate, outcome
  <2>2. result = "none" /\ live
    BY <2>1 DEF ShowInv
  <2>3. shown \subseteq shown' /\ shown' \subseteq seen
    BY <2>1 DEF ShowInv
  <2>4. ASSUME NEW f \in stayed, f[1] \in Direct
        PROVE  Awaited(f)'
    <3>1. Awaited(f)
      BY <2>1, <2>4 DEF ShowInv
    <3>2. CASE f[1] = p
      <4>1. f \in Visible /\ p \notin closed
        BY <2>1, <2>2, <3>2, ReachedIsPlain
      <4>2. p \in Dirs => Listable(p)
        <5> HAVE p \in Dirs
        <5>1. IsDir(p) /\ ~Hidden(p) /\ Resolve(p) = p
          BY <2>1, <3>2, ReachedIsPlain
        <5> QED BY <4>1, <5>1 DEF Listable
      <4> QED BY <2>1, <3>2, <4>1, <4>2 DEF Awaited
    <3>3. CASE f[1] # p
      BY <2>1, <2>3, <3>1, <3>3 DEF Awaited
    <3> QED BY <3>2, <3>3
  <2> QED BY <1>6, <2>1, <2>2, <2>3, <2>4 DEF ShowInv
<1>17. ASSUME NEW s \in Stores, ListKeys(s)
      PROVE  ShowInv'
  <2>1. /\ step = "live" /\ at = Nowhere /\ s \notin Buckets /\ at' = s /\ unread' = unread \ {s}
        /\ listing' = {n \in Names : <<s, n>> \in files}
        /\ UNCHANGED <<step, live, history, result, shown, partial>>
    BY <1>17 DEF ListKeys, outcome
  <2>2. result = "none" /\ live
    BY <2>1 DEF ShowInv
  <2>3. ASSUME NEW f \in stayed, f[1] \in Direct
        PROVE  Awaited(f)'
    <3>1. Awaited(f) /\ f[1] # at
      BY <1>r, <2>1, <2>3 DEF ShowInv
    <3>2. f[1] = s => f[2] \in listing'
      <4> HAVE f[1] = s
      <4>1. f \in files /\ f = <<s, f[2]>> /\ f[2] \in Names
        BY <2>1, ReachedIsPlain
      <4> QED BY <2>1, <4>1
    <3> QED BY <2>1, <3>1, <3>2 DEF Awaited
  <2> QED BY <1>6, <2>1, <2>2, <2>3 DEF ShowInv
<1>18. ASSUME NEW n \in Names, ReadKey(n)
      PROVE  ShowInv'
  <2>1. /\ step = "live" /\ at # Nowhere /\ listing' = listing \ {n}
        /\ <<at, n>> \in files /\ shown' = shown \cup {<<at, n>>}
        /\ UNCHANGED <<step, live, history, result, unread, at, partial>>
    BY <1>18 DEF ReadKey, outcome
  <2>2. result = "none" /\ live /\ at \in Stores
    BY <2>1 DEF ShowInv
  <2>3. <<at, n>> \in Visible
    BY <2>1, <2>2, TreeAssumption DEF Visible, Located, Places, TreeAssumption
  <2>4. shown' \subseteq seen
    BY <2>1, <2>3 DEF ShowInv
  <2>5. ASSUME NEW f \in stayed, f[1] \in Direct
        PROVE  Awaited(f)'
    <3>1. Awaited(f) /\ f = <<f[1], f[2]>>
      BY <1>r, <2>1, <2>5 DEF ShowInv
    <3> QED BY <2>1, <3>1 DEF Awaited
  <2> QED BY <1>6, <2>1, <2>2, <2>4, <2>5 DEF ShowInv
<1>19. ASSUME NEW s \in Stores, BackendRaises(s)
      PROVE  ShowInv'
  <2>1. /\ step = "live" /\ at' = Nowhere /\ partial' = TRUE /\ shown' \subseteq shown
        /\ UNCHANGED <<step, live, history, result>>
    BY <1>19 DEF BackendRaises, outcome
  <2>2. result = "none" /\ live /\ shown' \subseteq seen
    BY <2>1 DEF ShowInv
  <2>3. \A f : Awaited(f)'
    BY <2>1 DEF Awaited
  <2> QED BY <1>6, <2>1, <2>2, <2>3 DEF ShowInv
<1> QED BY <1>2, <1>3, <1>4, <1>5, <1>7, <1>8, <1>9, <1>10, <1>11, <1>12, <1>13, <1>14, <1>15,
           <1>16, <1>17, <1>18, <1>19 DEF InventoryStart, InventoryStep

LEMMA ShowNext ==
    ASSUME Inv, ShowInv, [Next]_vars
    PROVE  ShowInv'
<1>1. CASE Change \/ ((CleanRuns \/ Answers) /\ Watch)
  <2>1. UNCHANGED inventory /\ Watch
    BY <1>1 DEF Change, CleanRuns, Answers
  <2> QED BY <2>1, ShowStays
<1>2. CASE Protect \/ UNCHANGED vars
  <2>1. UNCHANGED inventory /\ UNCHANGED <<disk, history>>
    BY <1>2 DEF Protect, vars
  <2> QED BY <2>1, ShowStays
<1>3. CASE Starts \/ InventoryRuns
  BY <1>3, ShowStep DEF Starts, InventoryRuns
<1> QED BY <1>1, <1>2, <1>3 DEF Next

\* A report that exits 0 is one of nothing given up.
LEMMA ReportHidesNothing ==
    ASSUME Inv, ShowInv, Report
    PROVE  NothingIsHidden
<1> SUFFICES ASSUME result' \in {"complete", "valid"}
             PROVE  /\ printed' \subseteq seen \cup PairsOf(declared)
                    /\ \A f \in stayed : f[1] \in Direct =>
                          /\ f \in printed' \cup leftOut' \/ Unselected(f)'
                          /\ result' = "valid" => ~Flawed(f)
  BY DEF NothingIsHidden, Ended
<1>1. ~partial /\ step = "identify"
  BY DEF Report, List, Status, Stats, Lint, Fails, Ends, Ending
<1>2. \A f \in stayed : f[1] \in Direct => f \in shown /\ f[2] \in Names
  <2> TAKE f \in stayed
  <2> HAVE f[1] \in Direct
  <2>1. Awaited(f) /\ unread = {} /\ at = Nowhere
    BY <1>1 DEF ShowInv
  <2>2. f[1] # Nowhere /\ f[2] \in Names
    BY <1>1, ReachedIsPlain
  <2> QED BY <1>1, <2>1, <2>2 DEF Awaited
<1>3. shown \subseteq Manifest /\ Manifest \subseteq seen \cup PairsOf(declared)
  BY DEF Manifest, ShowInv
<1>4. printed' \subseteq seen \cup PairsOf(declared)
  BY <1>3, ReportTyped DEF Inv, Typed
<1>5. ASSUME NEW f \in shown, f[2] \in Names
      PROVE  /\ f \in printed' \cup leftOut' \/ Unselected(f)'
             /\ result' = "valid" => ~Flawed(f)
  <2>1. ASSUME NEW ts \in Selections, List(ts)
        PROVE  /\ f \in printed' \cup leftOut' \/ Unselected(f)'
               /\ result' = "valid" => ~Flawed(f)
    <3>1. tests' = ts /\ result' # "valid"
      BY <2>1 DEF List, Ends, Ending
    <3>2. Picked(tests)' = Picked(ts)
      BY <3>1 DEF Picked
    <3> QED BY <1>3, <1>5, <2>1, <3>1, <3>2 DEF List, Ends, Selection, Unselected
  <2>2. CASE Status \/ Stats
    <3>1. printed' = Manifest /\ result' # "valid"
      BY <2>2 DEF Status, Stats, Ends, Ending
    <3> QED BY <1>3, <3>1
  <2>3. CASE Lint
    <3>1. printed' = Manifest /\ LintIssues = {}
      BY <1>1, <2>3 DEF Lint, Ends, Ending
    <3>2. f \notin LintIssues
      BY <3>1
    <3> QED BY <1>3, <3>1, <3>2 DEF LintIssues, Flawed
  <2>4. ~Fails
    BY DEF Fails, Ends
  <2> QED BY <2>1, <2>2, <2>3, <2>4 DEF Report
<1> QED BY <1>2, <1>4, <1>5

\* Only a report ends a command with a result that counts as a success.
LEMMA OnlyReportEnds ==
    ASSUME Inv, Next, Ended
    PROVE  Report
<1>0. result = "none" /\ result' \in {"complete", "valid"} /\ ~UNCHANGED result
  BY DEF Ended
<1>1. ~Change /\ ~Protect /\ ~CleanRuns /\ ~Answers
  BY <1>0 DEF Change, Protect, CleanRuns, Answers, inventory, outcome
<1>2. InventoryStart \/ InventoryStep
  BY <1>1 DEF Next, Starts, InventoryRuns
<1>3. ~Fails
  BY <1>0 DEF Fails, Ends
<1>4. ~BeginFails /\ ~LookRaises /\ ~DirRaises
  BY <1>3 DEF BeginFails, LookRaises, DirRaises, ReadRaises
<1>5. ~Begin /\ ~BeginLive
  BY <1>0 DEF Begin, BeginLive, outcome
<1>6. \A d \in Dirs : ~Walk(d) /\ ~Check(d) /\ ~ListDir(d)
  BY <1>0 DEF Walk, Check, ListDir, outcome
<1>7. ~TakeTargets /\ ~StartReading /\ ~LeaveDir /\ ~LeaveStore /\ ~EndReading
  BY <1>0 DEF TakeTargets, StartReading, LeaveDir, LeaveStore, EndReading, outcome
<1>8. \A t \in FileTargets : ~SelectTarget(t)
  BY <1>0 DEF SelectTarget, outcome
<1>9. \A n \in Names : ~StatFile(n) /\ ~ReadKey(n)
  BY <1>0 DEF StatFile, ReadKey, outcome
<1>10. \A p \in Places : ~Enumerate(p)
  BY <1>0 DEF Enumerate, outcome
<1>11. \A s \in Stores : ~ListKeys(s) /\ ~BackendRaises(s)
  BY <1>0 DEF ListKeys, BackendRaises, outcome
<1> QED BY <1>2, <1>4, <1>5, <1>6, <1>7, <1>8, <1>9, <1>10, <1>11 DEF InventoryStart, InventoryStep

\* Whatever sessions and users do while it reads: an inventory command that exits
\* 0 has reported every snapshot that was there all along with no closed directory
\* above it, and none that never was where it is shown.
THEOREM NothingIsHiddenHolds == Spec => [][NothingIsHidden]_vars
<1>1. Init => ShowInv BY ShowInit
<1>2. Inv /\ ShowInv /\ [Next]_vars => ShowInv' BY ShowNext
<1>3. Inv /\ ShowInv /\ [Next]_vars => [NothingIsHidden]_vars
  <2> SUFFICES ASSUME Inv, ShowInv, Next, Ended
               PROVE  NothingIsHidden
    BY DEF NothingIsHidden
  <2>1. Report
    BY OnlyReportEnds
  <2> QED BY <2>1, ReportHidesNothing
<1> QED BY <1>1, <1>2, <1>3, Invariant, PTL DEF Spec

----------------------------------------------------------------------------
(* That exactly what there is to find is shown.  While nothing it reads     *)
(* changes, the directories and keys selected are those of the walk and of  *)
(* the targets of the lock dealt with so far, and what is shown is in view. *)

\* A target of the lock that has been dealt with, and leads to d.
Leads(t, d) ==
    /\ t \in FileTargets /\ \E e \in known : TargetOf[e] = t
    /\ ~(step = "targets" /\ t \in unread)
    /\ ~Hidden(DirOf[t]) /\ Resolve(DirOf[t]) = d

\* A .ditto path the walk of a tree that stays as it is has to meet.
ToMeet(e) == e \in InPath \cap DotDitto /\ kind[e] # "none" /\ IsDir(e) /\ ~Hidden(e)

WalkedExactly ==
    /\ known = lock
    /\ \A d \in unread : d \in InPath /\ (d = Root \/ kind[d] = "dir")
    /\ \A d \in met : d \in InPath \cap DotDitto /\ (d = Root \/ kind[d] # "none")
    /\ whole \subseteq Walked
    /\ \A e \in Dirs : ToMeet(e) =>
          Resolve(e) \in whole \/ e \in met \/ \E a \in Above[e] : a \in unread

SelectedExactly ==
    /\ known = lock
    /\ step = "targets" =>
          \A t \in unread : t \in FileTargets /\ \E e \in known : TargetOf[e] = t
    /\ \A d \in Dirs : d \in whole <=>
          \/ d \in Walked
          \/ /\ d \in InPath /\ kind[d] = "dir"
             /\ \E t \in FileTargets : Leads(t, d)
    /\ \A d \in Dirs : \A n \in Names : n \in some[d] <=>
          /\ kind[d] = "dir" /\ d \notin InPath /\ d \notin Walked
          /\ \E t \in FileTargets : Leads(t, d) /\ n \in OwnKeys(t)

Due(f) == f \in shown \/ f[1] \in unread \/ (f[1] = at /\ f[2] \in listing)

ShownExactly ==
    /\ \A f \in shown : f \in Visible /\ InView(f)
    /\ \A f \in Visible : InView(f) => Due(f)

ExactInv ==
    /\ step \in {"idle", "walk"} => some = [d \in Dirs |-> {}]
    /\ step = "idle" => whole = {}
    /\ step = "live" => unread \subseteq Live /\ at \in Live \cup {Nowhere}
    /\ calm /\ step = "walk" => WalkedExactly
    /\ calm /\ ~live /\ step \in {"targets", "read", "identify"} => SelectedExactly
    /\ calm /\ step \in {"read", "live", "identify"} => partial \/ ShownExactly

LEMMA ExactInit == Init => ExactInv
BY DEF Init, InventoryInit, ExactInv

LEMMA ExactEnds ==
    ASSUME NEW ts, NEW s, NEW u, NEW r, Ends(ts, s, u, r)
    PROVE  ExactInv'
BY DEF Ends, ExactInv

LEMMA WalkedStands ==
    ASSUME UNCHANGED disk
    PROVE  Walked' = Walked /\ \A e : ToMeet(e)' <=> ToMeet(e)
<1>1. /\ UNCHANGED kind
      /\ \A d : Resolve(d)' = Resolve(d) /\ (Hidden(d) <=> Hidden(d)') /\ (IsDir(d) <=> IsDir(d)')
  BY PathsStand
<1> QED BY <1>1 DEF Walked, ToMeet

LEMMA ViewStands ==
    ASSUME UNCHANGED <<disk, live, known>>
    PROVE  \A f : InView(f)' <=> InView(f)
<1>1. /\ UNCHANGED <<kind, closed>>
      /\ \A d : Resolve(d)' = Resolve(d) /\ (Hidden(d) <=> Hidden(d)')
      /\ \A d : Listable(d) <=> Listable(d)'
  BY PathsStand
<1>2. Walked' = Walked
  BY WalkedStands
<1> QED BY <1>1, <1>2 DEF InView

LEMMA KeysStand == ASSUME UNCHANGED known PROVE \A t : OwnKeys(t)' = OwnKeys(t)
BY DEF OwnKeys

\* What the walk stood for stays so while neither the disk nor the walk moves on.
LEMMA WalkStands ==
    ASSUME WalkedExactly, UNCHANGED <<disk, known, unread, met, whole>>
    PROVE  WalkedExactly'
<1>1. UNCHANGED <<kind, lock>> /\ \A d : Resolve(d)' = Resolve(d)
  BY PathsStand
<1>2. Walked' = Walked /\ \A e : ToMeet(e)' <=> ToMeet(e)
  BY WalkedStands
<1> QED BY <1>1, <1>2 DEF WalkedExactly

LEMMA LeadsStand ==
    ASSUME UNCHANGED <<disk, known>>,
           ((step = "targets" => unread = {}) /\ step' # "targets") \/ UNCHANGED <<step, unread>>
    PROVE  \A t, d : Leads(t, d)' <=> Leads(t, d)
<1>1. \A d : Resolve(d)' = Resolve(d) /\ (Hidden(d) <=> Hidden(d)')
  BY PathsStand
<1> QED BY <1>1 DEF Leads

LEMMA SelectionStands ==
    ASSUME SelectedExactly, UNCHANGED <<disk, known, whole, some>>,
           ((step = "targets" => unread = {}) /\ step' # "targets") \/ UNCHANGED <<step, unread>>
    PROVE  SelectedExactly'
<1>1. UNCHANGED <<kind, lock>> /\ Walked' = Walked
  BY PathsStand, WalkedStands
<1>2. \A t, d : Leads(t, d)' <=> Leads(t, d)
  BY LeadsStand
<1>3. \A t : OwnKeys(t)' = OwnKeys(t)
  BY KeysStand
<1> QED BY <1>1, <1>2, <1>3 DEF SelectedExactly

LEMMA ShownStands ==
    ASSUME ShownExactly, UNCHANGED <<disk, live, known, shown>>,
           \A f \in Visible : InView(f) /\ Due(f) => Due(f)'
    PROVE  ShownExactly'
<1>1. Visible' = Visible /\ \A f : InView(f)' <=> InView(f)
  BY PathsStand, ViewStands
<1> QED BY <1>1 DEF ShownExactly

\* Where the inventory stands still and the disk does too, all stays as it was.
LEMMA ExactStays ==
    ASSUME ExactInv, UNCHANGED inventory,
           calm' /\ step \notin {"idle", "done"} => calm /\ UNCHANGED disk
    PROVE  ExactInv'
<1>0. UNCHANGED <<step, live, known, met, whole, some, unread, at, listing, shown, partial>>
  BY DEF inventory, scan
<1>1. CASE step \in {"idle", "done"} \/ ~calm'
  BY <1>0, <1>1 DEF ExactInv
<1>2. CASE step \notin {"idle", "done"} /\ calm'
  <2>1. calm /\ UNCHANGED disk
    BY <1>2
  <2>2. WalkedExactly => WalkedExactly'
    BY <1>0, <2>1, WalkStands
  <2>3. SelectedExactly => SelectedExactly'
    BY <1>0, <2>1, SelectionStands
  <2>4. ShownExactly => ShownExactly'
    BY <1>0, <2>1, ShownStands DEF Due
  <2> QED BY <1>0, <2>1, <2>2, <2>3, <2>4 DEF ExactInv
<1> QED BY <1>1, <1>2

\* Links are followed once.
LEMMA ResolveAgain ==
    ASSUME TreeOK, NEW d \in Dirs
    PROVE  Resolve(Resolve(d)) = Resolve(d)
<1>1. CASE \E a \in {d} \cup Above[d] : kind[a] = "link"
  <2>1. PICK a \in {d} \cup Above[d] : a = CHOOSE b \in {d} \cup Above[d] : kind[b] = "link"
    BY <1>1
  <2>2. kind[a] = "link"
    BY <1>1, <2>1
  <2>3. a \in Linkable /\ d \in Within[a]
    BY <2>1, <2>2, AboveIsOrder, BelowIsDown DEF TreeOK, WellFormed
  <2>4. Resolve(d) = Lead[a][d]
    BY <1>1, <2>1 DEF Resolve, Followed
  <2>5. ({Resolve(d)} \cup Above[Resolve(d)]) \cap Linkable = {}
    BY <2>3, <2>4, TreeAssumption DEF TreeAssumption
  <2>6. Resolve(d) \in Dirs
    BY SpotLeads
  <2>7. \A b \in {Resolve(d)} \cup Above[Resolve(d)] : b \in Dirs
    BY <2>6, AboveIsOrder
  <2>8. \A b \in {Resolve(d)} \cup Above[Resolve(d)] : kind[b] # "link"
    BY <2>5, <2>7 DEF TreeOK, WellFormed
  <2> DEFINE r == Resolve(d)
  <2>9. \A b \in {r} \cup Above[r] : kind[b] # "link"
    BY <2>8
  <2> HIDE DEF r
  <2>10. Resolve(r) = r
    BY <2>9 DEF Resolve, Followed
  <2> QED BY <2>10 DEF r
<1>2. CASE ~\E a \in {d} \cup Above[d] : kind[a] = "link"
  <2>1. Resolve(d) = d
    BY <1>2 DEF Resolve, Followed
  <2> QED BY <2>1
<1> QED BY <1>1, <1>2

LEMMA WalkedArePlain ==
    ASSUME TreeOK
    PROVE  \A d \in Walked : d \in Dirs /\ kind[d] = "dir" /\ Resolve(d) = d
<1>1. ASSUME NEW e \in Dirs, IsDir(e)
      PROVE  Resolve(e) \in Dirs /\ kind[Resolve(e)] = "dir" /\ Resolve(Resolve(e)) = Resolve(e)
  BY <1>1, SpotLeads, ResolveAgain DEF IsDir
<1>2. InPath \cap DotDitto \subseteq Dirs
  BY TreeAssumption DEF TreeAssumption
<1> QED BY <1>1, <1>2 DEF Walked

\* A read looks at exactly what is in view.
LEMMA InScopeIsInView ==
    ASSUME TreeOK, InventoryTypeOK, SelectedExactly, ~live, step = "targets" => unread = {},
           NEW f \in Places \X Names
    PROVE  /\ f \in Visible /\ InView(f) => f \in files /\ f[1] \in Dirs /\ InScope(f[1], f[2])
           /\ f[1] \in Dirs /\ InScope(f[1], f[2]) => kind[f[1]] = "dir" /\ Resolve(f[1]) = f[1]
           /\ f \in files /\ f[1] \in Dirs /\ InScope(f[1], f[2]) => f \in Visible /\ InView(f)
<1>0. f = <<f[1], f[2]>> /\ f[1] \in Places /\ f[2] \in Names
  OBVIOUS
<1>1. InView(f) => f[1] \in Dirs /\ Resolve(f[1]) = f[1]
  <2>1. ASSUME NEW e \in known, TargetOf[e] \in FileTargets, Resolve(DirOf[TargetOf[e]]) = f[1]
        PROVE  f[1] \in Dirs /\ Resolve(f[1]) = f[1]
    <3>1. DirOf[TargetOf[e]] \in Dirs
      BY <2>1, TreeAssumption DEF TreeAssumption
    <3> QED BY <2>1, <3>1, SpotLeads, ResolveAgain
  <2> QED BY <2>1, WalkedArePlain DEF InView
<1>2. f \in Visible /\ InView(f) => f \in files
  BY <1>0, <1>1 DEF Visible, Located
<1>3. f[1] \in Dirs /\ InScope(f[1], f[2]) => kind[f[1]] = "dir"
  BY <1>0, WalkedArePlain DEF InScope, SelectedExactly
<1>4. kind[f[1]] = "dir" /\ f[1] \in Dirs => Resolve(f[1]) = f[1]
  BY SpotLeads
<1>5. f \in files /\ f[1] \in Dirs => kind[f[1]] = "dir" /\ f \in Visible
  BY Shapes, <1>0, <1>4 DEF TreeOK, WellFormed, Visible, Located
<1>6. ASSUME f[1] \in Dirs, kind[f[1]] = "dir"
      PROVE  InView(f) <=> InScope(f[1], f[2])
  <2>2. f[1] \in whole <=>
          \/ f[1] \in Walked
          \/ f[1] \in InPath /\ \E t \in FileTargets : Leads(t, f[1])
    BY <1>6 DEF SelectedExactly
  <2>3. f[2] \in some[f[1]] <=>
          /\ f[1] \notin InPath /\ f[1] \notin Walked
          /\ \E t \in FileTargets : Leads(t, f[1]) /\ f[2] \in OwnKeys(t)
    BY <1>0, <1>6 DEF SelectedExactly
  <2>4. \A t : Leads(t, f[1]) <=> /\ t \in FileTargets /\ \E e \in known : TargetOf[e] = t
                                  /\ ~Hidden(DirOf[t]) /\ Resolve(DirOf[t]) = f[1]
    BY DEF Leads
  <2>5. (\E t \in FileTargets : Leads(t, f[1])) <=>
           \E e \in known : /\ TargetOf[e] \in FileTargets /\ ~Hidden(DirOf[TargetOf[e]])
                            /\ Resolve(DirOf[TargetOf[e]]) = f[1]
    BY <2>4
  <2>6. (\E t \in FileTargets : Leads(t, f[1]) /\ f[2] \in OwnKeys(t)) <=>
           \E e \in known : /\ TargetOf[e] \in FileTargets /\ ~Hidden(DirOf[TargetOf[e]])
                            /\ Resolve(DirOf[TargetOf[e]]) = f[1]
                            /\ KeyOf[e] = f[2] /\ f[2] \in Owned
    BY <2>4 DEF OwnKeys
  <2>7. InView(f) <=>
          \/ f[1] \in Walked
          \/ f[1] \in InPath /\ \E t \in FileTargets : Leads(t, f[1])
          \/ \E t \in FileTargets : Leads(t, f[1]) /\ f[2] \in OwnKeys(t)
    BY <2>5, <2>6 DEF InView
  <2> QED BY <2>2, <2>3, <2>7 DEF InScope
<1>7. f \in files /\ f[1] \in Dirs => kind[f[1]] = "dir"
  BY <1>5
<1> QED BY <1>1, <1>2, <1>3, <1>4, <1>5, <1>6, <1>7

LEMMA RootIsPlain ==
    ASSUME TreeOK
    PROVE  Root \in Dirs /\ Root \in InPath /\ Resolve(Root) = Root
<1>1. Root \in Dirs /\ Root \in InPath
  BY TreeAssumption, BelowIsDown DEF TreeAssumption, InPath
<1>2. \A a \in {Root} \cup Above[Root] : a \in Dirs /\ a \notin Linkable
  BY <1>1, AboveIsOrder, TreeAssumption DEF TreeAssumption
<1>3. \A a \in {Root} \cup Above[Root] : kind[a] # "link"
  BY <1>2 DEF TreeOK, WellFormed
<1> QED BY <1>1, <1>3 DEF Resolve, Followed

\* A directory is walked: the directories in it are next.
LEMMA WalkExactly ==
    ASSUME TreeOK, WalkedExactly, NEW d \in Dirs, Walk(d)
    PROVE  WalkedExactly'
<1> DEFINE entries == IF Listable(d) THEN Children[d] ELSE {}
<1>0. /\ d \in unread /\ UNCHANGED <<disk, known, whole>>
      /\ met' = met \cup {c \in entries \cap DotDitto : kind[Spot(c)] # "none"}
      /\ unread' = (unread \ {d}) \cup (Found(d) \cap entries)
  BY DEF Walk
<1>1. UNCHANGED <<kind, lock>> /\ Walked' = Walked /\ \A e : ToMeet(e)' <=> ToMeet(e)
  BY <1>0, PathsStand, WalkedStands
<1>2. \A e : Resolve(e)' = Resolve(e)
  BY <1>0, PathsStand
<1>3. d \in InPath /\ (d = Root \/ kind[d] = "dir")
  BY <1>0 DEF WalkedExactly
<1>4. Listable(d) => kind[d] = "dir"
  BY <1>3, RootIsPlain DEF Listable, IsDir
<1>5. ASSUME NEW c \in entries
      PROVE  c \in Dirs /\ c \in InPath /\ Spot(c) = c /\ Above[c] = {d} \cup Above[d]
  <2>1. c \in Dirs /\ c \in Below[d] /\ Above[c] = {d} \cup Above[d] /\ kind[d] = "dir"
    BY <1>4, <1>5, BelowIsDown DEF Children
  <2>2. c \in InPath
    BY <1>3, <2>1, BelowIsDown, WithinGoesDown, RootIsPlain DEF InPath
  <2>3. \A a \in Above[c] : kind[a] # "link"
    BY <2>1 DEF TreeOK, WellFormed
  <2> QED BY <2>1, <2>2, <2>3, SpotLeads
<1>6. \A e \in unread' : e \in InPath /\ (e = Root \/ kind[e] = "dir")
  BY <1>0, <1>5 DEF WalkedExactly, Found
<1>7. \A e \in met' : e \in InPath \cap DotDitto /\ (e = Root \/ kind[e] # "none")
  BY <1>0, <1>5 DEF WalkedExactly
<1>8. ASSUME NEW e \in Dirs, ToMeet(e)
      PROVE  Resolve(e) \in whole \/ e \in met' \/ \E a \in Above[e] : a \in unread'
  <2>1. Resolve(e) \in whole \/ e \in met \/ \E a \in Above[e] : a \in unread
    BY <1>8 DEF WalkedExactly
  <2>2. CASE d \in Above[e]
    <3>1. PICK c \in Children[d] : e \in Within[c]
      BY <2>2, TreeAssumption DEF TreeAssumption
    <3>2. \A a \in Above[e] : kind[a] = "dir" /\ a \notin closed
      BY <1>8 DEF ToMeet, TreeOK, WellFormed, Hidden
    <3>3. Listable(d)
      <4>1. kind[d] = "dir" /\ d \notin closed /\ Above[d] \cap closed = {}
        BY <2>2, <3>2, AboveIsOrder
      <4> QED BY <4>1, SpotLeads DEF Listable, Hidden
    <3>4. c \in entries /\ (c = e \/ c \in Above[e])
      BY <3>1, <3>3, BelowIsDown DEF Children
    <3>5. kind[c] # "none" /\ Spot(c) = c
      BY <1>5, <1>8, <3>2, <3>4 DEF ToMeet
    <3>6. CASE c = e
      BY <1>0, <1>8, <3>4, <3>5, <3>6 DEF ToMeet
    <3>7. CASE c \in Above[e]
      <4>1. c \in Found(d)
        BY <3>1, <3>2, <3>5, <3>7 DEF Found
      <4> QED BY <1>0, <3>4, <3>7, <4>1
    <3> QED BY <3>4, <3>6, <3>7
  <2>3. CASE d \notin Above[e]
    BY <1>0, <2>1, <2>3
  <2> QED BY <2>2, <2>3
<1> HIDE DEF entries
<1>9. known' = lock'
  BY <1>0, <1>1 DEF WalkedExactly
<1>10. whole' \subseteq Walked'
  BY <1>0, <1>1 DEF WalkedExactly
<1>11. \A e \in Dirs : ToMeet(e)' =>
          (Resolve(e) \in whole \/ e \in met \/ \E a \in Above[e] : a \in unread)'
  BY <1>0, <1>1, <1>2, <1>8
<1> QED BY <1>1, <1>6, <1>7, <1>9, <1>10, <1>11 DEF WalkedExactly

LEMMA CheckExactly ==
    ASSUME TreeOK, WalkedExactly, NEW d \in Dirs, Check(d)
    PROVE  WalkedExactly'
<1>0. /\ d \in met /\ unread = {} /\ met' = met \ {d} /\ UNCHANGED <<disk, known, unread>>
      /\ whole' = IF Hidden(d) \/ ~IsDir(d) THEN whole ELSE whole \cup {Resolve(d)}
  BY DEF Check
<1>1. UNCHANGED <<kind, lock>> /\ Walked' = Walked /\ \A e : ToMeet(e)' <=> ToMeet(e)
  BY <1>0, PathsStand, WalkedStands
<1>2. \A e : Resolve(e)' = Resolve(e)
  BY <1>0, PathsStand
<1>3. ~Hidden(d) /\ IsDir(d) => Resolve(d) \in Walked
  <2> HAVE ~Hidden(d) /\ IsDir(d)
  <2>1. d \in InPath \cap DotDitto /\ kind[d] # "none"
    BY <1>0, RootIsPlain DEF WalkedExactly, IsDir
  <2> QED BY <2>1 DEF Walked
<1>4. whole' \subseteq Walked'
  BY <1>0, <1>1, <1>3 DEF WalkedExactly
<1>5. \A e \in Dirs : ToMeet(e)' =>
          (Resolve(e) \in whole \/ e \in met \/ \E a \in Above[e] : a \in unread)'
  BY <1>0, <1>1, <1>2 DEF WalkedExactly, ToMeet
<1> QED BY <1>0, <1>1, <1>4, <1>5 DEF WalkedExactly

\* The walk has met all there is; no target is dealt with yet.
LEMMA TakeExactly ==
    ASSUME TreeOK, WalkedExactly, some = [d \in Dirs |-> {}], TakeTargets
    PROVE  SelectedExactly'
<1>0. /\ step' = "targets" /\ unread = {} /\ met = {} /\ UNCHANGED <<disk, known, whole, some>>
      /\ unread' = {t \in FileTargets : \E e \in known : TargetOf[e] = t}
  BY DEF TakeTargets
<1>1. UNCHANGED <<kind, lock>> /\ Walked' = Walked
  BY <1>0, PathsStand, WalkedStands
<1>2. \A t, d : ~Leads(t, d)'
  BY <1>0 DEF Leads
<1>3. whole = Walked
  <2>1. ASSUME NEW d \in Walked
        PROVE  d \in whole
    <3>1. PICK e \in InPath \cap DotDitto : ToMeet(e) /\ d = Resolve(e)
      BY <2>1 DEF Walked, ToMeet
    <3>2. e \in Dirs
      BY <3>1, TreeAssumption DEF TreeAssumption
    <3> QED BY <1>0, <3>1, <3>2 DEF WalkedExactly
  <2> QED BY <2>1 DEF WalkedExactly
<1>4. known' = lock'
  BY <1>0, <1>1 DEF WalkedExactly
<1> QED BY <1>0, <1>1, <1>2, <1>3, <1>4 DEF SelectedExactly

\* A target is dealt with.
LEMMA SelectExactly ==
    ASSUME TreeOK, InventoryTypeOK, SelectedExactly, NEW t \in FileTargets, SelectTarget(t)
    PROVE  SelectedExactly'
<1> DEFINE d == Resolve(DirOf[t])
           there == IsDir(DirOf[t]) /\ ~Hidden(DirOf[t])
<1>1. /\ d \in Dirs /\ step = "targets" /\ t \in unread /\ unread' = unread \ {t}
      /\ UNCHANGED <<disk, step, known>>
      /\ some \in [Dirs -> SUBSET Names] /\ OwnKeys(t) \subseteq Names
      /\ \E e \in known : TargetOf[e] = t
  BY Shapes, TreeAssumption
     DEF SelectTarget, SelectedExactly, InventoryTypeOK, OwnKeys, TreeAssumption
<1>2. /\ Walked' = Walked /\ UNCHANGED <<kind, lock>>
      /\ \A s : OwnKeys(s)' = OwnKeys(s)
  BY <1>1, PathsStand, WalkedStands, KeysStand
<1>h. \A c : Resolve(c)' = Resolve(c) /\ (Hidden(c) <=> Hidden(c)')
  BY <1>1, PathsStand
<1>3. \A s \in FileTargets, c \in Dirs :
         Leads(s, c)' <=> Leads(s, c) \/ (s = t /\ c = d /\ ~Hidden(DirOf[t]))
  BY <1>1, <1>h DEF Leads
<1>4. /\ whole' = IF there /\ d \in InPath THEN whole \cup {d} ELSE whole
      /\ some' = IF there /\ d \notin whole'
                 THEN [some EXCEPT ![d] = @ \cup OwnKeys(t)] ELSE some
  BY DEF SelectTarget
<1>t. there <=> kind[d] = "dir" /\ ~Hidden(DirOf[t])
  BY DEF IsDir
<1>5. (\A s \in unread : s \in FileTargets /\ \E e \in known : TargetOf[e] = s)'
  BY <1>1 DEF SelectedExactly
<1> HIDE DEF d, there
<1>6. ASSUME NEW c \in Dirs
      PROVE  c \in whole' <=> \/ c \in Walked
                              \/ /\ c \in InPath /\ kind[c] = "dir"
                                 /\ \E s \in FileTargets : Leads(s, c)'
  BY <1>3, <1>4, <1>t DEF SelectedExactly
<1>7. ASSUME NEW c \in Dirs, NEW n \in Names
      PROVE  n \in some'[c] <=> /\ kind[c] = "dir" /\ c \notin InPath /\ c \notin Walked
                                /\ \E s \in FileTargets : Leads(s, c)' /\ n \in OwnKeys(s)
  <2>1. n \in some[c] <=> /\ kind[c] = "dir" /\ c \notin InPath /\ c \notin Walked
                          /\ \E s \in FileTargets : Leads(s, c) /\ n \in OwnKeys(s)
    BY DEF SelectedExactly
  <2>2. CASE c # d \/ Hidden(DirOf[t])
    <3>1. some'[c] = some[c]
      BY <1>1, <1>4, <1>t, <2>2
    <3>2. \A s \in FileTargets : Leads(s, c)' <=> Leads(s, c)
      BY <1>3, <2>2
    <3> QED BY <2>1, <3>1, <3>2
  <2>3. CASE c = d /\ ~Hidden(DirOf[t])
    <3>1. kind[c] = "dir" => (c \notin whole' <=> c \notin InPath /\ c \notin Walked)
      BY <1>1, <1>3, <1>6, <2>3
    <3>2. (\E s \in FileTargets : Leads(s, c)' /\ n \in OwnKeys(s)) <=>
             n \in OwnKeys(t) \/ \E s \in FileTargets : Leads(s, c) /\ n \in OwnKeys(s)
      BY <1>3, <2>3
    <3>3. CASE kind[c] = "dir" /\ c \notin whole'
      <4>1. some'[c] = some[c] \cup OwnKeys(t)
        BY <1>1, <1>4, <1>t, <2>3, <3>3
      <4> QED BY <2>1, <3>1, <3>2, <3>3, <4>1
    <3>4. CASE ~(kind[c] = "dir" /\ c \notin whole')
      <4>1. some' = some
        BY <1>4, <1>t, <2>3, <3>4
      <4> QED BY <2>1, <3>1, <3>4, <4>1
    <3> QED BY <3>3, <3>4
  <2> QED BY <2>2, <2>3
<1>8. known' = lock'
  BY <1>1, <1>2 DEF SelectedExactly
<1> QED BY <1>1, <1>2, <1>5, <1>6, <1>7, <1>8 DEF SelectedExactly

LEMMA ExactStep ==
    ASSUME Inv, ShowInv, ExactInv, InventoryStart \/ InventoryStep
    PROVE  ExactInv'
<1>0. /\ TreeOK /\ InventoryTypeOK /\ UNCHANGED disk
      /\ Visible' = Visible /\ Visible \subseteq Places \X Names
      /\ Stores \cap Dirs = {} /\ Nowhere \notin Places
  BY InventoryTyped, PathsStand, Shapes, TreeAssumption, InventoryAssumption
     DEF Inv, Typed, TreeAssumption, InventoryAssumption
<1>f. \A f \in Visible : f = <<f[1], f[2]>> /\ f[1] \in Places /\ f[2] \in Names /\ f[1] # Nowhere
  BY <1>0
<1>1. CASE Fails
  BY <1>1, ExactEnds DEF Fails
<1>2. CASE BeginFails \/ LookRaises \/ DirRaises
  BY <1>1, <1>2 DEF BeginFails, LookRaises, DirRaises, ReadRaises
<1>3. CASE Report
  <2>1. ASSUME NEW ts \in Selections, List(ts)
        PROVE  ExactInv'
    BY <2>1, ExactEnds DEF List
  <2>2. CASE Status \/ Stats \/ Lint
    BY <2>2, ExactEnds DEF Status, Stats, Lint
  <2> QED BY <1>1, <1>3, <2>1, <2>2 DEF Report
<1>4. CASE Begin
  <2>1. /\ step = "idle" /\ step' = "walk" /\ known' = lock /\ met' = {Root} \cap DotDitto
        /\ unread' = {Root} /\ UNCHANGED <<whole, some>>
    BY <1>4 DEF Begin
  <2>2. whole = {} /\ some = [d \in Dirs |-> {}]
    BY <2>1 DEF ExactInv
  <2>3. WalkedExactly'
    <3>1. UNCHANGED <<kind, lock>> /\ \A e : ToMeet(e)' <=> ToMeet(e)
      BY <1>0, PathsStand, WalkedStands
    <3>2. ASSUME NEW e \in Dirs, ToMeet(e)'
          PROVE  e \in met' \/ \E a \in Above[e] : a \in unread'
      <4>1. e \in InPath /\ e \in DotDitto
        BY <3>1, <3>2 DEF ToMeet
      <4>2. e = Root \/ Root \in Above[e]
        BY <4>1, RootIsPlain, BelowIsDown, <1>0 DEF InPath
      <4> QED BY <2>1, <4>1, <4>2
    <3> QED BY <1>0, <2>1, <2>2, <3>1, <3>2, RootIsPlain DEF WalkedExactly
  <2> QED BY <2>1, <2>2, <2>3 DEF ExactInv
<1>5. CASE BeginLive
  <2>1. /\ step = "idle" /\ step' = "live" /\ live' = TRUE /\ unread' = Live
        /\ UNCHANGED <<at, shown, closed, files>>
    BY <1>0, <1>5 DEF BeginLive, disk
  <2>2. shown = {} /\ at = Nowhere
    BY <2>1 DEF ShowInv
  <2>3. ShownExactly'
    BY <2>1, <2>2 DEF ShownExactly, InView, Due
  <2> QED BY <2>1, <2>2, <2>3 DEF ExactInv
<1>6. ASSUME NEW d \in Dirs, Walk(d) \/ Check(d)
      PROVE  ExactInv'
  <2>1. step = "walk" /\ UNCHANGED <<step, live, some, at, calm>>
    BY <1>6 DEF Walk, Check, history
  <2>2. calm => WalkedExactly'
    BY <1>0, <1>6, <2>1, WalkExactly, CheckExactly DEF ExactInv
  <2> QED BY <2>1, <2>2 DEF ExactInv
<1>7. CASE TakeTargets
  <2>1. step = "walk" /\ step' = "targets" /\ UNCHANGED <<live, some, at, calm>>
    BY <1>7 DEF TakeTargets, history
  <2>2. calm => SelectedExactly'
    BY <1>0, <1>7, <2>1, TakeExactly DEF ExactInv
  <2> QED BY <2>1, <2>2 DEF ExactInv
<1>8. ASSUME NEW t \in FileTargets, SelectTarget(t)
      PROVE  ExactInv'
  <2>1. UNCHANGED <<step, live, at, calm>> /\ step = "targets" /\ ~live
    BY <1>8 DEF SelectTarget, ShowInv, history
  <2>2. calm => SelectedExactly'
    BY <1>0, <1>8, <2>1, SelectExactly DEF ExactInv
  <2> QED BY <2>1, <2>2 DEF ExactInv
<1>9. CASE StartReading
  <2>1. /\ step = "targets" /\ step' = "read" /\ unread = {} /\ ~live
        /\ unread' = Wanted /\ shown = {}
        /\ UNCHANGED <<live, known, whole, some, at, shown, calm>>
    BY <1>9 DEF StartReading, ShowInv, history
  <2>2. calm => SelectedExactly'
    BY <1>0, <2>1, SelectionStands DEF ExactInv
  <2>3. ASSUME calm, NEW f \in Visible, InView(f)
        PROVE  f[1] \in unread'
    <3>1. f[1] \in Dirs /\ InScope(f[1], f[2])
      BY <1>0, <2>1, <2>3, InScopeIsInView DEF ExactInv
    <3> QED BY <2>1, <3>1 DEF InScope, Wanted
  <2>4. calm => ShownExactly'
    <3>1. \A f : InView(f)' <=> InView(f)
      BY <1>0, <2>1, ViewStands
    <3> QED BY <1>0, <2>1, <2>3, <3>1 DEF ShownExactly, Due
  <2> QED BY <2>1, <2>2, <2>4 DEF ExactInv
<1>10. ASSUME NEW d \in Dirs, ListDir(d)
      PROVE  ExactInv'
  <2>1. /\ step = "read" /\ at = Nowhere /\ unread' = unread \ {d} /\ at' = d
        /\ listing' = {n \in Names : <<Resolve(d), n>> \in files} /\ ~live
        /\ UNCHANGED <<step, live, known, whole, some, shown, partial, calm>>
    BY <1>10 DEF ListDir, ShowInv, history
  <2>2. calm => SelectedExactly'
    BY <1>0, <2>1, SelectionStands DEF ExactInv
  <2>3. ASSUME calm, NEW f \in Visible, InView(f), Due(f)
        PROVE  Due(f)'
    <3>1. CASE f[1] = d
      <4>1. <<d, f[2]>> \in files /\ Resolve(d) = d /\ f[2] \in Names
        BY <1>0, <1>f, <2>1, <2>3, <3>1, InScopeIsInView DEF ExactInv
      <4> QED BY <2>1, <3>1, <4>1 DEF Due
    <3>2. CASE f[1] # d
      BY <1>f, <2>1, <2>3, <3>2 DEF Due
    <3> QED BY <3>1, <3>2
  <2>4. calm => partial' \/ ShownExactly'
    BY <1>0, <2>1, <2>3, ShownStands DEF ExactInv
  <2> QED BY <2>1, <2>2, <2>4 DEF ExactInv
<1>11. ASSUME NEW n \in Names, StatFile(n)
      PROVE  ExactInv'
  <2>1. /\ step = "read" /\ at # Nowhere /\ n \in listing /\ listing' = listing \ {n} /\ ~live
        /\ shown' = IF <<Resolve(at), n>> \in files /\ InScope(at, n)
                    THEN shown \cup {<<at, n>>} ELSE shown
        /\ UNCHANGED <<step, live, known, whole, some, unread, at, partial, calm>>
    BY <1>11 DEF StatFile, ShowInv, history
  <2>2. at \in Dirs
    BY <2>1 DEF ShowInv
  <2>3. calm => SelectedExactly'
    BY <1>0, <2>1, SelectionStands DEF ExactInv
  <2>4. /\ <<at, n>> \in Places \X Names
        /\ <<at, n>>[1] = at /\ <<at, n>>[2] = n
    BY <2>2 DEF Places
  <2>5. calm /\ InScope(at, n) => Resolve(at) = at
    BY <1>0, <2>1, <2>2, <2>4, InScopeIsInView DEF ExactInv
  <2>6. calm => (<<at, n>> \in Visible /\ InView(<<at, n>>)
                    <=> <<at, n>> \in files /\ InScope(at, n))
    BY <1>0, <2>1, <2>2, <2>4, InScopeIsInView DEF ExactInv
  <2>7. ASSUME calm, NEW f \in Visible, InView(f), Due(f)
        PROVE  Due(f)'
    <3>1. CASE f = <<at, n>>
      <4>1. f \in shown'
        BY <2>1, <2>5, <2>6, <2>7, <3>1
      <4> QED BY <4>1 DEF Due
    <3>2. CASE f # <<at, n>>
      <4>1. ~(f[1] = at /\ f[2] = n)
        BY <1>f, <3>2
      <4>2. shown \subseteq shown'
        BY <2>1
      <4> QED BY <2>1, <2>7, <4>1, <4>2 DEF Due
    <3> QED BY <3>1, <3>2
  <2>8. ASSUME calm, ShownExactly, NEW f \in shown'
        PROVE  f \in Visible /\ InView(f)
    <3>1. CASE f \in shown
      BY <2>8, <3>1 DEF ShownExactly
    <3>2. CASE f \notin shown
      <4>1. f = <<at, n>> /\ <<Resolve(at), n>> \in files /\ InScope(at, n)
        BY <2>1, <2>8, <3>2
      <4> QED BY <2>5, <2>6, <2>8, <4>1
    <3> QED BY <3>1, <3>2
  <2>9. ASSUME calm, ShownExactly
        PROVE  ShownExactly'
    <3>1. \A f : InView(f)' <=> InView(f)
      BY <1>0, <2>1, ViewStands
    <3> QED BY <1>0, <2>7, <2>8, <2>9, <3>1 DEF ShownExactly
  <2>10. calm => partial' \/ ShownExactly'
    BY <2>1, <2>9 DEF ExactInv
  <2> QED BY <2>1, <2>3, <2>10 DEF ExactInv
<1>12. CASE LeaveDir \/ LeaveStore
  <2>1. /\ step \in {"read", "live"} /\ at' = Nowhere /\ listing = {}
        /\ UNCHANGED <<step, live, known, whole, some, unread, listing, shown, partial, calm>>
    BY <1>12 DEF LeaveDir, LeaveStore, history
  <2>2. calm /\ ~live => SelectedExactly'
    BY <1>0, <2>1, SelectionStands DEF ExactInv, ShowInv
  <2>3. calm => partial' \/ ShownExactly'
    BY <1>0, <2>1, ShownStands DEF ExactInv, Due
  <2> QED BY <2>1, <2>2, <2>3 DEF ExactInv
<1>13. CASE EndReading
  <2>1. /\ step \in {"read", "live"} /\ step' = "identify"
        /\ UNCHANGED <<live, known, whole, some, unread, at, listing, shown, partial, calm>>
    BY <1>13 DEF EndReading, history
  <2>2. calm /\ ~live => SelectedExactly'
    BY <1>0, <2>1, SelectionStands DEF ExactInv, ShowInv
  <2>3. calm => partial' \/ ShownExactly'
    BY <1>0, <2>1, ShownStands DEF ExactInv, Due
  <2> QED BY <2>1, <2>2, <2>3 DEF ExactInv
<1>14. ASSUME NEW p \in Places, Enumerate(p)
       PROVE  ExactInv'
  <2>1. /\ step = "live" /\ live /\ p \in unread /\ p \in Live /\ p \in Dirs \cup Buckets
        /\ unread' = unread \ {p}
        /\ shown' = IF IF p \in Dirs THEN Listable(p) ELSE p \notin closed
                    THEN shown \cup {f \in Visible : f[1] = p} ELSE shown
        /\ UNCHANGED <<step, live, known, at, listing, partial, calm>>
    BY <1>14 DEF Enumerate, ShowInv, ExactInv, history
  <2>2. \A f \in Visible : f[1] = p =>
           (InView(f) <=> IF p \in Dirs THEN Listable(p) ELSE p \notin closed)
    BY <1>0, <2>1, TreeAssumption DEF InView, TreeAssumption
  <2>3. \A f \in Visible : InView(f) /\ Due(f) => Due(f)'
    BY <2>1, <2>2 DEF Due
  <2>4. ASSUME ShownExactly
        PROVE  ShownExactly'
    <3>1. \A f : InView(f)' <=> InView(f)
      BY <1>0, <2>1, ViewStands
    <3>2. \A f \in shown' : f \in Visible /\ InView(f)
      BY <2>1, <2>2, <2>4 DEF ShownExactly
    <3> QED BY <1>0, <2>3, <2>4, <3>1, <3>2 DEF ShownExactly
  <2>5. calm => partial' \/ ShownExactly'
    BY <2>1, <2>4 DEF ExactInv
  <2> QED BY <2>1, <2>5 DEF ExactInv
<1>15. ASSUME NEW s \in Stores, ListKeys(s)
       PROVE  ExactInv'
  <2>1. /\ step = "live" /\ live /\ at = Nowhere /\ s \in unread /\ s \in Live
        /\ unread' = unread \ {s} /\ at' = s
        /\ listing' = {n \in Names : <<s, n>> \in files}
        /\ UNCHANGED <<step, live, known, shown, partial, calm>>
    BY <1>15 DEF ListKeys, ShowInv, ExactInv, history
  <2>2. \A f \in Visible : f[1] = s => f[2] \in listing'
    BY <1>0, <1>f, <2>1 DEF Visible, Located
  <2>3. \A f \in Visible : Due(f) => Due(f)'
    BY <1>f, <2>1, <2>2 DEF Due
  <2>4. calm => partial' \/ ShownExactly'
    BY <1>0, <2>1, <2>3, ShownStands DEF ExactInv
  <2> QED BY <2>1, <2>4 DEF ExactInv
<1>16. ASSUME NEW n \in Names, ReadKey(n)
       PROVE  ExactInv'
  <2>1. /\ step = "live" /\ live /\ at \in Live /\ at \in Stores \ Buckets /\ n \in listing
        /\ <<at, n>> \in files /\ listing' = listing \ {n}
        /\ shown' = shown \cup {<<at, n>>}
        /\ UNCHANGED <<step, live, known, unread, at, partial, calm>>
    BY <1>16 DEF ReadKey, ShowInv, ExactInv, history
  <2>2. <<at, n>> \in Visible /\ InView(<<at, n>>)
    BY <1>0, <2>1 DEF InView, Visible, Located, Places
  <2>3. \A f \in Visible : Due(f) => Due(f)'
    BY <1>f, <2>1 DEF Due
  <2>4. ASSUME ShownExactly
        PROVE  ShownExactly'
    <3>1. \A f : InView(f)' <=> InView(f)
      BY <1>0, <2>1, ViewStands
    <3>2. \A f \in shown' : f \in Visible /\ InView(f)
      BY <2>1, <2>2, <2>4 DEF ShownExactly
    <3> QED BY <1>0, <2>3, <2>4, <3>1, <3>2 DEF ShownExactly
  <2>5. calm => partial' \/ ShownExactly'
    BY <2>1, <2>4 DEF ExactInv
  <2> QED BY <2>1, <2>5 DEF ExactInv
<1>17. ASSUME NEW s \in Stores, BackendRaises(s)
       PROVE  ExactInv'
  <2>1. /\ step = "live" /\ live /\ unread' \subseteq unread /\ at' = Nowhere /\ partial'
        /\ UNCHANGED <<step, live>>
    BY <1>17 DEF BackendRaises, ShowInv
  <2> QED BY <2>1 DEF ExactInv
<1> QED BY <1>2, <1>3, <1>4, <1>5, <1>6, <1>7, <1>8, <1>9, <1>10, <1>11, <1>12, <1>13, <1>14,
           <1>15, <1>16, <1>17 DEF InventoryStart, InventoryStep

LEMMA ExactNext ==
    ASSUME Inv, ShowInv, ExactInv, [Next]_vars
    PROVE  ExactInv'
<1>1. CASE Change \/ ((CleanRuns \/ Answers) /\ Watch)
  <2>1. UNCHANGED inventory /\ Watch
    BY <1>1 DEF Change, CleanRuns, Answers
  <2>2. step \notin {"idle", "done"} => calm' = (calm /\ disk' = disk)
    BY <2>1 DEF Watch
  <2>3. calm' /\ step \notin {"idle", "done"} => calm /\ UNCHANGED disk
    BY <2>2
  <2> QED BY <2>1, <2>3, ExactStays
<1>2. CASE Protect \/ UNCHANGED vars
  <2>1. UNCHANGED inventory /\ UNCHANGED <<disk, history>>
    BY <1>2 DEF Protect, vars
  <2> QED BY <2>1, ExactStays DEF history
<1>3. CASE Starts \/ InventoryRuns
  BY <1>3, ExactStep DEF Starts, InventoryRuns
<1> QED BY <1>1, <1>2, <1>3 DEF Next

\* A report of what did not change is of exactly what is in view, and what is not
\* in a directory shown whole was looked for because the lock records it.
LEMMA ReportIsExact ==
    ASSUME Inv, ShowInv, ExactInv, Report
    PROVE  FoundExactly
<1> SUFFICES ASSUME Ended, calm
             PROVE  /\ shown = {f \in Visible : InView(f)}
                    /\ live \/ \A f \in shown \cap leftOut' : f[1] \in whole
  BY DEF FoundExactly
<1>0. step = "identify" /\ unread = {} /\ at = Nowhere /\ TreeOK /\ InventoryTypeOK
  BY DEF Report, ShowInv, Inv, Typed
<1>p. ~partial
  BY DEF Ended, Report, List, Status, Stats, Lint, Fails, Ends, Ending
<1>e. ShownExactly
  BY <1>0, <1>p DEF ExactInv
<1>1. shown = {f \in Visible : InView(f)}
  <2>1. \A f \in Visible : f[1] # Nowhere
    BY InventoryAssumption DEF Visible, InventoryAssumption
  <2> QED BY <1>0, <1>e, <2>1 DEF ShownExactly, Due
<1>2. ASSUME ~live, NEW f \in shown \cap leftOut'
      PROVE  f[1] \in whole
  <2>1. SelectedExactly /\ f \in Visible /\ InView(f)
    BY <1>0, <1>1, <1>2 DEF ExactInv
  <2>2. f \in Places \X Names
    BY <2>1 DEF Visible
  <2>3. f[1] \in Dirs /\ InScope(f[1], f[2]) /\ Resolve(f[1]) = f[1]
    BY <1>0, <1>2, <2>1, <2>2, InScopeIsInView
  <2>4. f[2] \in some[f[1]] => f \in Recorded
    <3> HAVE f[2] \in some[f[1]]
    <3>1. PICK t \in FileTargets : Leads(t, f[1]) /\ f[2] \in OwnKeys(t)
      BY <2>1, <2>2, <2>3 DEF SelectedExactly
    <3>2. PICK e \in lock : TargetOf[e] = t /\ KeyOf[e] = f[2]
      BY <2>1, <3>1 DEF OwnKeys, SelectedExactly
    <3>3. Resolve(DirOf[TargetOf[e]]) = f[1] /\ TargetOf[e] \in FileTargets
      BY <3>1, <3>2 DEF Leads
    <3>4. <<f[1], f[2]>> \in PairsOf(lock)
      BY <3>2, <3>3 DEF PairsOf
    <3>5. f \in Manifest /\ Located(f[1]) = f[1]
      BY <1>2, <2>3 DEF Manifest, Located
    <3> QED BY <3>4, <3>5 DEF Recorded
  <2>5. f \notin Recorded
    BY <1>2 DEF Report, List, Status, Stats, Lint, Fails, Ends
  <2> QED BY <2>3, <2>4, <2>5 DEF InScope
<1> QED BY <1>1, <1>2

\* Whatever goes on while it reads, an inventory command that exits 0 hides nothing
\* it can reach; and when nothing it reads changes, it shows exactly what it can
\* reach: what the directories it can walk below PATH hold, through links too, and
\* what its tests have stored elsewhere.
THEOREM ReachableIsShownHolds == Spec => ReachableIsShown
<1>1. Init => ShowInv /\ ExactInv
  BY ShowInit, ExactInit
<1>2. Inv /\ ShowInv /\ ExactInv /\ [Next]_vars => (ShowInv /\ ExactInv)'
  BY ShowNext, ExactNext
<1>3. Inv /\ ShowInv /\ ExactInv /\ [Next]_vars => [NothingIsHidden /\ FoundExactly]_vars
  <2> SUFFICES ASSUME Inv, ShowInv, ExactInv, Next, Ended
               PROVE  NothingIsHidden /\ FoundExactly
    BY DEF NothingIsHidden, FoundExactly
  <2>1. Report
    BY OnlyReportEnds
  <2> QED BY <2>1, ReportHidesNothing, ReportIsExact
<1>4. ReachableIsShown <=> [][NothingIsHidden /\ FoundExactly]_vars
  BY DEF ReachableIsShown
<1> QED BY <1>1, <1>2, <1>3, <1>4, Invariant, PTL DEF Spec

============================================================================
