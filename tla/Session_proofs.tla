--------------------------- MODULE Session_proofs ---------------------------
(***************************************************************************)
(* Theorems about Session, for every suite, set of backends, command line  *)
(* and number of sessions.  The invariants below follow a session through  *)
(* its phases; each is preserved by every step given the ones before it,   *)
(* and together they imply the properties the runs check.  The last part   *)
(* is about SessionPreview, whose steps are Session's.                     *)
(***************************************************************************)
EXTENDS SessionPreview, TLAPS

----------------------------------------------------------------------------
(* Types.                                                                  *)

LEMMA InitType == Init => TypeOK
BY SessionAssumption DEF Init, TypeOK, NoOptions, NoPlacement, NoCollection, Seen,
   Orphans, RunOptions

LEMMA ForgetType == ASSUME TypeOK, ForgetSession PROVE TypeOK'
BY SessionAssumption DEF ForgetSession, TypeOK, NoOptions, NoPlacement, NoCollection,
   Seen, Orphans, disk

\* What a call of snapshot() may do to the tracker keeps its type.
LEMMA CallType ==
    ASSUME TypeOK, NEW e \in Entries, Calls(e),
           \/ RecordLockSeen(e)
           \/ UNCHANGED <<accessed, created>>,
           store' \in [Stores -> SUBSET Keys]
    PROVE  TypeOK'
BY SessionAssumption DEF TypeOK, Calls, RecordLockSeen, Seat, Backend, Seen, Orphans, setup

LEMMA RunType == ASSUME TypeOK, RunStep PROVE TypeOK'
<1>1. ASSUME NEW t \in Tests, StartTest(t) PROVE TypeOK'
  BY <1>1, SessionAssumption DEF StartTest, TypeOK, disk, setup
<1>2. ASSUME NEW t \in Tests, NEW pass \in BOOLEAN, NEW err \in BOOLEAN,
             RunWithoutSnapshot(t, pass, err)
      PROVE  TypeOK'
  BY <1>2 DEF RunWithoutSnapshot, Report, TypeOK, disk, tracker
<1>3. ASSUME NEW pass \in BOOLEAN, NEW err \in BOOLEAN, EndTest(pass, err)
      PROVE  TypeOK'
  BY <1>3 DEF EndTest, Report, TypeOK, disk, tracker
<1>4. ASSUME NEW e \in Entries, LoadSnapshot(e) \/ MissSnapshot(e) \/ CallRaises(e)
      PROVE  TypeOK'
  BY <1>4, CallType DEF LoadSnapshot, MissSnapshot, CallRaises, TypeOK
<1>5. ASSUME NEW e \in Entries, SaveSnapshot(e) \/ WriteRaises(e) PROVE TypeOK'
  <2>1. store' \in [Stores -> SUBSET Keys]
    BY <1>5, SessionAssumption DEF SaveSnapshot, WriteRaises, TypeOK
  <2> QED
    BY <1>5, <2>1, CallType DEF SaveSnapshot, WriteRaises
<1>6. ASSUME NEW s0 \in BOOLEAN, Abort(s0) PROVE TypeOK'
  BY <1>6 DEF Abort, TypeOK, disk, setup, tracker
<1>7. CASE FinishRun
  BY <1>7 DEF FinishRun, TypeOK, disk, setup, tracker
<1> QED
  BY <1>1, <1>2, <1>3, <1>4, <1>5, <1>6, <1>7 DEF RunStep

LEMMA FinishType == ASSUME TypeOK, FinishStep PROVE TypeOK'
<1>1. ASSUME NEW u \in SUBSET Targets, Verify(u) PROVE TypeOK'
  BY <1>1 DEF Verify, TypeOK, disk, setup, tracker
<1>2. CASE KeepLock \/ RefuseLock \/ LockRaises
  BY <1>2 DEF KeepLock, RefuseLock, LockRaises, AfterLock, TypeOK, disk, setup, tracker
<1>3. CASE AppendLock
  BY <1>3 DEF AppendLock, AfterLock, MergeAppend, TypeOK, Seen, setup, tracker
<1>4. CASE RebuildLock
  BY <1>4 DEF RebuildLock, AfterLock, RebuiltLock, TypeOK, Seen, setup, tracker
<1>5. ASSUME NEW u \in SUBSET Targets, PruneDelete(u) \/ PruneDryRun(u) PROVE TypeOK'
  BY <1>5 DEF PruneDelete, PruneDryRun, Prunable, FoundOrphans, Registered, TypeOK,
     Orphans, disk, setup, tracker
<1>6. ASSUME NEW o \in pending, DeleteOrphan(o) PROVE TypeOK'
  BY <1>6 DEF DeleteOrphan, TypeOK, Orphans, setup, tracker
<1>7. ASSUME NEW o \in pending, DeleteRaises(o) PROVE TypeOK'
  BY <1>7 DEF DeleteRaises, TypeOK, Orphans, disk, setup, tracker
<1>8. CASE ReadRaises \/ EndPrune
  BY <1>8 DEF ReadRaises, EndPrune, TypeOK, disk, setup, tracker
<1>9. CASE Close
  BY <1>9, ForgetType DEF Close
<1> QED
  BY <1>1, <1>2, <1>3, <1>4, <1>5, <1>6, <1>7, <1>8, <1>9 DEF FinishStep

LEMMA EnvironmentType == ASSUME TypeOK, Environment PROVE TypeOK'
<1>1. ASSUME NEW o \in Options, NEW tests \in SUBSET Tests, NEW place \in Placements,
             NEW ignored \in SUBSET Nodes, NEW broken \in SUBSET Nodes,
             NEW sel \in SUBSET Tests,
             Configure(o, tests, place, ignored, broken, sel)
      PROVE  TypeOK'
  BY <1>1, SessionAssumption DEF Configure, TypeOK, disk, tracker
<1>2. CASE Kill
  BY <1>2, ForgetType DEF Kill
<1>3. CASE CorruptLock
  BY <1>3 DEF CorruptLock, TypeOK, Seen, setup, tracker
<1>4. ASSUME NEW s \in Stores, NEW k \in Keys, LoseSnapshot(s, k) PROVE TypeOK'
  BY <1>4 DEF LoseSnapshot, TypeOK, setup, tracker
<1>5. ASSUME NEW s \in Stores, NEW k \in Keys, ForeignWrite(s, k) PROVE TypeOK'
  BY <1>5 DEF ForeignWrite, TypeOK, setup, tracker
<1> QED
  BY <1>1, <1>2, <1>3, <1>4, <1>5 DEF Environment

LEMMA NextType == ASSUME TypeOK, [Next]_vars PROVE TypeOK'
<1>1. CASE UNCHANGED vars
  BY <1>1 DEF vars, TypeOK, disk, setup, tracker
<1> QED
  BY <1>1, RunType, FinishType, EnvironmentType DEF Next, SessionStep

\* Every variable keeps its type, whatever happens within and between sessions.
THEOREM TypeCorrect == Spec => []TypeOK
<1>1. Init => TypeOK
  BY InitType
<1>2. TypeOK /\ [Next]_vars => TypeOK'
  BY NextType
<1> QED
  BY <1>1, <1>2, PTL DEF Spec

----------------------------------------------------------------------------
(* What each part of a session may change.                                 *)

RunEffect ==
    /\ pc = "running" /\ pc' \in {"running", "verify", "lock", "closing"}
    /\ pc' = "verify" => opt.mode = "VERIFY"
    /\ pc' = "lock" => opt.mode # "VERIFY"
    /\ pc' = "closing" => opt.dist
    /\ pc' # "running" => cur' = NoTest
    /\ UNCHANGED <<lockState, lock, opt, suite, placement, pending>>
    /\ collection'.collected = collection.collected
    /\ collection'.uncollected = collection.uncollected
    /\ ok' => ok

LEMMA WhileRunning == ASSUME TypeOK, RunStep PROVE RunEffect
<1>1. ASSUME NEW t \in Tests, StartTest(t) PROVE RunEffect
  BY <1>1 DEF StartTest, RunEffect, disk, setup
<1>2. ASSUME NEW t \in Tests, NEW pass \in BOOLEAN, NEW err \in BOOLEAN,
             RunWithoutSnapshot(t, pass, err)
      PROVE  RunEffect
  BY <1>2 DEF RunWithoutSnapshot, Report, RunEffect, disk
<1>3. ASSUME NEW pass \in BOOLEAN, NEW err \in BOOLEAN, EndTest(pass, err)
      PROVE  RunEffect
  BY <1>3 DEF EndTest, Report, RunEffect, disk
<1>4. ASSUME NEW e \in Entries, Calls(e) PROVE RunEffect
  BY <1>4 DEF Calls, RunEffect, setup
<1>5. ASSUME NEW s0 \in BOOLEAN, Abort(s0) PROVE RunEffect
  BY <1>5 DEF Abort, RunEffect, disk, setup
<1>6. CASE FinishRun
  BY <1>6 DEF FinishRun, RunEffect, disk, setup
<1> QED
  BY <1>1, <1>2, <1>3, <1>4, <1>5, <1>6
     DEF RunStep, LoadSnapshot, MissSnapshot, SaveSnapshot, CallRaises, WriteRaises

FinishEffect ==
    /\ pc \in {"verify", "lock", "prune", "delete"}
    /\ pc' \in {"prune", "delete", "closing"}
    /\ pc = "verify" => pc' = "closing"
    /\ pc' # "delete" => pending' = pending /\ (pc = "delete" => pending = {})
    /\ UNCHANGED <<setup, cur, tracker>>
    /\ ok' => ok

LEMMA AtTheEnd == ASSUME TypeOK, FinishStep PROVE ForgetSession \/ FinishEffect
<1>1. CASE KeepLock \/ RefuseLock \/ AppendLock \/ RebuildLock \/ LockRaises
  BY <1>1 DEF KeepLock, RefuseLock, AppendLock, RebuildLock, LockRaises, AfterLock,
     FinishEffect
<1>2. ASSUME NEW u \in SUBSET Targets, Verify(u) \/ PruneDelete(u) \/ PruneDryRun(u)
      PROVE  FinishEffect
  BY <1>2 DEF Verify, PruneDelete, PruneDryRun, FinishEffect
<1>3. ASSUME NEW o \in pending, DeleteOrphan(o) \/ DeleteRaises(o) PROVE FinishEffect
  BY <1>3 DEF DeleteOrphan, DeleteRaises, FinishEffect
<1>4. CASE ReadRaises \/ EndPrune
  BY <1>4 DEF ReadRaises, EndPrune, FinishEffect
<1>5. CASE Close
  BY <1>5 DEF Close
<1> QED
  BY <1>1, <1>2, <1>3, <1>4, <1>5 DEF FinishStep

StartEffect ==
    /\ pc = "idle" /\ pc' = "running"
    /\ Accepted(opt')
    /\ UNCHANGED <<disk, cur, tracker, pending>>
    /\ ok' /\ opt'.narrow # "args" =>
          \A t \in suite' : \/ t \in collection'.collected
                            \/ LeftOut(t, collection'.uncollected)

BetweenEffect ==
    /\ pc = "idle" /\ pc' = "idle"
    /\ UNCHANGED <<setup, cur, tracker, pending, ok>>
    /\ UNCHANGED <<lockState, lock>> \/ (lockState' = "corrupt" /\ lock' = {})

LEMMA BetweenSessions ==
    ASSUME TypeOK, Environment
    PROVE  ForgetSession \/ StartEffect \/ BetweenEffect
<1>1. ASSUME NEW o \in Options, NEW tests \in SUBSET Tests, NEW place \in Placements,
             NEW ignored \in SUBSET Nodes, NEW broken \in SUBSET Nodes,
             NEW sel \in SUBSET Tests,
             Configure(o, tests, place, ignored, broken, sel)
      PROVE  StartEffect
  BY <1>1 DEF Configure, StartEffect, LeftOut
<1>2. CASE CorruptLock
  BY <1>2 DEF CorruptLock, Between, BetweenEffect
<1>3. ASSUME NEW s \in Stores, NEW k \in Keys, LoseSnapshot(s, k) \/ ForeignWrite(s, k)
      PROVE  BetweenEffect
  BY <1>3 DEF LoseSnapshot, ForeignWrite, Between, BetweenEffect
<1> QED
  BY <1>1, <1>2, <1>3 DEF Environment, Kill

----------------------------------------------------------------------------
(* The phases of a session.                                                *)

Phase ==
    /\ pc # "idle" => Accepted(opt)
    /\ pc = "verify" => opt.mode = "VERIFY"
    /\ pc \in {"lock", "prune", "delete"} => opt.mode # "VERIFY"
    /\ pc # "delete" => pending = {}
    /\ pc # "running" => cur = NoTest
    /\ pc = "idle" => accessed = {} /\ created = {}

LEMMA InitPhase == Init => Phase
BY DEF Init, Phase

LEMMA NextPhase == ASSUME TypeOK, Phase, [Next]_vars PROVE Phase'
<1>1. CASE ForgetSession
  BY <1>1 DEF ForgetSession, Phase
<1>2. CASE RunEffect
  BY <1>2 DEF RunEffect, Phase, Accepted, SingleProcess
<1>3. CASE FinishEffect
  BY <1>3 DEF FinishEffect, Phase, Accepted, SingleProcess, setup
<1>4. CASE StartEffect
  BY <1>4 DEF StartEffect, Phase, Accepted, SingleProcess, tracker
<1>5. CASE BetweenEffect
  BY <1>5 DEF BetweenEffect, Phase, Accepted, SingleProcess, tracker
<1>6. CASE UNCHANGED vars
  BY <1>6 DEF vars, setup, tracker, Phase, Accepted
<1> QED
  BY <1>1, <1>2, <1>3, <1>4, <1>5, <1>6, WhileRunning, AtTheEnd, BetweenSessions
     DEF Next, SessionStep

\* Only calls in RECORD or UPDATE mode, and what follows a run in those modes,
\* write to the disk.
LEMMA VerifyStep ==
    ASSUME TypeOK, Phase, [Next]_vars, pc # "idle", opt.mode = "VERIFY"
    PROVE  UNCHANGED disk
<1>1. CASE RunStep
  BY <1>1 DEF RunStep, StartTest, RunWithoutSnapshot, EndTest, LoadSnapshot,
     MissSnapshot, SaveSnapshot, CallRaises, WriteRaises, Writes, Calls, Abort,
     FinishRun, disk
<1>2. CASE FinishStep
  <2>1. ~AppendLock /\ ~RebuildLock
    BY DEF AppendLock, RebuildLock, Phase
  <2>2. \A o \in pending : ~DeleteOrphan(o)
    BY DEF Phase
  <2> QED
    BY <1>2, <2>1, <2>2 DEF FinishStep, Verify, KeepLock, RefuseLock, LockRaises,
       PruneDelete, PruneDryRun, DeleteRaises, ReadRaises, EndPrune, Close, ForgetSession
<1>3. CASE Environment
  BY <1>3, BetweenSessions DEF ForgetSession, StartEffect, BetweenEffect
<1>4. CASE UNCHANGED vars
  BY <1>4 DEF vars
<1> QED
  BY <1>1, <1>2, <1>3, <1>4 DEF Next, SessionStep

\* A --ditto-verify session leaves every store and the lock as they are.
THEOREM VerifyWritesNothingHolds == Spec => VerifyWritesNothing
<1>1. Init => TypeOK /\ Phase
  BY InitType, InitPhase
<1>2. TypeOK /\ Phase /\ [Next]_vars => TypeOK' /\ Phase'
  BY NextType, NextPhase
<1>3. TypeOK /\ Phase /\ [Next]_vars =>
        [pc # "idle" /\ opt.mode = "VERIFY" => UNCHANGED disk]_vars
  BY VerifyStep
<1> QED
  BY <1>1, <1>2, <1>3, PTL DEF Spec, VerifyWritesNothing

----------------------------------------------------------------------------
(* What the tracker holds.                                                 *)

Observed ==
    /\ created \subseteq accessed
    /\ \A p \in accessed : Placed(p)
    /\ pc \in {"running", "verify", "lock"} =>
          \A p \in accessed : Stored(p) \/ (opt.mode = "VERIFY" /\ p \in created)

LEMMA InitObserved == Init => Observed
BY DEF Init, Observed

LEMMA CallObserved ==
    ASSUME TypeOK, Phase, Observed, NEW e \in Entries,
           LoadSnapshot(e) \/ MissSnapshot(e) \/ SaveSnapshot(e)
    PROVE  Observed'
<1> USE SessionAssumption DEF Observed, Placed, Stored, RecordLockSeen, Calls, Seat,
    Backend, Exists, TypeOK, Seen, setup
<1>1. CASE LoadSnapshot(e)
  BY <1>1 DEF LoadSnapshot
<1>2. CASE MissSnapshot(e)
  BY <1>2 DEF MissSnapshot
<1>3. CASE SaveSnapshot(e)
  BY <1>3 DEF SaveSnapshot
<1> QED
  BY <1>1, <1>2, <1>3

LEMMA NextObserved == ASSUME TypeOK, Phase, Observed, [Next]_vars PROVE Observed'
<1>1. CASE accessed' = {} /\ created' = {}
  BY <1>1 DEF Observed
<1>2. CASE /\ UNCHANGED <<store, accessed, created, placement, opt>>
           /\ pc' \in {"running", "verify", "lock"} => pc \in {"running", "verify", "lock"}
  BY <1>2 DEF Observed, Placed, Stored
<1>3. ASSUME NEW e \in Entries, WriteRaises(e) PROVE Observed'
  BY <1>3, SessionAssumption DEF WriteRaises, Calls, setup, Backend, Observed, Placed,
     Stored, TypeOK, Seen
<1>4. CASE RunStep
  <2>1. RunEffect
    BY <1>4, WhileRunning
  <2> QED
    BY <1>2, <1>3, <1>4, <2>1, CallObserved DEF RunStep, RunEffect, StartTest,
       RunWithoutSnapshot, EndTest, CallRaises, Abort, FinishRun, disk, tracker
<1>5. CASE FinishStep
  <2>1. CASE ForgetSession
    BY <1>1, <2>1 DEF ForgetSession
  <2>2. CASE FinishEffect
    BY <2>2 DEF FinishEffect, Observed, Placed, tracker, setup
  <2> QED
    BY <1>5, <2>1, <2>2, AtTheEnd
<1>6. CASE Environment
  BY <1>1, <1>6, BetweenSessions DEF ForgetSession, StartEffect, BetweenEffect, Phase,
     tracker
<1>7. CASE UNCHANGED vars
  BY <1>2, <1>7 DEF vars, disk, setup, tracker
<1> QED
  BY <1>4, <1>5, <1>6, <1>7 DEF Next, SessionStep

LEMMA StepStored ==
    ASSUME TypeOK, Phase, Observed, [Next]_vars, NEW p \in lock' \ lock
    PROVE  Placed(p) /\ Stored(p)
<1>1. CASE AppendLock
  BY <1>1 DEF AppendLock, MergeAppend, Phase, Observed
<1>2. CASE RebuildLock
  BY <1>2 DEF RebuildLock, RebuiltLock, Phase, Observed
<1>3. CASE FinishStep
  BY <1>1, <1>2, <1>3 DEF FinishStep, Verify, KeepLock, RefuseLock, LockRaises,
     PruneDelete, PruneDryRun, DeleteOrphan, DeleteRaises, ReadRaises, EndPrune, Close,
     ForgetSession, disk
<1>4. CASE RunStep
  BY <1>4, WhileRunning DEF RunEffect
<1>5. CASE Environment
  BY <1>5, BetweenSessions DEF ForgetSession, StartEffect, BetweenEffect, disk
<1>6. CASE UNCHANGED vars
  BY <1>6 DEF vars, disk
<1> QED
  BY <1>3, <1>4, <1>5, <1>6 DEF Next, SessionStep

\* Whatever a session adds to the lock is the snapshot of one of its tests, in
\* that test's store.
THEOREM NewEntriesAreStoredHolds == Spec => NewEntriesAreStored
<1> DEFINE Inv == TypeOK /\ Phase /\ Observed
<1>1. Init => Inv
  BY InitType, InitPhase, InitObserved
<1>2. Inv /\ [Next]_vars => Inv'
  BY NextType, NextPhase, NextObserved
<1>3. Inv /\ [Next]_vars => [\A p \in lock' \ lock : Placed(p) /\ Stored(p)]_vars
  BY StepStored
<1> QED
  BY <1>1, <1>2, <1>3, PTL DEF Spec, NewEntriesAreStored

----------------------------------------------------------------------------
(* What a rebuild drops and keeps.                                         *)

\* A clean full run collected every test of the suite but those it left out.
Collected ==
    pc # "idle" /\ ok /\ opt.narrow # "args" =>
        \A t \in suite : t \in collection.collected \/ LeftOut(t, collection.uncollected)

LEMMA InitCollected == Init => Collected
BY DEF Init, Collected

LEMMA NextCollected == ASSUME TypeOK, Collected, [Next]_vars PROVE Collected'
<1>1. CASE pc' = "idle"
  BY <1>1 DEF Collected
<1>2. CASE RunEffect
  BY <1>2 DEF RunEffect, Collected, LeftOut
<1>3. CASE FinishEffect
  BY <1>3 DEF FinishEffect, Collected, LeftOut, setup
<1>4. CASE StartEffect
  BY <1>4 DEF StartEffect, Collected, LeftOut
<1>5. CASE UNCHANGED vars
  BY <1>5 DEF vars, setup, Collected, LeftOut
<1> QED
  BY <1>1, <1>2, <1>3, <1>4, <1>5, WhileRunning, AtTheEnd, BetweenSessions
     DEF Next, SessionStep, ForgetSession, BetweenEffect

LEMMA RebuildDrops ==
    ASSUME TypeOK, Collected, RebuildLock, NEW p \in lock \ lock'
    PROVE  \/ NodeOf[p[2]] \in collection.passed /\ p \notin accessed
           \/ NodeOf[p[2]] \notin suite
<1>1. /\ pc = "lock" /\ opt.narrow = "no" /\ ok
      /\ lock' = RebuiltLock(lock, accessed, collection)
  BY DEF RebuildLock, Action, ChooseLockAction, IsAuthoritative
<1>2. p \notin accessed /\ ~KeepsEntry(p[2], collection)
  BY <1>1 DEF RebuiltLock
<1> QED
  BY <1>1, <1>2 DEF KeepsEntry, Collected, LeftOut

LEMMA StepDrops ==
    ASSUME TypeOK, Collected, [Next]_vars, NEW p \in lock \ lock'
    PROVE  \/ lockState' = "corrupt"
           \/ NodeOf[p[2]] \in collection.passed /\ p \notin accessed
           \/ NodeOf[p[2]] \notin suite
<1>1. CASE FinishStep
  BY <1>1, RebuildDrops DEF FinishStep, Verify, KeepLock, RefuseLock, AppendLock,
     MergeAppend, LockRaises, PruneDelete, PruneDryRun, DeleteOrphan, DeleteRaises,
     ReadRaises, EndPrune, Close, ForgetSession, disk
<1>2. CASE RunStep
  BY <1>2, WhileRunning DEF RunEffect
<1>3. CASE Environment
  BY <1>3, BetweenSessions DEF ForgetSession, StartEffect, BetweenEffect, disk
<1>4. CASE UNCHANGED vars
  BY <1>4 DEF vars, disk
<1> QED
  BY <1>1, <1>2, <1>3, <1>4 DEF Next, SessionStep

\* An entry leaves the lock only when its test passed without using it or is
\* no longer in the suite, or the whole file is corrupted from outside.
THEOREM DropsOnlyGoneHolds == Spec => DropsOnlyGone
<1> DEFINE Inv == TypeOK /\ Collected
<1> DEFINE Drop == \A p \in lock \ lock' :
                      \/ lockState' = "corrupt"
                      \/ NodeOf[p[2]] \in collection.passed /\ p \notin accessed
                      \/ NodeOf[p[2]] \notin suite
<1>1. Init => Inv
  BY InitType, InitCollected
<1>2. Inv /\ [Next]_vars => Inv'
  BY NextType, NextCollected
<1>3. Inv /\ [Next]_vars => [Drop]_vars
  BY StepDrops
<1> QED
  BY <1>1, <1>2, <1>3, PTL DEF Spec, DropsOnlyGone

\* After a rebuild that succeeded, the lock is this run's.
Rebuilt ==
    pc \in {"prune", "delete", "closing"} /\ opt.rebuild /\ ok =>
        /\ lockState = "ok"
        /\ accessed \subseteq lock
        /\ \A p \in lock :
              p[1] \in Exercised(accessed) /\ NodeOf[p[2]] \in collection.passed =>
                  p \in accessed

LEMMA InitRebuilt == Init => Rebuilt
BY DEF Init, Rebuilt

LEMMA LockRebuilt ==
    ASSUME TypeOK, KeepLock \/ RefuseLock \/ AppendLock \/ RebuildLock \/ LockRaises
    PROVE  Rebuilt'
<1>1. CASE RebuildLock
  BY <1>1 DEF RebuildLock, RebuiltLock, KeepsEntry, Exercised, Rebuilt, setup, tracker
<1>2. CASE KeepLock \/ AppendLock
  <2>1. ~opt'.rebuild
    BY <1>2 DEF KeepLock, AppendLock, Action, ChooseLockAction, setup
  <2> QED
    BY <2>1 DEF Rebuilt
<1>3. CASE RefuseLock \/ LockRaises
  <2>1. opt'.rebuild => ~ok'
    BY <1>3 DEF RefuseLock, LockRaises, Action, ChooseLockAction, setup
  <2> QED
    BY <2>1 DEF Rebuilt
<1> QED
  BY <1>1, <1>2, <1>3

LEMMA NextRebuilt == ASSUME TypeOK, Phase, Rebuilt, [Next]_vars PROVE Rebuilt'
<1>1. CASE pc' \notin {"prune", "delete", "closing"}
  BY <1>1 DEF Rebuilt
<1>2. CASE RunEffect
  BY <1>2 DEF RunEffect, Phase, Accepted, SingleProcess, Rebuilt
<1>3. CASE \E u \in SUBSET Targets : Verify(u)
  <2>1. ~opt'.rebuild
    BY <1>3 DEF Verify, Phase, Accepted, setup
  <2> QED
    BY <2>1 DEF Rebuilt
<1>4. CASE /\ pc \in {"prune", "delete", "closing"}
           /\ UNCHANGED <<opt, lockState, lock, collection, accessed>>
           /\ ok' => ok
  BY <1>4 DEF Rebuilt
<1>5. ASSUME NEW u \in SUBSET Targets, PruneDelete(u) \/ PruneDryRun(u) PROVE Rebuilt'
  BY <1>4, <1>5 DEF PruneDelete, PruneDryRun, disk, setup, tracker
<1>6. ASSUME NEW o \in pending, DeleteOrphan(o) \/ DeleteRaises(o) PROVE Rebuilt'
  BY <1>4, <1>6 DEF DeleteOrphan, DeleteRaises, disk, setup, tracker
<1>7. CASE EndPrune \/ UNCHANGED vars
  BY <1>1, <1>4, <1>7 DEF EndPrune, vars, disk, setup, tracker
<1>7a. CASE ReadRaises
  BY <1>7a DEF ReadRaises, Rebuilt
<1>8. CASE FinishStep
  BY <1>1, <1>3, <1>5, <1>6, <1>7, <1>7a, <1>8, LockRebuilt DEF FinishStep, Close, ForgetSession
<1> QED
  BY <1>1, <1>2, <1>7, <1>8, WhileRunning, BetweenSessions
     DEF Next, SessionStep, ForgetSession, StartEffect, BetweenEffect

\* A --ditto-lock session that exits 0 leaves a lock with every snapshot its
\* tests used and, in those targets, nothing else of the tests that passed.
THEOREM RebuiltMatchesRunHolds == Spec => []RebuiltMatchesRun
<1> DEFINE Inv == TypeOK /\ Phase /\ Rebuilt
<1>1. Init => Inv
  BY InitType, InitPhase, InitRebuilt
<1>2. Inv /\ [Next]_vars => Inv'
  BY NextType, NextPhase, NextRebuilt
<1>3. Inv => RebuiltMatchesRun
  BY DEF Rebuilt, RebuiltMatchesRun
<1> QED
  BY <1>1, <1>2, <1>3, PTL DEF Spec

----------------------------------------------------------------------------
(* The backends registered, verify and prune.                              *)

Registry ==
    /\ \A t \in Registered : TargetOf[registered[t]] = t
    /\ cur # NoTest => TargetOf[placement[cur]] \in Registered
    /\ \A p \in accessed : p[1] \in Registered

LEMMA InitRegistry == Init => Registry
BY DEF Init, Registry, Registered

LEMMA NextRegistry == ASSUME TypeOK, Phase, Registry, [Next]_vars PROVE Registry'
<1>1. ASSUME NEW t \in Tests, StartTest(t) PROVE Registry'
  BY <1>1, SessionAssumption DEF StartTest, Registry, Registered, TypeOK, setup
<1>2. ASSUME UNCHANGED <<placement, registered, accessed>>, cur' = cur \/ cur' = NoTest
      PROVE  Registry'
  BY <1>2 DEF Registry, Registered
<1>3. ASSUME NEW e \in Entries, LoadSnapshot(e) \/ MissSnapshot(e) \/ SaveSnapshot(e)
      PROVE  Registry'
  <2>1. /\ cur = NodeOf[e] /\ UNCHANGED <<placement, registered, cur>>
        /\ accessed' = accessed \cup {<<TargetOf[placement[cur]], e>>}
    BY <1>3 DEF LoadSnapshot, MissSnapshot, SaveSnapshot, Calls, RecordLockSeen, Seat,
       Backend, setup
  <2>2. cur # NoTest
    BY <2>1, SessionAssumption
  <2> QED
    BY <2>1, <2>2 DEF Registry, Registered
<1>4. CASE RunStep
  BY <1>1, <1>2, <1>3, <1>4 DEF RunStep, RunWithoutSnapshot, EndTest, CallRaises,
     WriteRaises, Calls, Abort, FinishRun, setup, tracker
<1>5. CASE ForgetSession
  BY <1>5 DEF ForgetSession, Registry, Registered
<1>6. CASE FinishEffect \/ BetweenEffect \/ UNCHANGED vars
  BY <1>2, <1>6 DEF FinishEffect, BetweenEffect, vars, setup, tracker
<1>7. CASE StartEffect
  BY <1>7 DEF StartEffect, Phase, Registry, Registered, tracker
<1> QED
  BY <1>4, <1>5, <1>6, <1>7, AtTheEnd, BetweenSessions DEF Next, SessionStep

\* What is still to be deleted.
Pending ==
    \A o \in pending :
        /\ o[1] \in Registered
        /\ o[2] \notin KeysAt(o[1], lock) \cup KeysAt(o[1], created)
        /\ o[2] \in OwnedAt(o[1])
        /\ opt.shared \/ o[1] \in LocalTargets

LEMMA InitPending == Init => Pending
BY DEF Init, Pending

LEMMA NextPending == ASSUME TypeOK, Phase, Pending, [Next]_vars PROVE Pending'
<1>1. CASE pending' = {}
  BY <1>1 DEF Pending
<1>2. ASSUME NEW u \in SUBSET Targets, PruneDelete(u) PROVE Pending'
  <2>1. UNCHANGED <<lock, accessed, created, registered, opt>>
    BY <1>2 DEF PruneDelete, disk, setup, tracker
  <2>2. \A t : OwnedAt(t)' = OwnedAt(t)
    BY <2>1 DEF OwnedAt, ModulesAt
  <2> QED
    BY <1>2, <2>1, <2>2 DEF PruneDelete, Prunable, FoundOrphans, Drift, DiffBackend,
       Pending, Registered, KeysAt
<1>3. CASE /\ UNCHANGED <<lock, accessed, created, registered, opt>>
           /\ pending' \subseteq pending
  <2>1. \A t : OwnedAt(t)' = OwnedAt(t)
    BY <1>3 DEF OwnedAt, ModulesAt
  <2> QED
    BY <1>3, <2>1 DEF Pending, Registered, KeysAt
<1>4. CASE FinishStep
  BY <1>1, <1>2, <1>3, <1>4 DEF FinishStep, Phase, Verify, KeepLock, RefuseLock,
     AppendLock, RebuildLock, LockRaises, PruneDryRun, DeleteOrphan, DeleteRaises,
     ReadRaises, EndPrune, Close, ForgetSession, disk, setup, tracker
<1>5. CASE RunStep
  BY <1>1, <1>5, WhileRunning DEF RunEffect, Phase
<1>6. CASE Environment
  BY <1>1, <1>6, BetweenSessions DEF ForgetSession, StartEffect, BetweenEffect, Phase
<1>7. CASE UNCHANGED vars
  BY <1>3, <1>7 DEF vars, disk, setup, tracker
<1> QED
  BY <1>4, <1>5, <1>6, <1>7 DEF Next, SessionStep

\* Only the deletion of an orphan takes a key out of a store during a session.
LEMMA OnlyOrphansGo ==
    ASSUME TypeOK, Pending, [Next]_vars, pc # "idle",
           NEW s \in Stores, NEW k \in store[s] \ store'[s]
    PROVE  \E o \in pending :
               /\ DeleteOrphan(o)
               /\ o[1] \in Registered /\ StoreOf[registered[o[1]]] = s /\ o[2] = k
<1>1. PICK o \in pending : DeleteOrphan(o)
  <2>1. CASE RunStep
    BY <2>1 DEF RunStep, StartTest, RunWithoutSnapshot, EndTest, LoadSnapshot,
       MissSnapshot, SaveSnapshot, CallRaises, WriteRaises, Calls, Abort, FinishRun,
       disk, TypeOK
  <2>2. CASE FinishStep
    BY <2>2 DEF FinishStep, Verify, KeepLock, RefuseLock, AppendLock, RebuildLock,
       LockRaises, PruneDelete, PruneDryRun, DeleteRaises, ReadRaises, EndPrune, Close,
       ForgetSession, disk
  <2>3. CASE Environment
    BY <2>3, BetweenSessions DEF ForgetSession, StartEffect, BetweenEffect, disk
  <2>4. CASE UNCHANGED vars
    BY <2>4 DEF vars, disk
  <2> QED
    BY <2>1, <2>2, <2>3, <2>4 DEF Next, SessionStep
<1>2. /\ o[1] \in Registered /\ StoreOf[registered[o[1]]] = s /\ o[2] = k
  BY <1>1, SessionAssumption DEF DeleteOrphan, Pending, Registered, TypeOK
<1> QED
  BY <1>1, <1>2

\* No two backends are one store.
StoresApart == \A b, c \in Backends : StoreOf[b] = StoreOf[c] => b = c

LEMMA StepPruned ==
    ASSUME StoresApart, TypeOK, Registry, Pending, [Next]_vars, pc # "idle",
           NEW s \in Stores, NEW k \in store[s] \ store'[s]
    PROVE  /\ \A t \in Registered :
                 StoreOf[registered[t]] = s =>
                     k \notin KeysAt(t, lock) \cup KeysAt(t, created)
           /\ \E t \in Registered :
                 StoreOf[registered[t]] = s /\ (opt.shared \/ t \in LocalTargets)
<1>2. PICK o \in pending :
          o[1] \in Registered /\ StoreOf[registered[o[1]]] = s /\ o[2] = k
  BY OnlyOrphansGo
<1>3. ASSUME NEW t \in Registered, StoreOf[registered[t]] = s PROVE t = o[1]
  BY <1>2, <1>3 DEF StoresApart, Registry, Registered, TypeOK
<1> QED
  BY <1>2, <1>3 DEF Pending

\* When no two backends are one store, a session deletes only what the lock
\* does not record for any target in use there, that it did not create, and
\* that it may delete.
THEOREM PrunedWereOrphansHolds ==
    ASSUME StoresApart PROVE Spec => PrunedWereOrphans
<1> DEFINE Inv == TypeOK /\ Phase /\ Registry /\ Pending
<1> DEFINE Pruned ==
        pc # "idle" =>
            \A s \in Stores : \A k \in store[s] \ store'[s] :
                /\ \A t \in Registered :
                      StoreOf[registered[t]] = s =>
                          k \notin KeysAt(t, lock) \cup KeysAt(t, created)
                /\ \E t \in Registered :
                      StoreOf[registered[t]] = s /\ (opt.shared \/ t \in LocalTargets)
<1>1. Init => Inv
  BY InitType, InitPhase, InitRegistry, InitPending
<1>2. Inv /\ [Next]_vars => Inv'
  BY NextType, NextPhase, NextRegistry, NextPending
<1>3. Inv /\ [Next]_vars => [Pruned]_vars
  BY StepPruned
<1> QED
  BY <1>1, <1>2, <1>3, PTL DEF Spec, PrunedWereOrphans

\* What is under a module's prefix is a snapshot of that module.
PrefixesApart ==
    \A m \in Modules : \A k \in Under[m] :
        \E e \in Entries : KeyOf[e] = k /\ ModuleOf[NodeOf[e]] = m

LEMMA StepIsOurs ==
    ASSUME PrefixesApart, TypeOK, Pending, [Next]_vars, pc # "idle",
           NEW s \in Stores, NEW k \in store[s] \ store'[s]
    PROVE  \E e \in Entries, t \in Registered :
              /\ KeyOf[e] = k
              /\ ModuleOf[NodeOf[e]] \in ModulesAt(t, accessed) \cup ModulesAt(t, lock)
<1>1. PICK o \in pending : o[1] \in Registered /\ o[2] = k
  BY OnlyOrphansGo
<1>2. PICK m \in ModulesAt(o[1], accessed) \cup ModulesAt(o[1], lock) : k \in Under[m]
  BY <1>1 DEF Pending, OwnedAt
<1>3. m \in Modules
  BY SessionAssumption DEF ModulesAt, TypeOK, Seen
<1>4. PICK e \in Entries : KeyOf[e] = k /\ ModuleOf[NodeOf[e]] = m
  BY <1>2, <1>3 DEF PrefixesApart
<1> QED
  BY <1>1, <1>2, <1>4

\* Where no module's prefix covers the keys of another suite, a session deletes
\* only keys of modules that its tests used, or the lock records.
THEOREM PrunedAreOursHolds ==
    ASSUME PrefixesApart PROVE Spec => PrunedAreOurs
<1> DEFINE Inv == TypeOK /\ Phase /\ Pending
           Ours ==
               pc # "idle" =>
                   \A s \in Stores : \A k \in store[s] \ store'[s] :
                       \E e \in Entries, t \in Registered :
                           /\ KeyOf[e] = k
                           /\ ModuleOf[NodeOf[e]] \in
                                 ModulesAt(t, accessed) \cup ModulesAt(t, lock)
<1>1. Init => Inv
  BY InitType, InitPhase, InitPending
<1>2. Inv /\ [Next]_vars => Inv'
  BY NextType, NextPhase, NextPending
<1>3. Inv /\ [Next]_vars => [Ours]_vars
  BY StepIsOurs
<1> QED
  BY <1>1, <1>2, <1>3, PTL DEF Spec, PrunedAreOurs

\* While a prune deletes, no orphan is out of its sight.
Clean ==
    opt.prune = "DELETE" /\ ok =>
        /\ pc = "delete" =>
              lockState = "ok" /\ \A t \in Registered : \A k \in Drift(t).orphan : <<t, k>> \in pending
        /\ pc = "closing" =>
              lockState = "ok" /\ \A t \in Registered : Drift(t).orphan = {}

LEMMA InitClean == Init => Clean
BY DEF Init, Clean

LEMMA DeleteClean ==
    ASSUME TypeOK, Registry, Pending, Clean, NEW o \in pending, DeleteOrphan(o)
    PROVE  Clean'
<1> SUFFICES ASSUME opt.prune = "DELETE", ok,
                    NEW t \in Registered, NEW k \in Drift(t)'.orphan
             PROVE  lockState = "ok" /\ <<t, k>> \in pending \ {o}
  BY DEF DeleteOrphan, Clean, Registered, setup, tracker
<1>1. /\ pc = "delete" /\ o[1] \in Registered /\ o \in Targets \X Keys
      /\ store' = [store EXCEPT ![StoreOf[registered[o[1]]]] = @ \ {o[2]}]
      /\ UNCHANGED <<lock, accessed, created, registered>>
  BY DEF DeleteOrphan, Pending, TypeOK, Orphans, tracker
<1>2. k \in Drift(t).orphan
  <2>1. /\ KeysAt(t, lock)' = KeysAt(t, lock)
        /\ KeysAt(t, created)' = KeysAt(t, created)
        /\ OwnedAt(t)' = OwnedAt(t)
    BY <1>1 DEF KeysAt, OwnedAt, ModulesAt
  <2>2. StoredAt(t)' \subseteq StoredAt(t)
    BY <1>1, SessionAssumption DEF StoredAt, Registered, TypeOK
  <2> QED
    BY <2>1, <2>2 DEF Drift, DiffBackend
<1>3. <<t, k>> # o
  BY <1>1, <1>2, SessionAssumption DEF Drift, DiffBackend, StoredAt, Registered, TypeOK
<1> QED
  BY <1>1, <1>2, <1>3 DEF Clean

LEMMA NextClean ==
    ASSUME TypeOK, Phase, Registry, Pending, Clean, [Next]_vars PROVE Clean'
<1>1. CASE pc' \notin {"delete", "closing"}
  BY <1>1 DEF Clean
<1>2. CASE opt'.prune # "DELETE" \/ ~ok'
  BY <1>2 DEF Clean
<1>3. CASE RunEffect
  BY <1>1, <1>2, <1>3 DEF RunEffect, Phase, Accepted, SingleProcess
<1>4. ASSUME NEW u \in SUBSET Targets, Verify(u) PROVE Clean'
  BY <1>2, <1>4 DEF Verify, Phase, Accepted, setup
<1>5. CASE KeepLock \/ RefuseLock \/ AppendLock \/ RebuildLock \/ LockRaises
  <2>1. pc' = IF opt'.prune = "OFF" THEN "closing" ELSE "prune"
    BY <1>5 DEF KeepLock, RefuseLock, AppendLock, RebuildLock, LockRaises, AfterLock, setup
  <2> QED
    BY <1>1, <1>2, <2>1
<1>6. ASSUME NEW u \in SUBSET Targets, PruneDelete(u) PROVE Clean'
  <2>1. /\ pc' = "delete"
        /\ ok' => lockState = "ok" /\ u = {} /\ pending' = FoundOrphans(u)
        /\ UNCHANGED <<disk, tracker>>
    BY <1>6 DEF PruneDelete
  <2>2. \A t : Drift(t)' = Drift(t)
    BY <2>1 DEF Drift, KeysAt, StoredAt, OwnedAt, ModulesAt, disk, tracker
  <2>3. \A t \in Registered : Drift(t).orphan \subseteq Keys
    BY SessionAssumption DEF Drift, DiffBackend, StoredAt, Registered, TypeOK
  <2>4. ok' => \A t \in Registered : \A k \in Drift(t).orphan : <<t, k>> \in pending'
    BY <2>1, <2>3 DEF FoundOrphans
  <2> QED
    BY <2>1, <2>2, <2>4 DEF Clean, Registered, disk, tracker
<1>7. ASSUME NEW u \in SUBSET Targets, PruneDryRun(u) PROVE Clean'
  BY <1>2, <1>7 DEF PruneDryRun, setup
<1>8. ASSUME NEW o \in pending, DeleteRaises(o) PROVE Clean'
  BY <1>2, <1>8 DEF DeleteRaises
<1>8a. CASE ReadRaises
  BY <1>2, <1>8a DEF ReadRaises
<1>9. CASE EndPrune
  <2>1. /\ pc = "delete" /\ pc' = "closing" /\ pending = {}
        /\ UNCHANGED <<disk, setup, tracker, ok>>
    BY <1>9 DEF EndPrune
  <2>2. \A t : Drift(t)' = Drift(t)
    BY <2>1 DEF Drift, KeysAt, StoredAt, OwnedAt, ModulesAt, disk, tracker
  <2> QED
    BY <2>1, <2>2 DEF Clean, Registered, disk, setup, tracker
<1>10. CASE FinishStep
  BY <1>1, <1>4, <1>5, <1>6, <1>7, <1>8, <1>8a, <1>9, <1>10, DeleteClean
     DEF FinishStep, Close, ForgetSession
<1>11. CASE Environment
  BY <1>1, <1>11, BetweenSessions DEF ForgetSession, StartEffect, BetweenEffect
<1>12. CASE UNCHANGED vars
  <2>1. UNCHANGED <<disk, setup, tracker, pc, pending, ok>>
    BY <1>12 DEF vars
  <2>2. \A t : Drift(t)' = Drift(t)
    BY <2>1 DEF Drift, KeysAt, StoredAt, OwnedAt, ModulesAt, disk, tracker
  <2> QED
    BY <2>1, <2>2 DEF Clean, Registered, disk, setup, tracker
<1> QED
  BY <1>3, <1>10, <1>11, <1>12, WhileRunning DEF Next, SessionStep

\* A prune that exits 0 leaves no orphan in any target it used.
THEOREM PrunedMeansCleanHolds == Spec => []PrunedMeansClean
<1> DEFINE Inv == TypeOK /\ Phase /\ Registry /\ Pending /\ Clean
<1>1. Init => Inv
  BY InitType, InitPhase, InitRegistry, InitPending, InitClean
<1>2. Inv /\ [Next]_vars => Inv'
  BY NextType, NextPhase, NextRegistry, NextPending, NextClean
<1>3. Inv => PrunedMeansClean
  BY DEF Clean, PrunedMeansClean
<1> QED
  BY <1>1, <1>2, <1>3, PTL DEF Spec

----------------------------------------------------------------------------
(* Verify.                                                                 *)

\* A target id is one backend's: no two URIs, or storage options of one, that
\* name different stores have the same id.
TargetsApart == \A b, c \in Backends : TargetOf[b] = TargetOf[c] => b = c

\* What was seen of a target was seen in the backend that is registered for it.
LEMMA PlacedIsRegistered ==
    ASSUME TargetsApart, TypeOK, Registry,
           NEW t \in Registered, NEW p \in Targets \X Entries, p[1] = t, Placed(p)
    PROVE  placement[NodeOf[p[2]]] = registered[t]
<1>1. placement[NodeOf[p[2]]] \in Backends /\ registered[t] \in Backends
  BY SessionAssumption DEF TypeOK, Registered
<1>2. TargetOf[placement[NodeOf[p[2]]]] = TargetOf[registered[t]]
  BY DEF Registry, Placed
<1> QED
  BY <1>1, <1>2 DEF TargetsApart

LEMMA StepVerified ==
    ASSUME TargetsApart, TypeOK, Phase, Observed, Registry,
           NEW u \in SUBSET Targets, Verify(u), ok', NEW p \in accessed
    PROVE  Stored(p) /\ KeyOf[p[2]] \in KeysAt(p[1], lock)
<1> DEFINE t == p[1]
           k == KeyOf[p[2]]
<1>1. /\ t \in Registered /\ Placed(p) /\ p \in Targets \X Entries
      /\ Stored(p) \/ p \in created
  BY DEF Registry, Observed, Verify, TypeOK, Seen
<1>2. ~HasDrift(Drift(t))
  BY <1>1 DEF Verify
<1>3. /\ KeysAt(t, lock) \subseteq StoredAt(t)
      /\ KeysAt(t, created) \subseteq KeysAt(t, lock)
      /\ StoredAt(t) \cap OwnedAt(t) \subseteq KeysAt(t, lock)
  BY <1>2 DEF HasDrift, Drift, DiffBackend
<1>4. Stored(p) <=> k \in StoredAt(t)
  BY <1>1, PlacedIsRegistered DEF Stored, StoredAt
<1>5. k \in OwnedAt(t)
  <2>1. k \in Under[ModuleOf[NodeOf[p[2]]]] /\ ModuleOf[NodeOf[p[2]]] \in ModulesAt(t, accessed)
    BY <1>1, SessionAssumption DEF ModulesAt
  <2> QED
    BY <2>1 DEF OwnedAt
<1>6. p \in created => k \in KeysAt(t, created)
  BY DEF KeysAt
<1> QED
  BY <1>1, <1>3, <1>4, <1>5, <1>6

\* When a target id is one backend's, a verify run that exits 0 saw every
\* snapshot its tests asked for, in the store and in the lock.
THEOREM VerifiedIsSyncedHolds ==
    ASSUME TargetsApart PROVE Spec => VerifiedIsSynced
<1> DEFINE Inv == TypeOK /\ Phase /\ Observed /\ Registry
           Synced == \A unreadable \in SUBSET Targets :
                         Verify(unreadable) /\ ok' =>
                             \A p \in accessed :
                                 Stored(p) /\ KeyOf[p[2]] \in KeysAt(p[1], lock)
<1>1. Init => Inv
  BY InitType, InitPhase, InitObserved, InitRegistry
<1>2. Inv /\ [Next]_vars => Inv'
  BY NextType, NextPhase, NextObserved, NextRegistry
<1>3. Inv => [Synced]_vars
  BY StepVerified
<1>4. VerifiedIsSynced <=> [][Synced]_vars
  BY DEF VerifiedIsSynced
<1> QED
  BY <1>1, <1>2, <1>3, <1>4, PTL DEF Spec

LEMMA InSyncHasNoDrift ==
    ASSUME TargetsApart, TypeOK, Observed, Registry, NEW t \in Registered, InSync(t)
    PROVE  ~HasDrift(Drift(t))
<1>1. KeysAt(t, lock) \subseteq StoredAt(t)
  <2>1. ASSUME NEW p \in lock, p[1] = t PROVE KeyOf[p[2]] \in StoredAt(t)
    <3>1. p \in Targets \X Entries /\ Placed(p) /\ Stored(p)
      BY <2>1 DEF InSync, TypeOK, Seen
    <3> QED
      BY <2>1, <3>1, PlacedIsRegistered DEF Stored, StoredAt
  <2> QED
    BY <2>1 DEF KeysAt
<1>2. StoredAt(t) \subseteq KeysAt(t, lock)
  BY DEF InSync, StoredAt, Registered, Registry, TypeOK
<1>3. KeysAt(t, created) \subseteq KeysAt(t, lock)
  BY DEF InSync, Observed, KeysAt
<1> QED
  BY <1>1, <1>2, <1>3 DEF HasDrift, Drift, DiffBackend

\* When a target id is one backend's, a verify of a suite in sync that can read
\* its targets does not fail.
THEOREM NoFalseDriftHolds ==
    ASSUME TargetsApart PROVE Spec => NoFalseDrift
<1> DEFINE Inv == TypeOK /\ Phase /\ Observed /\ Registry
<1>1. Init => Inv
  BY InitType, InitPhase, InitObserved, InitRegistry
<1>2. Inv /\ [Next]_vars => Inv'
  BY NextType, NextPhase, NextObserved, NextRegistry
<1>3. Inv => [Verify({}) /\ ok /\ lockState = "ok" /\ (\A t \in Registered : InSync(t))
                => ok']_vars
  BY InSyncHasNoDrift DEF Verify
<1> QED
  BY <1>1, <1>2, <1>3, PTL DEF Spec, NoFalseDrift

----------------------------------------------------------------------------
(* What `ditto prune --check` previews.                                    *)

LEMMA RebuiltOnce ==
    ASSUME NEW L, NEW seen, NEW coll
    PROVE  LET R == RebuiltLock(L, seen, coll) IN RebuiltLock(R, seen, coll) = R
BY DEF RebuiltLock

\* Whether a clean run with these options rebuilds the lock.
WillRebuild(o) == (o.rebuild \/ o.mode = "UPDATE") /\ o.narrow = "no"

\* Towards its end a check has its snapshots in their stores and, if it was to
\* rebuild the lock, has done so; what it lists is what is prunable.
Checking ==
    opt.prune = "DRY_RUN" =>
        /\ pc # "delete"
        /\ pc \in {"prune", "closing"} =>
              /\ \A p \in accessed : Stored(p)
              /\ ok /\ WillRebuild(opt) => lock = RebuiltLock(lock, accessed, collection)
        /\ pc = "closing" /\ ok => lockState = "ok" /\ preview = Prunable(FoundOrphans({}))

LEMMA InitChecking == Init => Checking
BY DEF Init, Checking


LEMMA SameOrphans ==
    ASSUME UNCHANGED <<disk, opt, registered, accessed, created>>
    PROVE  /\ Registered' = Registered
           /\ \A t : Drift(t)' = Drift(t)
           /\ \A orphans : Prunable(orphans)' = Prunable(orphans)
BY DEF disk, Registered, Drift, KeysAt, StoredAt, OwnedAt, ModulesAt, Prunable

LEMMA LockChecking ==
    ASSUME TypeOK, Phase, Observed, opt.prune = "DRY_RUN",
           KeepLock \/ RefuseLock \/ AppendLock \/ RebuildLock \/ LockRaises
    PROVE  Checking'
<1>1. /\ pc = "lock" /\ pc' = "prune"
      /\ UNCHANGED <<store, setup, tracker>>
  BY DEF KeepLock, RefuseLock, AppendLock, RebuildLock, LockRaises, AfterLock, disk
<1>2. \A p \in accessed' : Stored(p)'
  BY <1>1 DEF Phase, Observed, Stored, setup, tracker
<1>3. ok' /\ WillRebuild(opt) => lock' = RebuiltLock(lock', accessed, collection)
  <2>1. CASE RebuildLock
    BY <2>1, RebuiltOnce DEF RebuildLock
  <2>2. CASE KeepLock
    BY <2>2 DEF KeepLock, Action, ChooseLockAction, IsAuthoritative, WillRebuild
  <2>3. CASE RefuseLock \/ AppendLock \/ LockRaises
    BY <2>3 DEF RefuseLock, AppendLock, LockRaises, Action, ChooseLockAction
  <2> QED
    BY <2>1, <2>2, <2>3
<1> QED
  BY <1>1, <1>2, <1>3 DEF Checking, setup, tracker

LEMMA PreviewChecking ==
    ASSUME TypeOK, Checking, NEW u \in SUBSET Targets, PruneDryRun(u)
    PROVE  Checking'
<1>1. /\ pc = "prune" /\ opt.prune = "DRY_RUN" /\ pc' = "closing"
      /\ UNCHANGED <<disk, setup, tracker>>
      /\ ok' => ok /\ lockState = "ok" /\ u = {}
      /\ preview' = Prunable(FoundOrphans(u))
  BY DEF PruneDryRun
<1>2. Prunable(FoundOrphans({}))' = Prunable(FoundOrphans({}))
  <2>1. FoundOrphans({})' = FoundOrphans({})
    BY <1>1, SameOrphans DEF FoundOrphans, setup, tracker, disk
  <2> QED
    BY <1>1, <2>1 DEF Prunable, setup
<1> QED
  BY <1>1, <1>2 DEF Checking, Stored, disk, setup, tracker

LEMMA NextChecking ==
    ASSUME TypeOK, Phase, Observed, Checking, [Next]_vars PROVE Checking'
<1>1. CASE pc' \notin {"prune", "delete", "closing"}
  BY <1>1 DEF Checking
<1>2. CASE opt'.prune # "DRY_RUN"
  BY <1>2 DEF Checking
<1>3. CASE RunEffect
  BY <1>1, <1>2, <1>3 DEF RunEffect, Phase, Accepted, SingleProcess
<1>4. CASE KeepLock \/ RefuseLock \/ AppendLock \/ RebuildLock \/ LockRaises
  <2>1. opt' = opt
    BY <1>4 DEF KeepLock, RefuseLock, AppendLock, RebuildLock, LockRaises, setup
  <2> QED
    BY <1>2, <1>4, <2>1, LockChecking
<1>5. ASSUME NEW u \in SUBSET Targets, Verify(u) \/ PruneDelete(u) PROVE Checking'
  BY <1>2, <1>5 DEF Verify, PruneDelete, Phase, Accepted, setup
<1>6. ASSUME NEW o \in pending, DeleteOrphan(o) \/ DeleteRaises(o) PROVE Checking'
  BY <1>2, <1>6 DEF DeleteOrphan, DeleteRaises, Checking, setup
<1>7. CASE EndPrune
  BY <1>2, <1>7 DEF EndPrune, Checking, setup
<1>7a. CASE ReadRaises
  <2>1. /\ pc \in {"verify", "prune"} /\ ~ok'
        /\ UNCHANGED <<store, opt, placement, accessed>>
    BY <1>7a DEF ReadRaises, disk, setup, tracker
  <2>2. CASE pc = "verify"
    BY <1>2, <2>1, <2>2 DEF Phase, Accepted
  <2>3. CASE pc = "prune"
    BY <1>7a, <2>1, <2>3 DEF ReadRaises, Checking, Stored
  <2> QED
    BY <2>1, <2>2, <2>3
<1>8. CASE FinishStep
  BY <1>1, <1>4, <1>5, <1>6, <1>7, <1>7a, <1>8, PreviewChecking
     DEF FinishStep, Close, ForgetSession
<1>9. CASE Environment
  BY <1>1, <1>9, BetweenSessions DEF ForgetSession, StartEffect, BetweenEffect
<1>10. CASE UNCHANGED vars
  <2>1. UNCHANGED <<disk, setup, tracker, pc, preview, ok>>
    BY <1>10 DEF vars
  <2>2. FoundOrphans({})' = FoundOrphans({})
    BY <2>1, SameOrphans DEF FoundOrphans, setup, tracker, disk
  <2>3. Prunable(FoundOrphans({}))' = Prunable(FoundOrphans({}))
    BY <2>1, <2>2 DEF Prunable, setup
  <2> QED
    BY <2>1, <2>3 DEF Checking, Stored, disk, setup, tracker
<1> QED
  BY <1>3, <1>8, <1>9, <1>10, WhileRunning DEF Next, SessionStep

\* The orphans that the targets, the observations and the options of the last
\* check make of the stores and the lock as they now are.
StillOrphans ==
    {o \in {t \in Targets : checked.registered[t] # NoBackend} \X Keys :
        /\ o[2] \in store[StoreOf[checked.registered[o[1]]]] \ KeysAt(o[1], lock)
        /\ o[2] \in UNION {Under[m] : m \in ModulesAt(o[1], checked.accessed)
                                           \cup ModulesAt(o[1], lock)}
        /\ checked.opt.shared \/ o[1] \in LocalTargets}

\* The calls of this run were calls of the check.
Familiar == \A q \in used : <<TargetOf[q[1]], q[2]>> \in checked.accessed

UnsyncedKeys == {<<p[1], KeyOf[p[2]]>> : p \in checked.unsynced}

\* They are what the check listed, but for what it left unsynced, and this run
\* has added nothing to that.
StillExact ==
    /\ created = {}
    /\ checked.listed \subseteq StillOrphans
    /\ StillOrphans \ checked.listed \subseteq UnsyncedKeys

LEMMA SameExact ==
    ASSUME UNCHANGED <<checked, store, lock, created>> PROVE StillExact' = StillExact
BY DEF StillExact, StillOrphans, UnsyncedKeys, KeysAt, ModulesAt

OptAsChecked ==
    /\ opt.prune = "DELETE"
    /\ opt.mode = checked.opt.mode /\ opt.rebuild = checked.opt.rebuild
    /\ opt.shared = checked.opt.shared /\ opt.narrow = checked.opt.narrow

\* From a check to the prune that follows it.
Memory ==
    checked # NoCheck =>
        /\ checked.opt \in RunOptions /\ checked.accessed \in Seen
        /\ pc # "idle" => placement = checked.placement /\ OptAsChecked
        /\ pc \in {"idle", "running", "lock", "prune"} => lockState = "ok"
        /\ pc \in {"idle", "running"} =>
              \A p \in checked.accessed :
                  KeyOf[p[2]] \in store[StoreOf[checked.placement[NodeOf[p[2]]]]]
        /\ pc \in {"idle", "running", "lock"} =>
              /\ WillRebuild(checked.opt) =>
                    lock = RebuiltLock(lock, checked.accessed, checked.collection)
              /\ Familiar => StillExact
        /\ pc = "prune" /\ SameRun => StillExact

LEMMA InitMemory == PreviewInit => Memory
BY DEF PreviewInit, Memory

\* In a run that only makes the calls of the check, nothing is created.
LEMMA CallMemory ==
    ASSUME TypeOK, Memory, checked # NoCheck, UNCHANGED checked, RunStep
    PROVE  /\ used \subseteq used'
           /\ \A s \in Stores : store[s] \subseteq store'[s]
           /\ Familiar' => UNCHANGED <<store, created>>
<1>1. ASSUME NEW e \in Entries, Calls(e),
             LoadSnapshot(e) \/ MissSnapshot(e) \/ SaveSnapshot(e) \/ CallRaises(e)
                \/ WriteRaises(e)
      PROVE  /\ used \subseteq used'
             /\ \A s \in Stores : store[s] \subseteq store'[s]
             /\ Familiar' => UNCHANGED <<store, created>>
  <2>1. used' = used \cup {<<Backend, e>>} /\ pc = "running" /\ cur = NodeOf[e]
    BY <1>1 DEF Calls
  <2>2. \/ UNCHANGED store
        \/ store' = [store EXCEPT ![StoreOf[Backend]] = @ \cup {KeyOf[e]}]
    BY <1>1 DEF LoadSnapshot, MissSnapshot, SaveSnapshot, CallRaises, WriteRaises
  <2>3. UNCHANGED created \/ RecordLockSeen(e)
    BY <1>1 DEF LoadSnapshot, MissSnapshot, SaveSnapshot, CallRaises, WriteRaises
  <2>4. Familiar' => Exists(e)
    <3>1. Familiar' => Seat(e) \in checked.accessed
      <4>1. <<Backend, e>> \in used'
        BY <2>1
      <4>2. Familiar' => <<TargetOf[<<Backend, e>>[1]], <<Backend, e>>[2]>> \in checked.accessed
        BY <4>1 DEF Familiar
      <4> QED
        BY <4>2 DEF Seat
    <3>2. Seat(e) \in checked.accessed => KeyOf[e] \in store[StoreOf[checked.placement[NodeOf[e]]]]
      BY <2>1 DEF Memory, Seat
    <3> QED
      BY <2>1, <3>1, <3>2 DEF Memory, Exists, Backend
  <2>5. \A s \in Stores : store[s] \subseteq store'[s]
    BY <2>2 DEF TypeOK
  <2>6. Exists(e) => UNCHANGED <<store, created>>
    <3>1. Exists(e) => UNCHANGED created
      BY <2>3 DEF RecordLockSeen
    <3>2. Exists(e) => UNCHANGED store
      <4>1. Exists(e) /\ StoreOf[Backend] \in Stores =>
              [store EXCEPT ![StoreOf[Backend]] = @ \cup {KeyOf[e]}] = store
        BY DEF Exists, TypeOK
      <4>2. StoreOf[Backend] \in Stores
        BY <2>1, SessionAssumption DEF Backend, TypeOK
      <4> QED
        BY <2>2, <4>1, <4>2
    <3> QED
      BY <3>1, <3>2
  <2> QED
    BY <2>1, <2>4, <2>5, <2>6
<1>2. CASE UNCHANGED <<used, store, created>>
  BY <1>2
<1> QED
  BY <1>1, <1>2 DEF RunStep, StartTest, RunWithoutSnapshot, EndTest, LoadSnapshot,
     MissSnapshot, SaveSnapshot, CallRaises, WriteRaises, Abort, FinishRun, disk, tracker

LEMMA RunMemory ==
    ASSUME TypeOK, Memory, checked # NoCheck, UNCHANGED checked, RunStep PROVE Memory'
<1>1. /\ pc = "running" /\ pc' \in {"running", "verify", "lock", "closing"}
      /\ UNCHANGED <<lockState, lock, opt, placement>>
  BY WhileRunning DEF RunEffect
<1>2. ASSUME NEW p \in checked.accessed
      PROVE  KeyOf[p[2]] \in store'[StoreOf[checked.placement[NodeOf[p[2]]]]]
  <2>1. /\ p \in Targets \X Entries /\ placement = checked.placement
        /\ KeyOf[p[2]] \in store[StoreOf[checked.placement[NodeOf[p[2]]]]]
    BY <1>1, <1>2 DEF Memory, Seen
  <2>2. StoreOf[placement[NodeOf[p[2]]]] \in Stores
    <3>1. placement \in [Tests -> Backends]
      BY SessionAssumption DEF TypeOK
    <3>2. NodeOf[p[2]] \in Tests
      BY <2>1, SessionAssumption
    <3> QED
      BY <3>1, <3>2, SessionAssumption
  <2> QED
    BY <2>1, <2>2, CallMemory
<1>3. Familiar' => StillExact'
  <2>1. Familiar' => Familiar
    BY CallMemory DEF Familiar
  <2>2. UNCHANGED <<store, created>> /\ StillExact => StillExact'
    BY <1>1, SameExact
  <2> QED
    BY <1>1, <2>1, <2>2, CallMemory DEF Memory
<1> QED
  BY <1>1, <1>2, <1>3 DEF Memory, OptAsChecked

LEMMA LockMemory ==
    ASSUME TypeOK, Memory, checked # NoCheck, UNCHANGED checked,
           KeepLock \/ RefuseLock \/ AppendLock \/ RebuildLock \/ LockRaises
    PROVE  Memory'
<1>1. /\ pc = "lock" /\ pc' = "prune"
      /\ UNCHANGED <<store, setup, tracker>>
  BY DEF KeepLock, RefuseLock, AppendLock, RebuildLock, LockRaises, AfterLock, disk,
     Memory, OptAsChecked
<1>2. lockState' = "ok"
  BY <1>1 DEF KeepLock, RefuseLock, AppendLock, RebuildLock, LockRaises, disk, Memory
<1>3. SameRun' => Familiar /\ SameRun
  BY <1>1 DEF SameRun, Familiar, setup, tracker
<1>4. SameRun => lock' = lock
  <2>1. CASE RebuildLock
    <3>1. WillRebuild(checked.opt)
      BY <1>1, <2>1 DEF RebuildLock, Action, ChooseLockAction, IsAuthoritative,
         WillRebuild, Memory, OptAsChecked
    <3> QED
      BY <1>1, <2>1, <3>1 DEF RebuildLock, Memory, SameRun
  <2>2. CASE AppendLock
    BY <1>1, <2>2 DEF AppendLock, Action, ChooseLockAction, Memory, OptAsChecked
  <2>3. CASE KeepLock \/ RefuseLock \/ LockRaises
    BY <2>3 DEF KeepLock, RefuseLock, LockRaises, disk
  <2> QED
    BY <2>1, <2>2, <2>3
<1>5. SameRun' => StillExact'
  <2>1. UNCHANGED <<store, lock, created>> /\ StillExact => StillExact'
    BY SameExact
  <2> QED
    BY <1>1, <1>3, <1>4, <2>1 DEF Memory, tracker
<1> QED
  BY <1>1, <1>2, <1>5 DEF Memory, OptAsChecked, setup

LEMMA StartMemory ==
    ASSUME TypeOK, Memory, StartEffect, checked # NoCheck, UNCHANGED checked, SamePrune
    PROVE  Memory'
<1>1. pc = "idle" /\ pc' = "running" /\ UNCHANGED <<disk, tracker>>
  BY DEF StartEffect
<1>2. placement' = checked.placement /\ OptAsChecked'
  BY DEF SamePrune, Memory, RunOptions, OptAsChecked
<1>3. Familiar' = Familiar
  BY <1>1 DEF Familiar, tracker
<1>4. StillExact' = StillExact
  BY <1>1, SameExact DEF disk, tracker
<1> QED
  BY <1>1, <1>2, <1>3, <1>4 DEF Memory, disk

\* What a check lists is what its observations make of the stores and the lock,
\* but for what it created.
LEMMA ListedIsExact ==
    ASSUME TypeOK, Checking, pc = "closing", opt.prune = "DRY_RUN", ok, ForgetSession,
           checked'.registered = registered, checked'.accessed = accessed,
           checked'.opt = opt, checked'.listed = preview,
           checked'.unsynced = created \ lock
    PROVE  StillExact'
<1>1. ASSUME NEW t, NEW k \in KeysAt(t, created) \ KeysAt(t, lock)
      PROVE  <<t, k>> \in UnsyncedKeys'
  <2>1. PICK p \in created : p[1] = t /\ KeyOf[p[2]] = k
    BY <1>1 DEF KeysAt
  <2>2. p \in created \ lock
    BY <1>1, <2>1 DEF KeysAt
  <2> QED
    BY <2>1, <2>2 DEF UnsyncedKeys
<1>2. \A t : Drift(t).orphan = ((StoredAt(t) \ KeysAt(t, lock)) \cap OwnedAt(t))
                                  \ (KeysAt(t, created) \ KeysAt(t, lock))
  BY DEF Drift, DiffBackend
<1>3. checked'.listed = Prunable(FoundOrphans({})) /\ lockState = "ok"
  BY DEF Checking
<1>4. UNCHANGED disk /\ created' = {}
  BY DEF ForgetSession
<1> DEFINE Loose == {o \in Registered \X Keys :
                        /\ o[2] \in StoredAt(o[1]) \ KeysAt(o[1], lock)
                        /\ o[2] \in OwnedAt(o[1])
                        /\ opt.shared \/ o[1] \in LocalTargets}
<1>5. StillOrphans' = Loose
  BY <1>4 DEF StillOrphans, Registered, StoredAt, OwnedAt, KeysAt, ModulesAt, disk
<1>6. /\ Prunable(FoundOrphans({})) \subseteq Loose
      /\ \A o \in Loose \ Prunable(FoundOrphans({})) :
            o[2] \in KeysAt(o[1], created) \ KeysAt(o[1], lock)
  BY <1>2, <1>3 DEF Prunable, FoundOrphans
<1>7. \A o \in Loose \ Prunable(FoundOrphans({})) : o \in UnsyncedKeys'
  BY <1>1, <1>6
<1> QED
  BY <1>3, <1>4, <1>5, <1>6, <1>7 DEF StillExact

LEMMA RememberMemory ==
    ASSUME TypeOK, Phase, Checking, ForgetSession, Remember, checked' # NoCheck
    PROVE  Memory'
<1>1. /\ pc = "closing" /\ opt.prune = "DRY_RUN" /\ ok
      /\ checked' = [suite |-> suite, placement |-> placement, opt |-> opt,
                     registered |-> registered, accessed |-> accessed,
                     collection |-> collection, unsynced |-> created \ lock,
                     listed |-> preview]
  BY DEF Remember
<1>2. /\ checked'.opt = opt /\ checked'.placement = placement
      /\ checked'.registered = registered /\ checked'.accessed = accessed
      /\ checked'.collection = collection /\ checked'.unsynced = created \ lock
      /\ checked'.listed = preview
  BY <1>1
<1>3. pc' = "idle" /\ UNCHANGED disk
  BY DEF ForgetSession
<1>4. opt \in RunOptions /\ accessed \in Seen
  BY SessionAssumption DEF TypeOK
<1>5. /\ lockState = "ok"
      /\ \A p \in accessed : KeyOf[p[2]] \in store[StoreOf[placement[NodeOf[p[2]]]]]
      /\ WillRebuild(opt) => lock = RebuiltLock(lock, accessed, collection)
  BY <1>1 DEF Checking, Stored
<1>6. StillExact'
  BY <1>1, <1>2, ListedIsExact
<1> QED
  BY <1>2, <1>3, <1>4, <1>5, <1>6 DEF Memory, disk

LEMMA NextMemory ==
    ASSUME TypeOK, Phase, Checking, Memory, [PreviewNext]_<<vars, checked>>
    PROVE  Memory'
<1>1. CASE checked' = NoCheck
  BY <1>1 DEF Memory
<1>2. CASE pc # "idle" /\ pc' # "idle" /\ Next /\ UNCHANGED checked /\ checked # NoCheck
  <2>1. CASE RunStep
    BY <1>2, <2>1, RunMemory
  <2>2. CASE KeepLock \/ RefuseLock \/ AppendLock \/ RebuildLock \/ LockRaises
    BY <1>2, <2>2, LockMemory
  <2>3. CASE FinishStep /\ pc # "lock"
    <3>1. pc' \notin {"idle", "running", "lock", "prune"} /\ UNCHANGED setup
      BY <1>2, <2>3, AtTheEnd DEF FinishStep, ForgetSession, FinishEffect, Verify, KeepLock,
         RefuseLock, AppendLock, RebuildLock, LockRaises, PruneDelete, PruneDryRun,
         DeleteOrphan, DeleteRaises, ReadRaises, EndPrune, Close
    <3> QED
      BY <1>2, <3>1 DEF Memory, OptAsChecked, setup
  <2>4. ~Environment
    BY <1>2, BetweenSessions DEF ForgetSession, StartEffect, BetweenEffect
  <2>5. FinishStep /\ pc = "lock" =>
          KeepLock \/ RefuseLock \/ AppendLock \/ RebuildLock \/ LockRaises
    BY DEF FinishStep, Verify, PruneDelete, PruneDryRun, DeleteOrphan, DeleteRaises,
       ReadRaises, EndPrune, Close
  <2> QED
    BY <1>2, <2>1, <2>2, <2>3, <2>4, <2>5 DEF Next, SessionStep
<1>3. CASE /\ pc = "idle" /\ pc' # "idle" /\ Next
           /\ UNCHANGED checked /\ checked # NoCheck /\ SamePrune
  <2>1. StartEffect
    BY <1>3, WhileRunning, AtTheEnd, BetweenSessions DEF RunEffect, FinishEffect,
       ForgetSession, BetweenEffect, Next, SessionStep
  <2> QED
    BY <1>3, <2>1, StartMemory
<1>4. CASE pc # "idle" /\ pc' = "idle" /\ Next /\ Remember /\ checked' # NoCheck
  <2>1. ForgetSession
    BY <1>4, WhileRunning, AtTheEnd, BetweenSessions DEF RunEffect, FinishEffect,
       StartEffect, BetweenEffect, Next, SessionStep
  <2> QED
    BY <1>4, <2>1, RememberMemory
<1>5. CASE UNCHANGED <<vars, checked>>
  <2>1. UNCHANGED <<disk, setup, tracker, pc, checked>>
    BY <1>5 DEF vars
  <2>2. /\ Familiar' = Familiar /\ StillExact' = StillExact /\ SameRun' = SameRun
        /\ OptAsChecked' = OptAsChecked
    BY <2>1, SameExact DEF Familiar, SameRun, OptAsChecked, disk, setup, tracker
  <2> QED
    BY <2>1, <2>2 DEF Memory, disk, setup
<1> QED
  BY <1>1, <1>2, <1>3, <1>4, <1>5 DEF PreviewNext

LEMMA StepForetold ==
    ASSUME TypeOK, Memory, NEW u \in SUBSET Targets, PruneDelete(u), SameRun
    PROVE  /\ {o \in checked.listed : o[1] \notin u} \subseteq pending'
           /\ pending' \ {o \in checked.listed : o[1] \notin u} \subseteq UnsyncedKeys
<1>1. /\ pc = "prune" /\ pending' = Prunable(FoundOrphans(u))
      /\ lockState = "ok" /\ StillExact
      /\ opt.shared = checked.opt.shared
  BY DEF PruneDelete, Memory, SameRun, OptAsChecked
<1>2. \A t : Drift(t).orphan = (StoredAt(t) \ KeysAt(t, lock)) \cap OwnedAt(t)
  BY <1>1 DEF StillExact, Drift, DiffBackend, KeysAt
<1>3. StillOrphans =
        {o \in Registered \X Keys :
            /\ o[2] \in StoredAt(o[1]) \ KeysAt(o[1], lock)
            /\ o[2] \in OwnedAt(o[1])
            /\ opt.shared \/ o[1] \in LocalTargets}
  BY <1>1 DEF SameRun, StillOrphans, Registered, StoredAt, OwnedAt
<1>4. pending' = {o \in StillOrphans : o[1] \notin u}
  BY <1>1, <1>2, <1>3 DEF Prunable, FoundOrphans
<1> QED
  BY <1>1, <1>4 DEF StillExact

\* When `ditto prune` follows a `ditto prune --check`, with nothing in between,
\* and goes as the check did, it sets out to delete all that the check listed,
\* in the targets it can read, and besides at most what the check itself
\* created and left out of the lock.
THEOREM CheckForetellsHolds == PreviewSpec => CheckForetells
<1> DEFINE Inv == TypeOK /\ Phase /\ Observed /\ Checking /\ Memory
           Foretold ==
               \A unreadable \in SUBSET Targets :
                   PruneDelete(unreadable) /\ SameRun =>
                       LET listed == {o \in checked.listed : o[1] \notin unreadable}
                       IN  /\ listed \subseteq pending'
                           /\ pending' \ listed \subseteq
                                  {<<p[1], KeyOf[p[2]]>> : p \in checked.unsynced}
<1>1. PreviewInit => Inv
  BY InitType, InitPhase, InitObserved, InitChecking, InitMemory DEF PreviewInit
<1>2. Inv /\ [PreviewNext]_<<vars, checked>> => Inv'
  <2>1. [PreviewNext]_<<vars, checked>> => [Next]_vars
    BY DEF PreviewNext
  <2> QED
    BY <2>1, NextType, NextPhase, NextObserved, NextChecking, NextMemory
<1>3. Inv => [Foretold]_<<vars, checked>>
  BY StepForetold DEF UnsyncedKeys
<1>4. CheckForetells <=> [][Foretold]_<<vars, checked>>
  BY DEF CheckForetells
<1> QED
  BY <1>1, <1>2, <1>3, <1>4, PTL DEF PreviewSpec

============================================================================
