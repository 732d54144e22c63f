------------------------ MODULE AtomicWrite_proofs ------------------------
(***************************************************************************)
(* write_atomically for any number of calls, any data, bits and umasks:    *)
(* the temporary file's life, and that it implements the instant           *)
(* replacement of AtomicFile.                                              *)
(***************************************************************************)
EXTENDS AtomicWrite, TLAPS

\* What a call's position says of its temporary file.  The implementation
\* proof needs TempHeld: what Replace moves to the path is whole.
TempHeld ==
    \A c \in Calls :
        /\ at[c] \in {"write", "chmod", "replace"} => tmp[c] # Absent
        /\ at[c] \in {"chmod", "replace"} => tmp[c].data = DataOf[c]
        /\ at[c] \in {"stat", "open", "leave", "returned", "raised"} => tmp[c] = Absent

TempBits ==
    \A c \in Calls :
        /\ at[c] = "chmod" => found[c] # Absent
        /\ at[c] = "replace" /\ found[c] # Absent => tmp[c].bits = found[c]

PathWhole == path # Absent => path.data \in Written

IInv == FileTypeOK /\ TempHeld /\ TempBits /\ PathWhole /\ NeverWider

----------------------------------------------------------------------------

LEMMA InitIInv == FileInit => IInv
<1> SUFFICES ASSUME FileInit PROVE IInv
  OBVIOUS
<1> USE AtomicAssumption DEF FileInit
<1>1. FileTypeOK
  BY DEF FileTypeOK, Files, BitSets, Written, Running, InTry
<1>2. TempHeld /\ TempBits
  BY DEF TempHeld, TempBits
<1>3. PathWhole
  BY DEF PathWhole
<1>4. NeverWider
  BY DEF NeverWider
<1> QED
  BY <1>1, <1>2, <1>3, <1>4 DEF IInv

LEMMA NextIInv == IInv /\ [FileNext]_fileVars => IInv'
<1> SUFFICES ASSUME IInv, [FileNext]_fileVars PROVE IInv'
  OBVIOUS
<1> USE AtomicAssumption DEF IInv, Goto
<1>1. ASSUME UNCHANGED fileVars PROVE IInv'
  BY <1>1 DEF fileVars, FileTypeOK, TempHeld, TempBits, PathWhole, NeverWider
<1>2. ASSUME NEW c \in Calls, Stat(c) PROVE IInv'
  <2>1. FileTypeOK'
    BY <1>2 DEF FileTypeOK, Stat, Files, Running, InTry
  <2>2. TempHeld' /\ TempBits' /\ PathWhole'
    BY <1>2 DEF FileTypeOK, Stat, TempHeld, TempBits, PathWhole
  <2>3. NeverWider'
    BY <1>2 DEF FileTypeOK, Stat, NeverWider, TempHeld
  <2> QED
    BY <2>1, <2>2, <2>3
<1>3. ASSUME NEW c \in Calls, Open(c) PROVE IInv'
  <2>1. CreationBits(c) \in BitSets /\ CreationBits(c) \subseteq
          IF found[c] = Absent THEN Bits \ Umask[c] ELSE found[c]
    BY DEF FileTypeOK, CreationBits, BitSets
  <2>2. FileTypeOK'
    BY <1>3, <2>1 DEF FileTypeOK, Open, Files, Running, InTry
  <2>3. TempHeld' /\ TempBits' /\ PathWhole'
    BY <1>3, <2>1, <2>2 DEF FileTypeOK, Open, TempHeld, TempBits, PathWhole, Files
  <2>4. NeverWider'
    BY <1>3, <2>1 DEF FileTypeOK, Open, NeverWider
  <2> QED
    BY <2>2, <2>3, <2>4
<1>4. ASSUME NEW c \in Calls, WriteTmp(c) PROVE IInv'
  <2>1. /\ tmp[c] \in Files
        /\ tmp' = [tmp EXCEPT ![c] = [data |-> DataOf[c], bits |-> tmp[c].bits]]
    BY <1>4 DEF FileTypeOK, WriteTmp, TempHeld
  <2>2. /\ tmp'[c] \in Files
        /\ tmp'[c].data = DataOf[c]
        /\ tmp'[c].bits = tmp[c].bits
        /\ \A d \in Calls \ {c} : tmp'[d] = tmp[d]
    BY <2>1 DEF FileTypeOK, Files, Written
  <2>3. FileTypeOK'
    BY <1>4, <2>1, <2>2 DEF FileTypeOK, WriteTmp, Running, InTry
  <2>4. TempHeld'
    BY <1>4, <2>2 DEF FileTypeOK, WriteTmp, TempHeld
  <2>5. TempBits' /\ PathWhole'
    BY <1>4, <2>2 DEF FileTypeOK, WriteTmp, TempBits, PathWhole
  <2>6. NeverWider'
    BY <1>4, <2>1, <2>2 DEF FileTypeOK, WriteTmp, NeverWider
  <2> QED
    BY <2>3, <2>4, <2>5, <2>6
<1>5. ASSUME NEW c \in Calls, Chmod(c) PROVE IInv'
  <2>1. /\ tmp[c] \in Files
        /\ found[c] \in BitSets
        /\ tmp' = [tmp EXCEPT ![c] = [data |-> tmp[c].data, bits |-> found[c]]]
    BY <1>5 DEF FileTypeOK, Chmod, TempHeld, TempBits
  <2>2. /\ tmp'[c] \in Files
        /\ tmp'[c].data = tmp[c].data
        /\ tmp'[c].bits = found[c]
        /\ \A d \in Calls \ {c} : tmp'[d] = tmp[d]
    BY <2>1 DEF FileTypeOK, Files
  <2>3. FileTypeOK'
    BY <1>5, <2>1, <2>2 DEF FileTypeOK, Chmod, Running, InTry
  <2>4. TempHeld'
    BY <1>5, <2>2 DEF FileTypeOK, Chmod, TempHeld
  <2>5. TempBits' /\ PathWhole'
    BY <1>5, <2>2 DEF FileTypeOK, Chmod, TempBits, PathWhole
  <2>6. NeverWider'
    BY <1>5, <2>1, <2>2 DEF FileTypeOK, Chmod, NeverWider
  <2> QED
    BY <2>3, <2>4, <2>5, <2>6
<1>6. ASSUME NEW c \in Calls, Replace(c) PROVE IInv'
  <2>1. tmp[c] \in Files /\ tmp[c].data = DataOf[c]
    BY <1>6 DEF FileTypeOK, Replace, TempHeld
  <2>2. FileTypeOK'
    BY <1>6, <2>1 DEF FileTypeOK, Replace, Running, InTry
  <2>3. TempHeld' /\ TempBits'
    BY <1>6 DEF FileTypeOK, Replace, TempHeld, TempBits
  <2>4. PathWhole'
    BY <1>6, <2>1 DEF Replace, PathWhole, Written
  <2>5. NeverWider'
    BY <1>6 DEF FileTypeOK, Replace, NeverWider
  <2> QED
    BY <2>2, <2>3, <2>4, <2>5
<1>7. ASSUME NEW c \in Calls,
             Leave(c) \/ RaiseBeforeTry(c) \/ RaiseInTry(c)
               \/ CleanupRaises(c) \/ Kill(c)
      PROVE IInv'
  <2>1. /\ UNCHANGED <<path, tmp, found>>
        /\ \E s \in {"returned", "raised", "cleanup", "leaked", "killed"} :
             /\ at' = [at EXCEPT ![c] = s]
             /\ s = "returned" => at[c] = "leave"
             /\ s = "raised" => at[c] \in {"stat", "open"}
    BY <1>7 DEF Leave, RaiseBeforeTry, RaiseInTry, CleanupRaises, Kill
  <2>2. FileTypeOK'
    BY <2>1 DEF FileTypeOK, Running, InTry, Ended
  <2>3. TempHeld' /\ TempBits'
    BY <2>1 DEF FileTypeOK, TempHeld, TempBits
  <2>4. PathWhole' /\ NeverWider'
    BY <2>1 DEF FileTypeOK, PathWhole, NeverWider
  <2> QED
    BY <2>2, <2>3, <2>4
<1>8. ASSUME NEW c \in Calls, Cleanup(c) PROVE IInv'
  <2>1. FileTypeOK'
    BY <1>8 DEF FileTypeOK, Cleanup, Ended
  <2>2. TempHeld' /\ TempBits' /\ PathWhole'
    BY <1>8 DEF FileTypeOK, Cleanup, TempHeld, TempBits, PathWhole
  <2>3. NeverWider'
    BY <1>8 DEF FileTypeOK, Cleanup, NeverWider
  <2> QED
    BY <2>1, <2>2, <2>3
<1> QED
  BY <1>1, <1>2, <1>3, <1>4, <1>5, <1>6, <1>7, <1>8 DEF FileNext, WriteStep

LEMMA AlwaysIInv == FileSpec => []IInv
BY InitIInv, NextIInv, PTL DEF FileSpec

----------------------------------------------------------------------------

\* Every variable keeps its type: file contents, bits and positions.
THEOREM TypeCorrect == FileSpec => []FileTypeOK
<1>1. IInv => FileTypeOK
  BY DEF IInv
<1> QED
  BY <1>1, AlwaysIInv, PTL

\* No temporary file is ever readable by more users than the path was.
THEOREM NeverWiderHolds == FileSpec => []NeverWider
<1>1. IInv => NeverWider
  BY DEF IInv
<1> QED
  BY <1>1, AlwaysIInv, PTL

\* A call that returned or raised left no temporary file behind.
THEOREM NoLeftoverHolds == FileSpec => []NoLeftover
<1>1. IInv => NoLeftover
  BY DEF IInv, NoLeftover, TempHeld
<1> QED
  BY <1>1, AlwaysIInv, PTL

\* The replacement has the bits its call found at the path.
THEOREM KeepsBitsHolds == FileSpec => KeepsBits
<1>1. IInv /\ [FileNext]_fileVars =>
        [\A c \in Calls :
            Replace(c) /\ found[c] # Absent => path'.bits = found[c]]_fileVars
  BY DEF IInv, TempBits, Replace, Goto
<1> QED
  BY <1>1, AlwaysIInv, PTL DEF FileSpec, KeepsBits

----------------------------------------------------------------------------

\* Where the abstract call stands, position by position.
LEMMA StatusOf ==
    ASSUME NEW c \in Calls, FileTypeOK
    PROVE  /\ at[c] \in {"stat", "open", "write", "chmod", "replace"}
                => Status(c) = "running"
           /\ at[c] = "leave" => Status(c) = "committed"
           /\ at[c] = "returned" => Status(c) = "returned"
           /\ at[c] \in {"raised", "leaked", "killed"} => Status(c) = "stopped"
           /\ at[c] = "cleanup" /\ tmp[c] = Absent => Status(c) = "committed"
           /\ at[c] = "cleanup" /\ tmp[c] # Absent => Status(c) = "running"
BY DEF Status

LEMMA ImplementsInit == FileInit => Atomic!Init
<1> SUFFICES ASSUME FileInit PROVE Atomic!Init
  OBVIOUS
<1>1. FileTypeOK /\ PathWhole
  BY InitIInv DEF IInv
<1>2. \A c \in Calls : Status(c) = "running"
  BY <1>1, StatusOf DEF FileInit
<1>3. (IF path = Absent THEN Absent ELSE path.data) \in Written \cup {Absent}
  BY <1>1 DEF PathWhole
<1> QED
  BY <1>2, <1>3 DEF Atomic!Init, Atomic!Written, Written

\* Only the statuses of c may differ after a step of c.
LEMMA OthersKeepStatus ==
    ASSUME IInv, IInv', NEW c \in Calls, NEW d \in Calls \ {c},
           at'[d] = at[d], tmp'[d] = tmp[d]
    PROVE  Status(d)' = Status(d)
BY DEF Status

LEMMA ImplementsNext == IInv /\ IInv' /\ [FileNext]_fileVars => [Atomic!Next]_(Atomic!vars)
<1> DEFINE value == IF path = Absent THEN Absent ELSE path.data
<1> DEFINE status == [c \in Calls |-> Status(c)]
<1> SUFFICES ASSUME IInv, IInv', [FileNext]_fileVars
             PROVE  Atomic!Next \/ (value' = value /\ status' = status)
  BY DEF Atomic!vars
<1> USE DEF IInv, Goto
<1>1. CASE UNCHANGED fileVars
  BY <1>1 DEF fileVars, Status
<1>2. ASSUME NEW c \in Calls, NEW s,
             Status(c)' = s, \A d \in Calls \ {c} : Status(d)' = Status(d)
      PROVE  status' = [status EXCEPT ![c] = s]
  BY <1>2
<1>3. ASSUME NEW c \in Calls, WriteStep(c) \/ Kill(c)
      PROVE  \A d \in Calls \ {c} : Status(d)' = Status(d)
  <2> SUFFICES ASSUME NEW d \in Calls \ {c} PROVE Status(d)' = Status(d)
    OBVIOUS
  <2>1. at'[d] = at[d] /\ tmp'[d] = tmp[d]
    BY <1>3 DEF WriteStep, Stat, Open, WriteTmp, Chmod, Replace, Leave, RaiseBeforeTry,
                RaiseInTry, Cleanup, CleanupRaises, Kill, FileTypeOK
  <2> QED
    BY <2>1, OthersKeepStatus
<1>4. ASSUME NEW c \in Calls, Stat(c) \/ Open(c) \/ WriteTmp(c) \/ Chmod(c)
      PROVE  value' = value /\ status' = status
  <2>1. path' = path
    BY <1>4 DEF Stat, Open, WriteTmp, Chmod
  <2>2. /\ at[c] \in {"stat", "open", "write", "chmod"}
        /\ at'[c] \in {"open", "write", "chmod", "replace"}
    BY <1>4 DEF Stat, Open, WriteTmp, Chmod, FileTypeOK
  <2>3. Status(c) = "running" /\ Status(c)' = "running"
    BY <2>2, StatusOf DEF Status
  <2>4. status' = status
    BY <2>3, <1>3, <1>4 DEF WriteStep
  <2> QED
    BY <2>1, <2>4
<1>5. ASSUME NEW c \in Calls, Replace(c) PROVE Atomic!Commit(c)
  <2>1. tmp[c] # Absent /\ tmp[c].data = DataOf[c] /\ path' = tmp[c]
    BY <1>5 DEF Replace, TempHeld
  <2>2. value' = DataOf[c]
    BY <2>1
  <2>3. Status(c) = "running" /\ Status(c)' = "committed"
    BY <1>5, StatusOf DEF Replace, FileTypeOK, Status
  <2>4. status' = [status EXCEPT ![c] = "committed"]
    BY <2>3, <1>2, <1>3, <1>5 DEF WriteStep
  <2> QED
    BY <2>2, <2>3, <2>4 DEF Atomic!Commit, Atomic!Goto
<1>6. ASSUME NEW c \in Calls, Leave(c) PROVE Atomic!Return(c)
  <2>1. Status(c) = "committed" /\ Status(c)' = "returned" /\ value' = value
    BY <1>6, StatusOf DEF Leave, FileTypeOK, Status
  <2>2. status' = [status EXCEPT ![c] = "returned"]
    BY <2>1, <1>2, <1>3, <1>6 DEF WriteStep
  <2> QED
    BY <2>1, <2>2 DEF Atomic!Return, Atomic!Goto
<1>7. ASSUME NEW c \in Calls, RaiseInTry(c)
      PROVE  value' = value /\ status' = status
  <2>1. /\ at[c] \in InTry /\ at'[c] = "cleanup"
        /\ path' = path /\ tmp' = tmp
    BY <1>7 DEF RaiseInTry, FileTypeOK
  <2>2. CASE at[c] = "leave"
    <3>1. Status(c) = "committed" /\ Status(c)' = "committed"
      BY <2>1, <2>2, StatusOf DEF Status, TempHeld
    <3> QED
      BY <3>1, <2>1, <1>3, <1>7 DEF WriteStep
  <2>3. CASE at[c] \in {"write", "chmod", "replace"}
    <3>1. Status(c) = "running" /\ Status(c)' = "running"
      BY <2>1, <2>3, StatusOf DEF Status, TempHeld
    <3> QED
      BY <3>1, <2>1, <1>3, <1>7 DEF WriteStep
  <2> QED
    BY <2>1, <2>2, <2>3 DEF InTry
<1>8. ASSUME NEW c \in Calls,
             RaiseBeforeTry(c) \/ Cleanup(c) \/ CleanupRaises(c) \/ Kill(c)
      PROVE  Atomic!Stop(c)
  <2>1. /\ path' = path
        /\ at[c] \in Running
        /\ at'[c] \in {"raised", "leaked", "killed"}
    BY <1>8 DEF RaiseBeforeTry, Cleanup, CleanupRaises, Kill, FileTypeOK, Running
  <2>2. Status(c) \in {"running", "committed"}
    BY <2>1, StatusOf DEF Running, InTry
  <2>3. Status(c)' = "stopped"
    BY <2>1 DEF Status
  <2>4. status' = [status EXCEPT ![c] = "stopped"]
    BY <2>3, <1>2, <1>3, <1>8 DEF WriteStep
  <2> QED
    BY <2>1, <2>2, <2>4 DEF Atomic!Stop, Atomic!Goto
<1> QED
  BY <1>1, <1>4, <1>5, <1>6, <1>7, <1>8 DEF FileNext, WriteStep, Atomic!Next

\* In every interleaving of any number of calls, kills and failures included,
\* readers of the path see only whole contents, and a call that returned has
\* put its own there.
THEOREM Implements == FileSpec => ImplementsAtomicFile
<1>1. FileInit => Atomic!Init
  BY ImplementsInit
<1>2. IInv /\ IInv' /\ [FileNext]_fileVars => [Atomic!Next]_(Atomic!vars)
  BY ImplementsNext
<1> QED
  BY <1>1, <1>2, AlwaysIInv, PTL DEF FileSpec, Atomic!Spec, ImplementsAtomicFile

============================================================================
