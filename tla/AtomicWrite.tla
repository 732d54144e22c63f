---------------------------- MODULE AtomicWrite ----------------------------
(***************************************************************************)
(* ditto._atomic.write_atomically, one system call per step, for several   *)
(* calls on one path: processes of a shared .ditto directory, or of one    *)
(* ditto.lock.  Any step may raise, and any process may be killed between  *)
(* two steps.  A call's temporary file has a name of its own (a fresh      *)
(* uuid4, created with O_EXCL), so it is indexed by the call.              *)
(***************************************************************************)
EXTENDS Naturals

CONSTANTS
    Calls,    \* the calls of write_atomically on one path
    DataOf,   \* [Calls -> data]: the bytes each call writes
    Bits,     \* the permission bits of 0o666
    Umask,    \* [Calls -> SUBSET Bits]: the umask of the calling process
    Unfinished, \* the contents of a file still being written
    Absent    \* no file, no mode

Written == {DataOf[c] : c \in Calls}
BitSets == SUBSET Bits
Files == [data : Written \cup {Unfinished}, bits : BitSets]

ASSUME AtomicAssumption ==
    /\ Umask \in [Calls -> BitSets]
    /\ Unfinished \notin Written
    /\ \A v \in Files \cup BitSets \cup Written : v # Absent

VARIABLES
    path,     \* the file at the path, or Absent
    tmp,      \* tmp[c]: the temporary file of call c, or Absent
    found,    \* found[c]: `mode`, the bits c found at the path, or Absent
    at        \* at[c]: the statement c is at

fileVars == <<path, tmp, found, at>>

InTry == {"write", "chmod", "replace", "leave"}
Running == {"stat", "open", "cleanup"} \cup InTry
Ended == {"returned", "raised", "leaked", "killed"}

FileTypeOK ==
    /\ path \in Files \cup {Absent}
    /\ tmp \in [Calls -> Files \cup {Absent}]
    /\ found \in [Calls -> BitSets \cup {Absent}]
    /\ at \in [Calls -> Running \cup Ended]

FileInit ==
    /\ path \in [data : Written, bits : BitSets] \cup {Absent}
    /\ tmp = [c \in Calls |-> Absent]
    /\ found = [c \in Calls |-> Absent]
    /\ at = [c \in Calls |-> "stat"]

Goto(c, from, to) ==
    /\ at[c] = from
    /\ at' = [at EXCEPT ![c] = to]

----------------------------------------------------------------------------
(***************************************************************************)
(* Faulty variants.  Each stands for a slip the code could have: put in    *)
(* the place of the definition its name starts with, it makes one of the   *)
(* properties below fail.                                                  *)
(***************************************************************************)

\* All of st_mode is kept, the bits of the file's type included.
Stat_Type(c) ==
    /\ Goto(c, "stat", "open")
    /\ found' = [found EXCEPT ![c] =
                    IF path = Absent THEN Absent ELSE path.bits \cup {"S_IFREG"}]
    /\ UNCHANGED <<path, tmp>>

\* The temporary file is created as `open` would, and narrowed later.
CreationBits_Default(c) == Bits \ Umask[c]

\* The data is written straight to the path.
Open_InPlace(c) ==
    /\ Goto(c, "open", "write")
    /\ tmp' = [tmp EXCEPT ![c] = [data |-> Unfinished, bits |-> {}]]
    /\ path' = tmp'[c]
    /\ UNCHANGED found

\* No chmod: the umask narrows a file at each rewrite.
WriteTmp_NoChmod(c) ==
    /\ Goto(c, "write", "replace")
    /\ tmp' = [tmp EXCEPT ![c] = [data |-> DataOf[c], bits |-> @.bits]]
    /\ UNCHANGED <<path, found>>

\* os.replace is outside the try block, as in fsspec.utils.atomic_write.
RaiseInTry_ReplaceOutside(c) ==
    /\ \/ \E s \in InTry \ {"replace"} : Goto(c, s, "cleanup")
       \/ Goto(c, "replace", "raised")
    /\ UNCHANGED <<path, tmp, found>>

\* A failed write is tried again, for ever.
Cleanup_Retry(c) ==
    /\ Goto(c, "cleanup", "open")
    /\ tmp' = [tmp EXCEPT ![c] = Absent]
    /\ UNCHANGED <<path, found>>

----------------------------------------------------------------------------

\* mode = path.stat().st_mode, or Absent when there is no file.
Stat(c) ==
    /\ Goto(c, "stat", "open")
    /\ found' = [found EXCEPT ![c] = IF path = Absent THEN Absent ELSE path.bits]
    /\ UNCHANGED <<path, tmp>>

\* os.open(tmp, O_CREAT | O_EXCL, mode): the kernel takes the umask's bits off.
CreationBits(c) == (IF found[c] = Absent THEN Bits ELSE found[c]) \ Umask[c]

Open(c) ==
    /\ Goto(c, "open", "write")
    /\ tmp' = [tmp EXCEPT ![c] = [data |-> Unfinished, bits |-> CreationBits(c)]]
    /\ UNCHANGED <<path, found>>

\* f.write(data), then the file is closed.
WriteTmp(c) ==
    /\ Goto(c, "write", IF found[c] = Absent THEN "replace" ELSE "chmod")
    /\ tmp' = [tmp EXCEPT ![c] = [data |-> DataOf[c], bits |-> @.bits]]
    /\ UNCHANGED <<path, found>>

\* os.chmod(tmp, mode): the bits the umask removed.
Chmod(c) ==
    /\ Goto(c, "chmod", "replace")
    /\ tmp' = [tmp EXCEPT ![c] = [data |-> @.data, bits |-> found[c]]]
    /\ UNCHANGED <<path, found>>

\* os.replace(tmp, path)
Replace(c) ==
    /\ Goto(c, "replace", "leave")
    /\ path' = tmp[c]
    /\ tmp' = [tmp EXCEPT ![c] = Absent]
    /\ UNCHANGED found

Leave(c) ==
    /\ Goto(c, "leave", "returned")
    /\ UNCHANGED <<path, tmp, found>>

\* stat or open raises: there is no file of ours to remove.
RaiseBeforeTry(c) ==
    /\ \/ Goto(c, "stat", "raised")
       \/ Goto(c, "open", "raised")
    /\ UNCHANGED <<path, tmp, found>>

\* Anything in the try block raises, an interrupt after os.replace included.
RaiseInTry(c) ==
    /\ \E s \in InTry : Goto(c, s, "cleanup")
    /\ UNCHANGED <<path, tmp, found>>

\* tmp.unlink(missing_ok=True); raise
Cleanup(c) ==
    /\ Goto(c, "cleanup", "raised")
    /\ tmp' = [tmp EXCEPT ![c] = Absent]
    /\ UNCHANGED <<path, found>>

\* The unlink itself raises.
CleanupRaises(c) ==
    /\ Goto(c, "cleanup", "leaked")
    /\ UNCHANGED <<path, tmp, found>>

\* SIGKILL, power loss: whatever is on disk stays there.
Kill(c) ==
    /\ at[c] \in Running
    /\ at' = [at EXCEPT ![c] = "killed"]
    /\ UNCHANGED <<path, tmp, found>>

WriteStep(c) ==
    \/ Stat(c) \/ Open(c) \/ WriteTmp(c) \/ Chmod(c) \/ Replace(c) \/ Leave(c)
    \/ RaiseBeforeTry(c) \/ RaiseInTry(c) \/ Cleanup(c) \/ CleanupRaises(c)

FileNext == \E c \in Calls : WriteStep(c) \/ Kill(c)

\* A call is one thread running straight-line code: it does not stop between
\* two statements for ever unless its process is killed.
Fairness == \A c \in Calls : WF_fileVars(WriteStep(c))

FileSpec == FileInit /\ [][FileNext]_fileVars /\ Fairness

----------------------------------------------------------------------------

\* "never readable by more users than path is, even while data is being
\* written": a temporary file, one left behind by a kill included, has no bit
\* the call did not find at the path (or, with no file there, that an ordinary
\* open would not give).
NeverWider ==
    \A c \in Calls :
        tmp[c] # Absent =>
            tmp[c].bits \subseteq
                IF found[c] = Absent THEN Bits \ Umask[c] ELSE found[c]

\* A call that ends in its own code leaves no temporary file, whichever
\* statement raised; only a kill or a failing unlink does.
NoLeftover ==
    \A c \in Calls : at[c] \in {"returned", "raised"} => tmp[c] = Absent

\* The replacement gets exactly the bits its call found at the path, whatever
\* its umask and whatever the other calls put there meanwhile.
KeepsBits ==
    [][\A c \in Calls :
        Replace(c) /\ found[c] # Absent => path'.bits = found[c]]_fileVars

\* The instant-replacement file, as the callers see it.
Status(c) ==
    CASE at[c] = "returned" -> "returned"
      [] at[c] \in {"raised", "leaked", "killed"} -> "stopped"
      [] at[c] = "leave" -> "committed"
      [] at[c] = "cleanup" /\ tmp[c] = Absent -> "committed"
      [] OTHER -> "running"

Atomic == INSTANCE AtomicFile WITH
    value  <- IF path = Absent THEN Absent ELSE path.data,
    status <- [c \in Calls |-> Status(c)]

\* write_atomically implements the instant replacement: readers of the path
\* never see a half-written or emptied file, in any interleaving of calls.
ImplementsAtomicFile == Atomic!Spec

\* Every call returns, raises or is killed.
EveryWriteEnds == \A c \in Calls : <>(at[c] \in Ended)

============================================================================
