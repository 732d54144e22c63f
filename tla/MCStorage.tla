----------------------------- MODULE MCStorage -----------------------------
(* Storing a snapshot, in three parts that run side by side: the calls of  *)
(* resolve_snapshot (Recording), the replacement of one file beneath them  *)
(* (AtomicWrite), and the mappings between the two (Stores).  A behaviour  *)
(* goes through one of the parts, while the others stay where they began.  *)
EXTENDS Recording, AtomicWrite, Stores, TLC

VARIABLE part

storageVars == <<part, vars, fileVars, storesVars>>

StorageInit ==
    /\ part \in {"calls", "file", "stores"}
    /\ Init
    /\ FileInit /\ (part # "file" => path = Absent)
    /\ StoresInit

CallsStep(A) == part = "calls" /\ A /\ UNCHANGED <<part, fileVars, storesVars>>
FileStep(A) == part = "file" /\ A /\ UNCHANGED <<part, vars, storesVars>>
StoresStep(A) == part = "stores" /\ A /\ UNCHANGED <<part, vars, fileVars>>

StorageNext == CallsStep(Next) \/ FileStep(FileNext) \/ StoresStep(StoresNext)

StorageSpec ==
    /\ StorageInit /\ [][StorageNext]_storageVars
    /\ \A p \in Procs : WF_storageVars(CallsStep(CallStep(p)))
    /\ \A c \in Calls : WF_storageVars(FileStep(WriteStep(c)))

\* Every call of write_atomically returns, raises or is killed.
WritesEnd == part = "file" => EveryWriteEnds

----------------------------------------------------------------------------
(* The calls.  Recorders that restore exactly, that restore something else *)
(* (a tuple as a list), that cannot dump and that cannot read what they    *)
(* dumped.                                                                 *)
CONSTANTS p1, p2, ka, kb, list, tuple, opaque, odd, bytes, junk

MCDumps == list :> bytes @@ tuple :> bytes @@ opaque :> Raises @@ odd :> junk
MCLoads == bytes :> list @@ junk :> Raises

\* Workers have tests, hence keys, of their own.
OwnKeys == p1 :> {ka} @@ p2 :> {kb}

----------------------------------------------------------------------------
(* The file.  Two calls that write different data with different umasks,   *)
(* and a third that writes the same data as the first.                     *)
CONSTANTS c1, c2, c3, old, new, ug, other

MCDataOf == c1 :> new @@ c2 :> old @@ c3 :> new
MCUmask == c1 :> {other} @@ c2 :> {} @@ c3 :> {ug, other}

----------------------------------------------------------------------------
(* The stores.  Two directories and a nested one, two paths of a bucket,   *)
(* one within the other, two prefixes of a database.                       *)

MCWords == {"", "repo", "ditto", "b", "team", "main", "tests", "test_api",
            "TestUsers", "deep", "x", "tmp", "t1", "t2", "t3"}

Seg(w) == <<w>>
MCBlank == <<"">>
MCHere == <<"", "">>
MCUp == <<"", "", "">>
MCTempName == <<"", "tmp">>

\* s1: tests/test_api.py::test; s2: tests/test_api.py::TestUsers::test;
\* s3: a module whose path is long.
MCModuleOf == "s1" :> <<Seg("tests"), Seg("test_api")>>
           @@ "s2" :> <<Seg("tests"), Seg("test_api")>>
           @@ "s3" :> <<Seg("tests"), Seg("deep")>>
MCClassOf == "s1" :> <<>> @@ "s2" :> <<"TestUsers">> @@ "s3" :> <<>>
MCTailOf == "s1" :> "t1" @@ "s2" :> "t2" @@ "s3" :> "t3"

\* The limits are scaled down: 24 bytes for a name, 4 of them hash.
MCModuleBytes == "s1" :> 5 @@ "s2" :> 5 @@ "s3" :> 9
MCGroupLen == "s1" :> 3 @@ "s2" :> 12 @@ "s3" :> 5
MCKeyLen == "s1" :> 2 @@ "s2" :> 1 @@ "s3" :> 9
MCRecorderLen == "s1" :> 2 @@ "s2" :> 2 @@ "s3" :> 3

MCOn == "v1" :> "disk" @@ "v2" :> "disk" @@ "v3" :> "disk"
     @@ "o1" :> "bucket" @@ "f1" :> "db" @@ "f2" :> "db"

Root == <<MCBlank, Seg("repo")>>
MCBase == "v1" :> Append(Root, <<"", "ditto">>)
       @@ "v2" :> Append(Root, Seg("x"))
       @@ "v3" :> Append(Append(Root, <<"", "ditto">>), Seg("x"))
       @@ "o1" :> <<Seg("b"), Seg("team")>>
       @@ "f1" :> <<Seg("team")>>
       @@ "f2" :> <<Seg("main")>>

\* A key out of the root and into another's, one that comes back, the root
\* itself, and a plain one.
MCRawKeys == {<<MCUp, Seg("x"), Seg("t1")>>, <<Seg("x"), MCUp, Seg("t1")>>,
              <<MCHere>>, <<Seg("x")>>}

============================================================================
