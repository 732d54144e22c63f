----------------------------- MODULE Reconcile -----------------------------
(***************************************************************************)
(* ditto._reconcile: the drift between one target's storage keys and the   *)
(* keys ditto.lock records for it.  Pure set algebra; which keys a prefix  *)
(* covers is given.                                                        *)
(***************************************************************************)

\* Faulty variant: what this run created is an orphan too, until it is locked.
DiffBackend_NoUnsynced(lockKeys, backendKeys, owned, createdKeys) ==
    [missing  |-> lockKeys \ backendKeys,
     orphan   |-> (backendKeys \ lockKeys) \cap owned,
     unsynced |-> createdKeys \ lockKeys]

\* The drift of a target, given the keys under an owned prefix.
DiffBackend(lockKeys, backendKeys, owned, createdKeys) ==
    LET drift    == (backendKeys \ lockKeys) \cap owned
        unsynced == createdKeys \ lockKeys
    IN  [missing  |-> lockKeys \ backendKeys,
         orphan   |-> drift \ unsynced,
         unsynced |-> unsynced]

HasDrift(d) == d.missing # {} \/ d.orphan # {} \/ d.unsynced # {}

============================================================================
