------------------------------ MODULE MCDoctor ------------------------------
(* Recorders: bare names (one of them reserved, one malformed), two names  *)
(* in the namespace of one of them, and two plugins with the same name, of *)
(* which one does not import.  Backends: a scheme two plugins register,    *)
(* one that does not import, "file" and a malformed one.  Pytest plugins:  *)
(* ditto's, and another of its name.                                       *)
EXTENDS Doctor, TLC

CONSTANTS json, pandas, pandas_csv, pandas_parquet, cli, Bad,
          e1, e2, e3, e4, e5, e6, e7, old, b1, b2, b3, b4, ditto, other

MCNamespace ==
    [n \in Names |-> IF n \in {pandas_csv, pandas_parquet} THEN pandas ELSE n]
MCNameOf ==
    e1 :> json @@ e2 :> json @@ e3 :> pandas @@ e4 :> pandas_csv
    @@ e5 :> pandas_parquet @@ e6 :> cli @@ e7 :> Bad
MCSchemeOf == b1 :> "redis" @@ b2 :> "redis" @@ b3 :> "file" @@ b4 :> "s3_"
MCPluginName == ditto :> "recording" @@ other :> "recording"

============================================================================
