CONSTANTS
    json = json
    pandas = pandas
    pandas_csv = pandas_csv
    pandas_parquet = pandas_parquet
    cli = cli
    Bad = Bad
    e1 = e1
    e2 = e2
    e3 = e3
    e4 = e4
    e5 = e5
    e6 = e6
    e7 = e7
    old = old
    b1 = b1
    b2 = b2
    b3 = b3
    b4 = b4
    ditto = ditto
    other = other
    Names = {json, pandas, pandas_csv, pandas_parquet, cli, Bad}
    Valid = {json, pandas, pandas_csv, pandas_parquet, cli}
    Reserved = {cli}
    Namespace <- MCNamespace
    EntryPoints = {e1, e2, e3, e4, e5, e6, e7}
    NameOf <- MCNameOf
    Legacy = {old}
    BackendPoints = {b1, b2, b3, b4}
    SchemeOf <- MCSchemeOf
    Schemes = {"redis", "file", "s3_"}
    Malformed = {"s3_"}
    PluginPoints = {ditto, other}
    PluginName <- MCPluginName
    PluginNames = {"recording"}
    Ours = {ditto}
    Broken = {e2, e5, b2}
SPECIFICATION DoctorSpec
CHECK_DEADLOCK FALSE
INVARIANTS
    ProblemsAreComplete
    OneRecorderPerName
    NamespacesAreClear
    DoctorAgrees
