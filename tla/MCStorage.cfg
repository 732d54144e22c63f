CONSTANTS
    p1 = p1
    p2 = p2
    ka = ka
    kb = kb
    list = list
    tuple = tuple
    opaque = opaque
    odd = odd
    bytes = bytes
    junk = junk
    Raises = Raises
    None = None
    Procs = {p1, p2}
    Keys = {ka, kb}
    Data = {list, tuple, opaque, odd}
    Bytes = {bytes, junk}
    Dumps <- MCDumps
    Loads <- MCLoads
    KeysOf <- OwnKeys
    Losing = TRUE
    MaxRuns = 4
    c1 = c1
    c2 = c2
    c3 = c3
    old = old
    new = new
    ug = ug
    other = other
    Calls = {c1, c2, c3}
    DataOf <- MCDataOf
    Bits = {ug, other}
    Umask <- MCUmask
    Unfinished = Unfinished
    Absent = Absent
    Words <- MCWords
    Snapshots = {"s1", "s2", "s3"}
    ModuleOf <- MCModuleOf
    ClassOf <- MCClassOf
    TailOf <- MCTailOf
    ModuleBytes <- MCModuleBytes
    GroupLen <- MCGroupLen
    KeyLen <- MCKeyLen
    RecorderLen <- MCRecorderLen
    LabelGroupMax = 8
    LabelKeyMax = 4
    LabelMin = 3
    HashLength = 4
    NameMaxBytes = 24
    Media = {"disk", "bucket", "db"}
    Local = {"disk"}
    Flat = {"db"}
    Views = {"v1", "v2", "v3", "o1", "f1", "f2"}
    On <- MCOn
    Base <- MCBase
    FileScheme = {"v1", "v2"}
    RawKeys <- MCRawKeys
    Values = {"x"}
    Partial = "partial"
    Blank <- MCBlank
    Here <- MCHere
    Up <- MCUp
    TempName <- MCTempName
    MaxKeys = 2
SPECIFICATION StorageSpec
CHECK_DEADLOCK FALSE
INVARIANTS
    TypeOK
    Readable
    FileTypeOK
    NeverWider
    NoLeftover
    StoresTypeOK
    ListingAgrees
    NamesFit
    ModulesOwnTheirKeys
PROPERTIES
    ImplementsSnapshotStore
    EveryCallEnds
    KeepsBits
    ImplementsAtomicFile
    WritesEnd
    ViewsApart
    ImplementsMapping
