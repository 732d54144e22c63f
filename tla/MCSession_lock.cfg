CONSTANTS
    a = a
    b = b
    m = m
    n = n
    a1 = a1
    a2 = a2
    b1 = b1
    ka1 = ka1
    ka2 = ka2
    kb1 = kb1
    p = p
    q = q
    P = P
    Q = Q
    sp = sp
    sq = sq
    Tests = {a, b}
    Nodes = {m, n}
    Modules = {m, n}
    Entries = {a1, a2, b1}
    Keys = {ka1, ka2, kb1}
    Backends = {p}
    Targets = {P}
    Stores = {sp}
    NodeOf <- MCNodeOf
    Above <- MCAbove
    ModuleOf <- MCModuleOf
    KeyOf <- MCKeyOf
    Under <- MCUnder
    TargetOf <- OneTargetOf
    StoreOf <- OneStoreOf
    LocalTargets = {P}
    Placements <- OneBackend
    Options <- LockOptions
    Faults = {"write", "lock", "corrupt"}
    MaxSessions = 2
    NoTest = NoTest
    NoBackend = NoBackend
SPECIFICATION Spec
CHECK_DEADLOCK FALSE
INVARIANTS
    TypeOK
    RebuiltMatchesRun
PROPERTIES
    NewEntriesAreStored
    DropsOnlyGone
    SessionEnds
