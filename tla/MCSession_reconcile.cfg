CONSTANTS
    a = a
    b = b
    m = m
    n = n
    a1 = a1
    a2 = a2
    b1 = b1
    ka1 = ka1
    ka2 = ka2
    kb1 = kb1
    p = p
    q = q
    P = P
    Q = Q
    sp = sp
    sq = sq
    Tests = {a, b}
    Nodes = {m}
    Modules = {m, n}
    Entries = {a1, b1}
    Keys = {ka1, kb1}
    Backends = {p, q}
    Targets = {P, Q}
    Stores = {sp, sq}
    NodeOf <- TwoNodeOf
    Above <- NoneAbove
    ModuleOf <- SharedModuleOf
    KeyOf <- TwoKeyOf
    Under <- SharedUnder
    TargetOf <- MCTargetOf
    StoreOf <- MCStoreOf
    LocalTargets = {P}
    Placements <- BothBackends
    Options <- ReconcileOptions
    Faults = {"call", "lock", "list", "delete", "lose", "foreign", "kill"}
    MaxSessions = 2
    NoTest = NoTest
    NoBackend = NoBackend
SPECIFICATION Spec
CHECK_DEADLOCK FALSE
INVARIANTS
    PrunedMeansClean
PROPERTIES
    PrunedWereOrphans
    VerifyWritesNothing
    VerifiedIsSynced
    NoFalseDrift
