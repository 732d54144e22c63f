CONSTANTS
    a = a
    b = b
    m = m
    n = n
    a1 = a1
    a2 = a2
    b1 = b1
    ka1 = ka1
    ka2 = ka2
    kb1 = kb1
    p = p
    q = q
    P = P
    Q = Q
    sp = sp
    sq = sq
    Tests = {a, b}
    Nodes = {m}
    Modules = {m, n}
    Entries = {a1, b1}
    Keys = {ka1, kb1}
    Backends = {p, q}
    Targets = {P}
    Stores = {sp, sq}
    NodeOf <- TwoNodeOf
    Above <- NoneAbove
    ModuleOf <- MCModuleOf
    KeyOf <- TwoKeyOf
    Under <- TwoUnder
    TargetOf <- SplitTargetOf
    StoreOf <- MCStoreOf
    LocalTargets = {}
    Placements <- SplitBackends
    Options <- SplitOptions
    Faults = {}
    MaxSessions = 2
    NoTest = NoTest
    NoBackend = NoBackend
SPECIFICATION Spec
CHECK_DEADLOCK FALSE
PROPERTIES
    NoFalseDrift
