CONSTANTS
    a = a
    b = b
    m = m
    a1 = a1
    b1 = b1
    ka1 = ka1
    kb1 = kb1
    p = p
    P = P
    sp = sp
    Tests = {a, b}
    Nodes = {m}
    Modules = {m}
    Entries = {a1, b1}
    Keys = {ka1, kb1}
    Backends = {p}
    Targets = {P}
    Stores = {sp}
    NodeOf <- MCNodeOf
    Above <- MCAbove
    ModuleOf <- MCModuleOf
    KeyOf <- MCKeyOf
    Under <- MCUnder
    TargetOf <- MCTargetOf
    StoreOf <- MCStoreOf
    LocalTargets = {P}
    Placements <- MCPlacements
    Options <- MCOptions
    Faults = {}
    MaxSessions = 3
    NoTest = NoTest
    NoBackend = NoBackend
    NoCheck = NoCheck
SPECIFICATION PreviewSpec
CHECK_DEADLOCK FALSE
PROPERTIES
    PruneDeletesWhatCheckListed
