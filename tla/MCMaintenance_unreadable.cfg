CONSTANTS
    root = root
    top = top
    nest = nest
    tests_ = tests_
    sub = sub
    away = away
    far = far
    old = old
    db = db
    s3 = s3
    j = j
    k = k
    tSub = tSub
    tFar = tFar
    tDb = tDb
    e1 = e1
    e2 = e2
    e3 = e3
    e4 = e4
    NoDir = NoDir
    Nowhere = Nowhere
    Dirs = {root, top, nest, tests_, sub, away, far, old}
    Root = root
    Stores = {db, s3}
    Buckets = {s3}
    Names = {j, k}
    Snapshots <- MCSnapshots
    Locks <- MCUnlocked
    Layouts <- MCClosed
    Above <- MCAbove
    Linkable = {nest, tests_, sub, old}
    Lead <- MCLead
    DotDitto = {top, nest, sub, far}
    Targets = {tSub, tFar, tDb}
    FileTargets = {tSub, tFar}
    DirOf <- MCDirOf
    StoreOf <- MCStoreOf
    Entries = {e1, e2, e3, e4}
    TargetOf <- MCTargetOf
    KeyOf <- MCKeyOf
    Owned = {j}
    MaxChanges = 0
    Live = {sub, db, s3}
    NodeId <- MCNodeId
    Selections <- MCSelections
    BadNames = {k}
    Empty <- MCEmpty
SPECIFICATION Spec
CHECK_DEADLOCK FALSE
PROPERTIES
    EverythingIsShown

