CONSTANTS
    fileA = fileA
    fileB = fileB
    r1 = r1
    s1 = s1
    rpw = rpw
    chained = chained
    fa = fa
    fb = fb
    own = own
    proxy = proxy
    pool = pool
    dot = dot
    redis = redis
    bucket = bucket
    secret = secret
    chain = chain
    json = json
    gone = gone
    dirA = dirA
    dirB = dirB
    listed = listed
    nested = nested
    valued = valued
    named = named
    opaque = opaque
    p1 = p1
    p2 = p2
    p3 = p3
    t1 = t1
    t2 = t2
    t3 = t3
    t4 = t4
    t5 = t5
    t6 = t6
    t7 = t7
    FILE = FILE
    FSSPEC = FSSPEC
    None = None
    Empty = Empty
    Uris = {fileA, fileB, r1, s1, rpw, chained}
    Schemes <- MCSchemes
    SchemeOf <- MCSchemeOf
    Opts <- MCOpts
    Factories = {fa, fb}
    Installed <- MCInstalled
    Invalid = {"file"}
    Fsspec = {"file", "simplecache"}
    Objects = {own, proxy, pool}
    Managed = {proxy, pool}
    Tests = {t1, t2, t3, t4, t5, t6, t7}
    Suite <- MCSuite
    Dirs = {dirA, dirB}
    RawUris = {dot, redis, bucket, secret, chain}
    Canonical <- MCCanonical
    PartsOf <- MCPartsOf
    Parts = {"file", "redis", "redis-pw", "s3", "cache", "s3-sig"}
    Secret = {"redis-pw", "s3-sig"}
    Exposed = {rpw, chained}
    Default = dot
    Profiles = {p1, p2, p3}
    Static <- MCStatic
    Usable = {json}
    Recorders = {json, gone}
    Options = {Empty, listed, nested, valued, named, opaque}
    Freeze <- MCFreeze
    Alike <- MCAlike
    PyValues <- MCPyValues
    Depth <- MCDepth
    Inis <- MCInis
SPECIFICATION SelectionSpec
CHECK_DEADLOCK FALSE
INVARIANTS
    OneSource
    BoundMeansBuilt
    EnteredOnce
    ExitedOnce
    SecretsStayOut
    SharedWithAlike
