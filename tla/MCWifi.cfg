SPECIFICATION MCSpec
CONSTANTS
    None = None
    Codes = {scan, key, ip}
    Nodes = {n1, n2}
    MaxInflight = 2
    Mask = 2
    Modulus = 8
    MayLosePriv = TRUE
INVARIANT PoolAccounted
INVARIANT OwnAnswer
INVARIANT BuffersOutliveReads
PROPERTY EveryCommandAnswered
